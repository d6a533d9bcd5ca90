# Town Crier in TLA+

Town Crier is an authenticated data feed for Ethereum. A contract collects
paid requests for data from web sites. A relay watches the contract and passes
each request to a server. The server runs an SGX enclave that fetches the data
and signs a transaction. The relay sends the transaction to the network, and
the contract hands the response to the requester's callback.

These modules model that path, from the requester's payment to the decision of
an example contract, with the things that may go wrong on the way, and beside it
the contract with voting and the option contracts. Paths below
are relative to the root of the repository.

## 1. Inventory

| Component | Source | State | Operations |
|---|---|---|---|
| TownCrier contract | `contracts/TownCrier.sol` | prices, request slots, number of open requests, killswitch, lock, balance | `request`, `cancel`, `deliver`; for the owner `upgrade`, `reset`, `suspend`, `restart`, `withdraw` |
| Application (example) | `contracts/Application.sol` | requester and fee per request id, balance | `request`, `cancel`, callback `response` |
| FlightInsurance (example) | `contracts/FlightInsurance.sol` | policies, map from request ids to policies, balance | `insure`, `request`, `cancel`, callback `response` |
| Relay | `python-relay/relay.py` | one process: where it is, batch of requests, nonce, transaction. Nothing is persistent | `catchup`, `wait_for_requests`, `handle_request_event`, `send_response_check` |
| Server | `src/App/tc.cpp`, `rpc.cpp`, `key_utils.cpp` | how far start-up is, shared response buffer, calls | `main`, `process`, `attest`, `status` |
| Enclave environment and keys | `src/Enclave/env.cpp`, `eth_ecdsa.cpp` | signing key, hybrid key, contract address | provisioning at start-up |
| Request dispatch | `src/Enclave/event_handler.cpp` | none | `handle_request`, `do_handle_request` |
| Transactions and encodings | `src/Enclave/eth_transaction.cpp`, `encoding.*`, `eth_abi.*` | none | `form_transaction`, RLP, ABI |
| Flight scraper | `src/Enclave/scrapers/flight.*` | none | `handle`, `handleEncryptedQuery` |
| Other scrapers | `src/Enclave/scrapers/` | none | one `handle` per type |
| HTTPS client | `src/Enclave/tls_client_tiny.cpp`, `external/tinyhttp` | connection, parser state | `getResponse`, `http_data` |
| Encrypted queries | `src/Enclave/hybrid_cipher.cpp` | none | `hybrid_decrypt` |
| TownCrier with voting | `contracts/TownCrier-vote.sol` | request slots with up to two responses, balance | `request`, `deliver` |
| Put options | `contracts/PutOption.sol`, `PutOptionVote.sol` | terms, buyer, prices, balance | `buy`, `put`, `recover`, callback `settle` |
| Other examples | `contracts/SteamTrade.sol`, `Ref.sol` | | |
| Attestation, key generation, configuration, front end | `src/App/` and others | | |

`PROJECT.json` lists the components with their status, and the hazards of the
code, each at its line, with the properties that cover them.

### How the parts interact, what is hard, what must hold

**TownCrier and its callers.** Every `address.call` of the contract gives
control to the callee. A callee that is a contract may call back into TownCrier
before the caller has finished, may fail, or may leave the caller without gas.
A failed call is rolled back; TownCrier ignores some failures and reverts on
others. Only the flag `externalCallFlag` guards `request` and `cancel`, and
`withdraw` does not set it. The `fee` field of a request doubles as its status:
0 is "delivered", 1 is "cancelled". It must hold that the balance covers what
is owed for each request, that the number of open requests is right (`upgrade`,
`reset` and `withdraw` depend on it), that no request is answered twice, and
that the lock is never left set.

**Example contracts.** They are at once requesters, callback targets and payers
of users who run code when they are paid. Their records of who is owed what
must agree with TownCrier's, and no user may be paid twice or with another
user's ether.

**Relay, node and chain.** The relay is sequential but everything around it is
not: requests are mined while it catches up, filters are retired by the node,
receipts come late or never, connections break after the node took a
transaction, and the process dies at any point. It keeps nothing on disk, so
that after a restart it must find the unanswered requests from the chain. It
must not block the wallet's nonces or lose requests.

**Server and enclave.** Start-up loads two keys and the contract's address into
the enclave, which checks only that the signing key is there before it uses them. gRPC runs calls in parallel, but all of
them share one response buffer. The enclave has room for a fixed number of
threads; it may be lost, and calls may hang on a web site for ever. A reply must
never carry a transaction that some earlier call left behind.

**Download and dispatch.** The site decides where TLS records split the reply, and
it, or the network, may end the connection anywhere and in several ways. What the
client returns must be what was sent, and its loop must end. Every type of
request has a scraper with its own way to fail, and the dispatcher maps each
failure to a flag. The flag 1 costs the requester the fee; the flag 0 says that
the response is the site's answer.

**Votes and options.** With voting, three enclaves answer each request for a
share of the fee. Two equal answers must decide, and no enclave may be paid from
the fees of other requests. A put option holds the issuer's money. It must
cover what it may owe to the buyer, through arithmetic that wraps and payments
that fail without notice, and pay at a price that was agreed on.

**Data path.** What the scraper computes goes through a signed int, 32 bytes of
response, ABI and RLP, and is read by the contract as an unsigned number. The
decision of the insurance must follow from what the flight did.

## 2. Modules

| Module | What it is |
|---|---|
| `RequestEscrow` | what TownCrier promises: each request is an escrow with a one-way life |
| `TownCrier` | the contract on the EVM; implements `RequestEscrow` |
| `TownCrierProofs` | its invariants, and that it implements `RequestEscrow`, proved |
| `TownCrierClient` | control between TownCrier, a contract that uses it, and users that are paid |
| `Application`, `FlightInsurance` | the example contracts, each with `TownCrierClient` and, through it, `TownCrier` |
| `ApplicationProofs`, `FlightInsuranceProofs` | their invariants, proved |
| `Relay` | the relay, the node, the chain |
| `RelayProofs` | its invariants, proved |
| `Server` | start-up, RPC calls, the enclave's state |
| `ServerProofs` | its invariants, proved |
| `Notation` | joining sequences, sums, division by the base: what the encodings are made of |
| `HttpsClient` | one download: the site, the read loop, the HTTP parser |
| `RequestHandler` | `do_handle_request` with its scrapers, on top of `HttpsClient` |
| `FlightQuery` | one flight query from FlightAware to FlightInsurance |
| `EnclaveProofs` | what a download returns and what becomes of it; the decisions on a flight for words of every width; that transactions and arrays are read back: proved |
| `Encoding` | integers as bytes, RLP, ABI |
| `DeliverTransaction` | `form_transaction` against strict decoders |
| `TownCrierVote` | the contract with voting |
| `TownCrierVoteProofs` | its types, single answers, majorities and payments, proved |
| `PutOption` | both option contracts |
| `PutOptionProofs` | their invariants, proved |
| `MC...` | instances for TLC |

`PROJECT.json` maps each definition to the lines it stands for. Definitions
keep the names of the code. Operators introduced as "Mutant of" are variants
with a plausible bug; no specification uses them. Each shows that a property
can fail.

### TownCrier

`world` is the contract's storage and balance, all that a failing call rolls
back. `stack` holds its suspended external calls. A frame remembers the world
at the entry of the suspended function, which `revert` and exhausted gas
restore, and the world when the callee got control, which a failing callee
restores if its caller goes on. Each function is an action up to its external
call, and `CalleeReturns`, `CalleeFails` and `OutOfGas` are what follows.
Between those any function may be called by any account that runs code. Only
the SGX wallet calls `deliver`. The wallet is no contract, so `deliver` is never
nested.

Two fields are history and guard nothing: `callbacks`, the callback calls made
per request, and `surplus`, ether on which nobody has a claim (refused refunds,
ether forced in).

Amounts are in units of 5000 gas at the initial gas price: the minimum fee is 6,
the cancellation fee 5. The gas a callback gets is not a number here: a call
may run out of gas at any point, which covers every amount of gas.

### Application and FlightInsurance

`TownCrierClient` has the same scheme for a contract that uses TownCrier. Calls
from the client into TownCrier, refunds to the client's empty fallback and the
callback end without handing control to others, so they are single steps built
from `TownCrier`'s operators. Control leaves only when the client pays a user;
`calls` holds these suspended payments. Other users may make requests of their
own with the client's callback as target (`ForeignRequest`).

`reset` may change the cancellation fee of TownCrier, while that of Application
is a constant, so Application may pay for a cancellation what it did not get:
then `held`, what is left of a request's ether in Application, becomes negative.
In FlightInsurance amounts are modulo `WORD`. `insure` takes the price of the policy from its
caller and multiplies and adds without a check, so prices near `WORD` are accepted.

The fields `held`, `paid` and `payouts` are history.

### Relay

One variable is the process (`relay`), with the program counter and the
locals that survive a step; the others are the contract's requests, the mined
nonce, the mempool, the filter and the server (`running`). A relay that dies, or
whose connection breaks, leaves its call of the server behind. That call ends
later and writes to the buffer that all calls share, so `Process` may get the
transaction of such a call in place of its own, or a mixture of both, which
counts as no transaction. This is what `NoStaleTransaction` of `Server` allows.
The batch is a set, read in the order of the ids, since that is the order in which the
node returns log entries. `Failing` are the requests for which the enclave returns an error. The field
`crossed` of `log` is history: the requests for which this run of the relay got
the transaction of another one.

### Server

`main` goes through start-up; each call of `process` goes through acceptance,
the ecall, the two halves of the write to the shared buffer, and the reply.
The buffer records which call wrote each half. `Abandon` is the relay
that is killed while it waits: its call goes on and overlaps with the next.

### HttpsClient, RequestHandler

The wire is a sequence of items. A line of the header is one item, since nothing
depends on its characters; the body is bytes, with the hexadecimal sizes and line ends
between chunks, which the parser reads by the table of `chunk.c`. `Read(n)`
delivers a TLS record of `n` items to `http_data`, for every `n` up to the size of
the buffer. `Close` ends the connection after any item: as TLS demands
(`close_notify`), by a reset, or by an end of file without notice. `FallSilent` is a
site that keeps the connection open and sends nothing more; reads have no timeout. `ReadEof` has
the condition of `getResponse` as its guard; where it is false and the connection
has ended, nothing is enabled, which is how a loop that goes round for ever
appears.

`RequestHandler` puts a request and a scraper around that. What a page says is
one of five things: the fact, that there is no such thing, that the flight has not
departed, JSON of another form, or text. Each scraper is an operator from this, the outcome of the
download and the status to the results it may return. `answer` is the flag and
what is in the response: also memory that was never set, or lies behind the
response.

### TownCrierVote

`deliver` ends with its callback, and enclaves are no contracts, so every function is one
step. `votes`, `paid` and `callbacks` are history. An enclave may vote more
than once on a request, as the contract allows. Then the balance may not suffice for
a payment, which fails without notice.

### PutOption

`terms.vote` tells the two contracts apart. Arithmetic is modulo `UINT`. `send`
gives the receiver no gas to call back; it fails if the balance does not suffice
or the receiver refuses, and only the latter is noted in `refusals`. `answers`, `payouts` and `refusals` are history.

### FlightQuery, Encoding, DeliverTransaction

`FlightQuery` follows one query. The flight departs or is cancelled at any
time, also between the question and the answer. The words have `UINT64` and
`UINT32` values and wrap around. An uninitialised `int` is any int.

`DeliverTransaction` takes numbers, hashes, responses and signature halves and
compares the bytes of `form_transaction` with what a strict RLP decoder and
an ABI decoder read from them. `Encode` gives arrays of items to
`ABI_Generic_Array::encode` that `form_transaction` itself does not use.

## 3. Runs

| Run | Result | What it shows |
|---|---|---|
| `towncrier` | pass | books, lock, single answers and the escrow refinement under nested calls, failures, rollbacks |
| `application` | pass | Application and TownCrier agree; nobody is paid twice; only a reset of the cancellation fee takes ether from others |
| `flight_insurance` | pass | policies and requests point at each other; nothing is paid twice; an answer goes unpaid only when the pool is used up |
| `flight_in_full` | violation of `PaidInFull` | refunds lack the fee |
| `relay` | pass | nonces, handling once per run, one transaction per request and fault, catchup, recovery, also when calls of earlier relays still run |
| `relay_gap` | violation of `LoggedIsProcessed` | requests between catchup and filter are lost |
| `request_handler` | pass | the client returns what was sent and ends; who is blamed; what passes for a fact |
| `flight_query` | pass | late flights are paid, those up to half an hour late are not, fees come back |
| `deliver_transaction` | pass | decoders read back what was encoded |
| `server` | pass | keys before use, no stale transaction, calls end |
| `towncrier_vote` | pass | two equal votes decide; each vote is paid from its own fee; what repeated votes take from other fees is bounded |
| `put_option` | pass | the option is covered but for two fees, pays the agreed price, keeps no money |

Each module has one type invariant. Where `TypeOK` is not listed among the properties of a run it
is the first conjunct of another one: `HttpTypeOK` of `ReturnsWhatWasSent`, `TypeOK`
of `BlamedForCause`, `RequestersAgree`, `IdMapAgrees`, `HandledOncePerRun`,
`DecodesBack`, `ProvisionedInside` and `Covered`.

Some properties name exceptions. Those are what the code does, not what one
would wish: `NoErrorMeansFact` lists the scrapers that answer without an error
though they have no fact, `LoopEnds` the three cases in which the read loop does not
end, `MoneyLeaves` the two in which an option keeps money, `EachVotePaid` what
enclaves that vote again may take, `LossOnlyByReset` what a reset of the cancellation fee
may cost, `Covered` and `PaidAsAgreed` the two fees for which the constructor does
not ask, `SentOnceUnlessFault` cancelled requests, `CatchupLeavesNone` and `CatchupRecovers`
the requests whose transaction was mistaken. Everything outside the exceptions
is ruled out.

### Bounds and why they are enough

* `towncrier`, 2 requests, 2 nested calls, 3 values (below the minimum fee, at
  it, above it), one new set of prices, one value of forced ether. Two
  accounts that are contracts, one of them the owner, since only the owner's
  re-entry from `withdraw` differs from that of others. With two
  requests, one can pay for the other if the books are wrong. The flag excludes
  `request` and `cancel` below the first call, and only `withdraw` can be
  suspended below another call, so two levels show each pair of functions.
  The proofs cover all other depths and numbers.
* `application`: 2 requests, 2 nested payments, values below, at and above the
  fee; the owner of TownCrier is also a user that is a contract, and raises the
  minimum fee. He sets the cancellation fee to the constant of Application, below it or
  above it.
* `flight_insurance`: 2 policies, 2 requests, 22 wei with each of them; a premium of 12,
  which is sold for exactly that, one of 13, which is not, and one of 248, which is
  sold since 248 + 10 wraps to 2 modulo `WORD` = 256. A pool of 50 covers the payout of one
  policy, not of two. Delays of 29 and 30;
  two days; a new minimum fee above the fee of policies already sold. `flight_in_full` has the
  same bounds.
* `relay`: 3 requests, so that one can be before and one after any given
  one; 2 faults, so that one can hit the recovery from another; the third
  request fails in the enclave; 5 transactions in the wallet, so that it runs
  dry only after resends. A relay is always restarted with `--catchup`
  (`Catchups`). `relay_gap` needs one request and no fault.
* `request_handler`: both statuses that matter (200 and another one), all three
  ways to mark the end of a body, with and without fields after the last chunk,
  and three bodies: empty; two chunks that begin and end with line ends and digits, so that a parser
  that loses its place would misread them; one chunk of 17 bytes, whose size
  has two digits and which is longer than the buffer of 8. Records have every
  size up to the buffer, and the connection may end after every item, in three ways, or
  fall silent there.
* `towncrier_vote`: 2 requests, so that one can pay for the other; 6 votes, three for each
  or all on one; three responses, so that there may be no majority; fees below,
  at and above the limits. Costs of 4, 3 and 2, so that they cannot be confused.
  Enclaves, and responses, are symmetric.
* `put_option`: two units at 1 with a strike price of 3, paid in from one short of the
  constructor's demand to the fees of three requests; and a strike price below
  the price of a unit, where the difference wraps. Prices of 0, of 1 and at the
  strike price, so that three answers may all differ; integers modulo 64.
* `server`: 2 threads in place of the 10 of `Enclave.config.xml`, and 3 calls,
  so that one finds no free thread; 4 faults, so that two calls can be abandoned
  and two others can stall or the enclave can be lost.
* `flight_query`: words of 16 and 13 bits. A word of 13 bits holds half an hour
  in seconds and has a sign bit above it; departures lie on both sides of each limit of the
  code (0, 29, 30, 1799, 1800 seconds late, and where an int becomes negative).
  The theorems hold for every width.
* `deliver_transaction`: numbers at the boundaries of a byte, signature halves
  with and without a leading zero, arrays of up to three items with empty, full and partly
  filled last words. The gas price is scaled down, as TLC's
  integers have 32 bits.

`CHECK_DEADLOCK FALSE` is set where the system may stop: `flight_query` ends
with the decision, `request_handler` with the answer or with a silent site,
`put_option` with settlement or recovery, `towncrier_vote` at its bounds; in
`server` a relay whose call stalled waits for ever.

### Fairness

Safety properties are checked without need of it. For liveness:

* `Relay`: weak fairness of the relay's own steps (`Run`: the process is
  scheduled, and the calls it makes return or fail), of mining a transaction
  that can be mined, and of the restart (`Start`: an operator or supervisor starts a
  relay that is down). Nothing is assumed about requests, cancellations or
  faults, and the number of faults is bounded: recovery is about what happens once
  they end.
* `Server`: weak fairness of each call, since gRPC runs each one in a thread of its
  own. A call that stalls on a web site is excepted, because the read timeout is
  0.
* `RequestHandler`: weak fairness of `Reading`, the loop of `getResponse` as long
  as there is something to read. The site may close the connection or fall silent at any
  point; if it does neither, what it has to send arrives.

## 4. Proofs

All of this holds for every value of the constants that satisfies the modules'
named assumptions (types of the constants, mostly) and, where one is given, the
condition of the theorem. The instances of the runs satisfy all of these.

| Theorem | Property | Condition |
|---|---|---|
| `TownCrierProofs`: `TypeCorrect`, `CountCorrect`, `Solvency`, `FeeCoverage`, `AnsweredAtMostOnce`, `LockReleased` | `TypeOK`, `UnrespondedCount`, `Solvent`, `PendingFeeCoversMinFee`, `AnsweredOnce`, `FlagMatchesStack` | `FlagsDistinct` |
| `TownCrierProofs!RefinesEscrow` | `ImplementsEscrow` | `FlagsDistinct` |
| `ApplicationProofs`: `AgreementOnRequesters`, `PaymentsOnce` | `RequestersAgree`, `PaidOnce` | |
| `ApplicationProofs!EachPaysForItself` | `LossOnlyByReset` | `FlagsDistinct` |
| `FlightInsuranceProofs`: `ResponsesFindTheirPolicy`, `PoliciesPaidOnce` | `IdMapAgrees`, `PaidOnce` | |
| `RelayProofs`: `NoncesInOrder`, `RelayHandlesOnce`, `CatchupIsComplete` | `NonceNeverStuck`, `HandledOncePerRun`, `CatchupLeavesNone` | |
| `ServerProofs`: `ProvisionedBeforeUse`, `RepliesNotStale` | `ProvisionedInside`, `NoStaleTransaction` | |
| `EnclaveProofs`: `AlwaysReturnsWhatWasSent`, `AlwaysBlamedForCause`, `AlwaysNoErrorMeansFact` | `ReturnsWhatWasSent`, `BlamedForCause`, `NoErrorMeansFact` | |
| `EnclaveProofs`: `FlightTypeCorrect`, `LateFlightsArePaid`, `OnTimeFlightsAreNotPaid`, `FeesComeBack` | see `PROJECT.json` | |
| `EnclaveProofs`: `DeliveredDecodesBack`, `DeliveredRejectedForScalars`, `DeliveredArguments`, `FirstOffsetsAreRight` | `DecodesBack`, `RejectedForScalarsOnly`, `ContractReadsArguments`, `OffsetsRight` | |
| `TownCrierVoteProofs`: `TypeCorrect`, `TwoVotesAnswer`, `MajoritySettles`, `VotesArePaid` | `TypeOK`, `AnsweredByTwo`, `MajorityDecides`, `EachVotePaid` | |
| `PutOptionProofs`: `BuyerIsCovered`, `PaysTheAgreedPrice`, `NothingIsLeft` | `Covered`, `PaidAsAgreed`, `MoneyLeaves` | `AmountsFit` |

The conditions:

* `FlagsDistinct`: no price that the owner of TownCrier may set equals one of
  the flags 0 and 1. Without it `AnsweredOnce` fails: with a price of 0
  an answered request can be cancelled and is open again (section 5).
* `AmountsFit`: what is paid in plus the price of all units, and the value of all units
  plus three fees, are below 2^256 wei. The option contracts do not check the
  products. Differences may still wrap, and the proofs deal with that.

**TownCrierProofs.** The invariant is `Inv`: the *books* of the current world,
and of every world in the stack, are sound. `Books(w)` says of one world that it
has its type, that prices are above the flags, that slots which were never issued
are empty, that answered requests are closed, that each pending fee covers the
minimum fee, that the counter is the number of open requests, and that the
balance is what is owed plus the surplus. No part is inductive alone: solvency
after `cancel` needs that fees cover the prices, the counter needs that slots
beyond `requestCnt` are empty, `reset` keeps fees covered only because a counter
of zero means that nothing is open.

Each operation keeps the books of one world (`BooksRecorded`, `BooksResponded`,
`BooksCancelled`, `BooksReset`, `BooksSurplus`), so worlds may be pushed
and restored in any order (`PushKeepsInv`, `PopKeepsInv`). That is why depth does
not matter.

Sums over requests would need induction. Instead `OwedWei` is the set of all
wei that are owed, each labelled with its request. Solvency is an equation
between the balance and a cardinality, and adding or removing a claim is a
union or difference of finite sets (`AddClaim`, `RemoveClaim`).

`FlagMatchesStack` has an invariant of its own, `LockInv`, which relates the
flag in the worlds of each frame to the frames below it. The refinement has a
third one, `TxInv`. An abstract step of `RequestEscrow` is a whole transaction,
which the contract completes when its outermost call ends; until then the abstract state
is the one at the entry of that call. `TxInv` says of every world in the stack what the
transaction did to the escrow so far: requests and cancellations only, or, if it
is a `deliver`, the one answer that it stands for and nothing else. The lock
gives the second case: nothing that `deliver` calls can change another request.

**ApplicationProofs, FlightInsuranceProofs.** `Sound` is about one state of the
client and TownCrier, slot by slot: which request belongs to whom, what was
kept and paid for it, and that a slot never issued is empty in both contracts.
Each operation keeps it, and it is claimed of the states in suspended payments,
too, so re-entry and roll-back, at any depth, need no further argument. It must name both
contracts: that a requester is cleared before he is paid (`PaidOnce`) is of use
only if TownCrier cannot call back for the same request again, and that no
other user's request is taken for one of the client (`IdMapAgrees`) rests on
TownCrier's record of who made it. For `LossOnlyByReset` it says what a cancelled request
left in Application: the constant minus the fee that TownCrier kept, which is the
initial one or one that a reset set.

**RelayProofs.** `NonceInv`: the relay's nonce and its transaction's are at most the
next nonce of the chain, and the mempool holds at most that one. What the
node accepts must then be the next transaction, and only into an empty mempool. The
same bound holds for the transactions that calls of earlier relays will make
(`running`), so getting one of those in place of its own does not harm the
relay. `HandledInv`: what was handled in this run is not left in the batch,
nothing in the batch was handled, and while the relay watches, everything beyond the
filter is new. `CatchInv` follows one request through catchup: it is in the batch,
or the transaction that was sent for it is still what the relay waits for, or it was
mined or crossed. That a transaction leaves the mempool only into a block gives the step
from waiting to mined. No fairness is needed, and no bound on faults.

**ServerProofs.** `ServerInv`: the keys and the address are there in the order of
`main`; calls run only while it serves; two calls that run know of each other; and
the buffer, as soon as a call has written to it, holds what the call itself wrote or
one that ran at the same time. The last part is what `NoStaleTransaction` asks of the
reply; it needs the third, since a write of another call between one's own
write and one's reply must come from a call that one knows of.

**TownCrierVoteProofs.** `Inv` relates each slot to the votes on it: how many
responses it has, that they are the first two votes, and that it is open and was not called
back until two of its votes agree. `PayInv` adds that, unless an enclave voted
twice, each request has paid what is due for its votes, and that the balance
holds what is left of the fees of open requests, again as a cardinality of labelled
wei (`Wei`, `WeiAdded`). So a payment never fails for lack of ether
(`AffordableIsSent`), and three enclaves cast three votes at most
(`ThreeVotesAtMost`, the pigeonhole principle). `LimitInv` bounds what is paid for a
request however often enclaves vote: the price of each vote so far, or, once it is
settled, its fee and one last price for each vote beyond the third.

**PutOptionProofs.** `Inv` has the order of the operations (`Stages`), bounds on
the balance that keep sums from wrapping (`Money`), and what the contract
remembers of the answers (`Memory`): until it is settled, no two criers gave the
same price, and what is stored is what they gave. `Covered` and `PaidAsAgreed`
are parts of it, as each needs the other parts: that the buyer can be paid in
full needs that nothing was paid before. What may be missing is fixed by the constructor
(`MissingIs`, `ConstructorAsks`): nothing if the issuer paid in all three fees,
otherwise at most the two that are not asked for.

**EnclaveProofs.** The parser is at one place of the reply at a time. `At(r, h, p)`
says what the parser's state `h` is after `p` items of the reply `r`: in the header; in a
body whose length was given, or of unknown length; in the size of chunk `k`, with the
value of the digits so far; inside chunk `k`; in the line end after it; in the line that
ends the last chunk. `Over` says that the parser is done, with the whole body or with an
error. For each of these places a lemma shows that the next item, or the next bytes of a
body, lead to a place behind them (`HeaderStep`, `SizeStep`, `DataStep`, `DataEndStep`,
`EndStep`, `RawStep`, `UnknownStep`). By induction over the rounds of `http_data` a whole
record does (`Rounds`), so it does not matter how the stream is cut into records.
`DownloadInv` adds that the rest of the wire is a slice of the reply, and that `cut` tells
whether it reaches to the end.

Where the items are comes from the encoding. `Concat` joins sequences and `Quotients`
divides a size by powers of 16, both as recursive functions. `JoinedEquation`,
`ConcatIndex`, `QuotientsEquation` and `SizeIsHex` say what they compute, for all inputs:
the library's induction theorems cannot be applied by the provers, but induction stated
for sets of numbers can (`Induction`), and so can the existence of a recursive function
(`Recursion`). The replies are those whose body fits the parser's `int`
(`LengthAssumption`); nothing bounds them otherwise.

`RequestInv` adds that nothing of the download moves after the answer. What the scrapers
return is then a case analysis (`ScraperAllowed`): a page that is not the one sent is
shorter, because the connection broke without notice in a body without a length.

`FlightInv` says what an answer reveals of the flight that was
seen. Lemmas about `%` carry a delay through the int and back
(`AppendToInt`). The module's assumption is that half an hour fits twice into
the narrower word, so the theorems hold for 64 and 32 bits.

The transaction: `DeliverInv` says that what there is has been formed from arguments of
their types (`DeliverAssumption`: 64-bit numbers, 32-byte hashes and halves of a
signature, a 20-byte address) and that the array is one whose offsets are 64-bit numbers.
The rest is about the encoders and the decoders, for all such inputs. A number is the
value of its digits to the base 256 (`PaddedValue`), with none to spare (`ItobBack`). A
header announces the length it was made for (`HeaderType`) and is read as such wherever
it stands (`ReadHeader`); a string that stands in a longer one is read from there
(`ReadString`), and a list from its end to its beginning (`StringsBack`, `ListBack`).
`Strings`, which goes from item to item, is a recursion that ends because every item that
is ok leads on (`ItemForward`, `StringsEquation`). The fields of a transaction have at
most 132 bytes each, so that it fits in the buffer (`TransactionBack`). In an array the
heads are words (`HeadsStand`) and the tails begin where the lengths before them add up to
(`TailsBegin`, `ArrayPlaces`); the sum that the code does not reset equals that for the
first two dynamic items (`FirstTwo`), which is why `OffsetsRight` stops there.

**Only model-checked:**

* the liveness properties `CatchupRecovers`, `CallsEnd` and `LoopEnds`, since the
  prover has no support for `ENABLED`;
* `SentOnceUnlessFault`, which would need a count of the transactions that are on their way;
* `UnpaidOnlyIfDry`, a sum over all policies;
* the properties of the violation runs, which do not hold (section 5).

## 5. Findings

The violation runs; the places are in `PROJECT.json`.

1. `flight_in_full`. FlightInsurance clears `fee` before it reads it for
   refunds, in `cancel`, in `request` and in `response`.
2. `relay_gap`. Requests between the block that catchup reads and the creation of the
   filter are lost until the next catchup.

Seen while modelling, without a run of its own:

* `TownCrier.sol:197`: after a `reset` with a price of 0, which line 66 accepts, the fee 0 of an
  answered request passes the guard of `cancel`; the request is then open again, though
  `docs/tc-contract.rst:52` lets a requester cancel one "whose response has not yet been
  issued". `FlagsDistinct` excludes that price.
* `Application.sol:86`: `cancel` pays out the fee minus a constant, whatever TownCrier kept; after a
  reset of the cancellation fee ether is left behind, or taken from other users.
  `LossOnlyByReset` says how much, with resets in both directions.
* `FlightInsurance.sol:114`: policies are sold whatever the balance is; a payout that the pool does
  not cover fails without notice, and the policy is closed (`UnpaidOnlyIfDry`).
* `flight.cpp:191`, `218`: a plain query before the departure returns an int that was never set,
  without an error. `docs/flight-ins.rst:28` promises "not delayed", and `docs/tc-contract.rst:40`
  that with `error = 0` the contract "can then safely use" the data. The latter is false for all the
  cases that `NoErrorMeansFact` lists.
* `flight.cpp:126`: the difference of times is unsigned and wraps for a flight that leaves
  early, which is then paid out as a delayed one. `OnTimeIsNotPaid` leaves such flights out.
* `relay.py:76`: a relay that is restarted while a call of its predecessor still
  runs may take that call's transaction for the answer to another request. That
  request is then without an answer until the next restart (`crossed`).
* `tls_client_tiny.cpp:455`: an end of file inside a body of known length, or
  inside chunks, makes the loop go round for ever, and line 351 sets the timeout of reads
  to 0, so that a silent site holds it for ever, too (`LoopEnds`).
* `tls_client_tiny.cpp:464`: a body of unknown length that ends with the
  `close_notify` TLS demands is an error, one that is cut off without notice
  is returned.
* `chunk.c:27`: chunk extensions and fields after the last chunk are errors.
* The constructor of `HttpsClient` runs outside the `try` of the flight, Steam, stock,
  weather and Wolfram scrapers: if it throws there is no transaction and the
  request stays open.
* `coinmarketcap.cpp:68`: in a page that was cut off the price may be cut off,
  too. `steam2.cpp` takes an object without a response, as for an error, for "no
  trade". `wolfram.cpp` answers with the text of whatever page comes, or with
  nothing. `current_weather.cpp` dereferences `end()` for a key that is missing.
  `yahoo_yql_stock.h:148` blames the requester for a page without results, and
  `flight.cpp`, `steam2.cpp:126` and `current_weather.cpp:100` do so for JSON of another form.
  All of these are exceptions or cases of `NoErrorMeansFact` and `BlamedForCause`.
* `TownCrier-vote.sol:41` writes a field that `Request` does not have. Line 88: an
  enclave may vote any number of times. Line 49: the ether of a refused request
  stays in the contract, which has no operation to withdraw it.
* `PutOptionVote.sol:58` withholds three fees where line 32 asks for one
  (`Missing`): the refund of the issuer may wrap, which then fails, and up to two fees
  of what the buyer may get are not there. Line 116: if the issuer refuses the rest, a third answer pays the buyer
  again. Line 118: with three different prices the money stays for ever.
* `relay.py:138`: an exception in one request drops the rest of the batch
  that `get_new_entries` returned. In `Relay` this is `Raised`; `CatchupRecovers`
  holds since a restart finds them, but a relay that keeps running does not.
* `relay.py:117`: a request for which the enclave fails ends every catchup, and with it
  the process. `CatchupRecovers` excludes the requests from that one on.
* `relay.py:102`: cancelled requests have no `DeliverInfo`, so each catchup
  resends them; `deliver` ignores it, but gas is spent until the wallet is empty.
* `eth_transaction.cpp:263`: `r` and `s` keep leading zeros. About 1 of 128
  signatures has one, nodes reject it, and the relay drops the response
  (`RejectedForScalarsOnly`).
* `rpc.cpp:88`: overlapping calls may get each other's transaction or a mixture
  (`NoStaleTransaction` says how far this goes).
* `rpc.cpp:99`: when the ecall itself fails, the reply is an empty transaction
  with error code 0.
* `eth_abi.cpp:123`: the offset of a third dynamic item is wrong; `ABI_Bytes`
  pads on the left. `deliver` has no dynamic item (`OffsetsRight`).
* `scrapers/bitcoinfees.cpp:18`: an uninitialised fee is returned if the page
  has another status or cannot be read. `eth_transaction.cpp:183` copies 32 bytes of a
  response that may be shorter.
* `flight.cpp:128` answers in seconds, FlightInsurance compares with 30 minutes. They
  agree only because the enclave answers 0 below 1800 seconds (`LateIsPaid`,
  `OnTimeIsNotPaid`).

## 6. What is left out

* Overflow of 256-bit products and sums, except in `insure` of FlightInsurance, where the caller
  chooses the number, and in the option contracts: elsewhere they are of ether that was paid, which
  is too little, or of prices that the owner sets.
* Events, except the number of callbacks; hashes are injective.
* The refund in `deliver` is a call with 2300 gas and as much again as stipend. Its
  receiver can refuse it; for any call back that changes something that gas is too little.
* In the models of the example contracts, a user's own request to TownCrier is
  neither cancelled nor refused its refund. `TownCrier` itself has both.
* In `Relay`, `dry_run`, which changes nothing; blocks with several
  transactions; reorganisations of the chain.
* In `Server`, `attest` and `status`, which only read.
* In `HttpsClient`, TLS, header lines that are malformed or end in the
  middle of their characters, and chunk extensions. In `RequestHandler`, how a scraper finds its value in
  a page, several downloads for one request (each is like the first), and the forms of
  a request's data, which is readable or not. Scrapers that nothing calls.
* In `TownCrierVote`, a vote for other parameters, which changes nothing, and the gas of the callback.
* In `PutOption`, Town Crier itself: each request is answered once or
  never, or refused; nobody calls `settle` with a request of his own.
* In `FlightQuery`, the URL, the text of the reply, and a reply whose
  array of flights is empty.
* In `DeliverTransaction`, Keccak and the signature are bytes from
  outside. The guard for a transaction larger than `TX_BUF_SIZE` is left out:
  `DecodesBack` shows that none is. Responses have 32 bytes or more; shorter ones are in
  `RequestHandler`.
* Cryptography: ECIES, ECDSA, TLS and SGX itself.
* Components not modelled: `SteamTrade.sol` and `Ref.sol` (small examples without a
  behaviour that the others lack), attestation and key generation (sequential calls of the
  SGX SDK), configuration, logging, conversions, the web front end. Most lines
  of the repository are vendored libraries (mbedtls, SQLite, SDKs), which are
  modelled only by what the program sees of them.

## 7. Plan

What is left: keys, that is sealing, provisioning and attestation as a protocol.
