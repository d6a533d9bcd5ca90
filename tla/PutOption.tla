----------------------------- MODULE PutOption -----------------------------
(***************************************************************************)
(* The put options contracts/PutOption.sol, which asks one Town Crier for  *)
(* the price, and contracts/PutOptionVote.sol, which asks three and pays   *)
(* at a price that two of them give.                                       *)
(*                                                                         *)
(* They pay with `send`, which leaves the receiver no gas to call back and *)
(* which fails without notice.  Of Town Crier it is assumed that each      *)
(* request is answered once or never, that it may be refused, and that     *)
(* settle is called for the option's own requests only.  Arithmetic is     *)
(* that of a uint.                                                         *)
(***************************************************************************)
EXTENDS Integers, FiniteSets, Sequences

CONSTANTS
    Terms,           \* what an issuer may offer, and pay in
    TC_FEE,
    Prices,          \* what Town Crier may answer
    UINT             \* the number of values of a uint

Criers == 0..2       \* TC_CONTRACT0, TC_CONTRACT1, TC_CONTRACT2

ASSUME OptionAssumption ==
    /\ TC_FEE \in Nat /\ Prices \subseteq Nat /\ UINT \in Nat \ {0}
    /\ Terms \subseteq [vote: BOOLEAN, unitPrice: Nat, maxUnits: Nat,
                        strike: Nat, paidIn: Nat]

VARIABLES
    terms,           \* the parameters of the constructor
    balance,
    sold,            \* whether there is a buyer, and the units
    expired,         \* whether EXPR_DATE has come
    optionPut, cancelled,
    requests,        \* what became of the request to each crier
    delivered, prices,
    answers,         \* history: who answered what
    payouts,         \* history: prices at which it was settled, and what was paid
    refusals         \* history: who did not accept a payment

vars == <<terms, balance, sold, expired, optionPut, cancelled,
          requests, delivered, prices, answers, payouts, refusals>>

Add(a, b) == (a + b) % UINT
Sub(a, b) == (a - b) % UINT
Mul(a, b) == (a * b) % UINT

Asked == IF terms.vote THEN Criers ELSE {0}

\* What send leaves of the balance b, and whether the receiver was paid.
Send(b, amount) ==
    {[left |-> b, ok |-> FALSE]}
    \cup IF amount <= b THEN {[left |-> b - amount, ok |-> TRUE]} ELSE {}

\* A receiver refuses what the balance b could pay; a wrapped amount fails for
\* lack of money.
Refuses(who, b, amount, sent) == IF sent.ok \/ amount > b THEN {} ELSE {who}

\* The constructor wants the fee of one request.
Init ==
    /\ terms \in Terms
    /\ terms.paidIn >= Add(Mul(Sub(terms.strike, terms.unitPrice), terms.maxUnits),
                           TC_FEE)
    /\ balance = terms.paidIn
    /\ sold = [buyer |-> FALSE, units |-> 0]
    /\ expired = FALSE /\ optionPut = FALSE /\ cancelled = FALSE
    /\ requests = [c \in Criers |-> "none"]
    /\ delivered = [c \in Criers |-> FALSE]
    /\ prices = [c \in Criers |-> 0]
    /\ answers = {} /\ payouts = <<>> /\ refusals = {}

\* Mutant of Withheld: not the fees.
WithheldStrikeOnly(units) == Mul(units, terms.strike)

\* What buy keeps: the fee of every request, which is more than what the
\* constructor asks for if there are three.
Withheld(units) ==
    Add(Mul(units, terms.strike), Mul(TC_FEE, Cardinality(Asked)))

buy(units) ==
    LET funds  == balance + Mul(units, terms.unitPrice)
        refund == Sub(funds, Withheld(units))
    IN  /\ ~cancelled /\ ~expired /\ ~sold.buyer
        /\ units <= terms.maxUnits
        /\ sold' = [buyer |-> TRUE, units |-> units]
        /\ \E sent \in IF refund > 0 THEN Send(funds, refund)
                       ELSE {[left |-> funds, ok |-> TRUE]} :
               /\ balance' = sent.left
               /\ refusals' = refusals \cup Refuses("issuer", funds, refund, sent)
        /\ UNCHANGED <<terms, expired, optionPut, cancelled,
                       requests, delivered, prices, answers, payouts>>

\* One call for each crier, in their order.  A crier that refuses the request
\* sends the fee back or keeps it.
put ==
    /\ sold.buyer /\ ~expired /\ ~optionPut
    /\ optionPut' = TRUE
    /\ \E taken \in SUBSET Asked : \E back \in SUBSET (Asked \ taken) :
           /\ \A c \in Asked :
                  balance >= TC_FEE * (1 + Cardinality({d \in Asked \ back : d < c}))
           /\ balance' = balance - TC_FEE * Cardinality(Asked \ back)
           /\ requests' = [c \in Criers |->
                              CASE c \in taken         -> "waiting"
                                [] c \in Asked \ taken -> "refused"
                                [] OTHER               -> "none"]
    /\ UNCHANGED <<terms, sold, expired, cancelled,
                   delivered, prices, answers, payouts, refusals>>

\* Mutant of Agreed: a price that was not delivered counts.
AgreedByDefault(c, price) ==
    \/ ~terms.vote
    \/ \E other \in Criers \ {c} : prices[other] = price

\* Mutant of Agreed: compares with the next crier only.
AgreedWithNext(c, price) ==
    \/ ~terms.vote
    \/ LET other == (c + 1) % 3 IN delivered[other] /\ prices[other] = price

Agreed(c, price) ==
    \/ ~terms.vote
    \/ \E other \in Criers \ {c} : delivered[other] /\ prices[other] = price

\* The buyer gets the value of the option, and the issuer what is left, also
\* if the payment to the buyer failed.
PayOut(price) ==
    LET value == IF price < terms.strike
                 THEN Mul(Sub(terms.strike, price), sold.units) ELSE 0
    IN  \E toBuyer \in Send(balance, value) :
        \E toIssuer \in Send(toBuyer.left, toBuyer.left) :
            /\ balance' = toIssuer.left
            /\ payouts' = Append(payouts,
                   [price |-> price, value |-> value, ok |-> toBuyer.ok])
            /\ refusals' = refusals
                   \cup Refuses("buyer", balance, value, toBuyer)
                   \cup Refuses("issuer", toBuyer.left, toBuyer.left, toIssuer)

\* The callback.  With three criers nothing happens once the money is gone.
settle(c, price) ==
    /\ requests[c] = "waiting"
    /\ requests' = [requests EXCEPT ![c] = "answered"]
    /\ answers' = answers \cup {<<c, price>>}
    /\ CASE terms.vote /\ balance = 0 ->
              UNCHANGED <<balance, delivered, prices, payouts, refusals>>
         [] terms.vote /\ balance > 0 /\ ~Agreed(c, price) ->
              /\ delivered' = [delivered EXCEPT ![c] = TRUE]
              /\ prices' = [prices EXCEPT ![c] = price]
              /\ UNCHANGED <<balance, payouts, refusals>>
         [] OTHER ->
              /\ delivered' = [delivered EXCEPT ![c] = terms.vote]
              /\ PayOut(price)
              /\ UNCHANGED prices
    /\ UNCHANGED <<terms, sold, expired, optionPut, cancelled>>

MayRecover == ~(sold.buyer /\ ~expired) /\ ~optionPut /\ ~cancelled

\* By the issuer.
recover ==
    /\ MayRecover
    /\ cancelled' = TRUE
    /\ \E sent \in Send(balance, balance) :
           /\ balance' = sent.left
           /\ refusals' = refusals \cup Refuses("issuer", balance, balance, sent)
    /\ UNCHANGED <<terms, sold, expired, optionPut,
                   requests, delivered, prices, answers, payouts>>

Expire ==
    /\ ~expired /\ expired' = TRUE
    /\ UNCHANGED <<terms, balance, sold, optionPut, cancelled,
                   requests, delivered, prices, answers, payouts, refusals>>

Next ==
    \/ \E units \in 0..terms.maxUnits : buy(units)
    \/ put
    \/ \E c \in Criers, price \in Prices : settle(c, price)
    \/ recover
    \/ Expire

Spec == Init /\ [][Next]_vars
-----------------------------------------------------------------------------
(* Properties.                                                             *)

TypeOK ==
    /\ terms \in Terms /\ balance \in 0..(UINT - 1)
    /\ sold \in [buyer: BOOLEAN, units: 0..terms.maxUnits]
    /\ expired \in BOOLEAN /\ optionPut \in BOOLEAN /\ cancelled \in BOOLEAN
    /\ requests \in [Criers -> {"none", "waiting", "refused", "answered"}]
    /\ delivered \in [Criers -> BOOLEAN] /\ prices \in [Criers -> Prices \cup {0}]
    /\ refusals \subseteq {"buyer", "issuer"}

Value(price) == IF price < terms.strike
                THEN (terms.strike - price) * sold.units ELSE 0

Fees == TC_FEE * Cardinality(Asked)

\* The terms make sense if a unit costs at most the strike price.  Of the fees of
\* three requests the constructor asks for one: so much may be missing.
Sound == terms.unitPrice <= terms.strike

Missing ==
    IF terms.paidIn >= (terms.strike - terms.unitPrice) * terms.maxUnits + Fees
    THEN 0 ELSE Fees - TC_FEE

\* As long as the buyer may put the option or waits for the price, the contract has
\* what it may owe him, but for two fees if the issuer paid in only what the
\* constructor wants, whatever was refunded, refused or recovered and also if the
\* refund of buy wraps.
Covered ==
    /\ TypeOK
    /\ Sound /\ sold.buyer /\ payouts = <<>> /\ (~expired \/ optionPut) =>
           balance + Missing >= Value(0) + (IF optionPut THEN 0 ELSE Fees)

\* The price that two criers, or the only one, gave.
Answered(price) ==
    \E c, d \in Criers : /\ <<c, price>> \in answers /\ <<d, price>> \in answers
                         /\ terms.vote => c # d

\* The option is settled at a price that was agreed on, and a buyer who accepts
\* the payment is paid its value, unless that is within the missing fees of
\* all that he may be owed.  It is settled a second time only if the issuer did
\* not accept the rest, which then is still there.
PaidAsAgreed ==
    /\ payouts # <<>> =>
           /\ Answered(payouts[1].price)
           /\ payouts[1].value = Value(payouts[1].price)
           /\ Sound => \/ payouts[1].ok \/ "buyer" \in refusals
                       \/ payouts[1].value + Missing > Value(0)
    /\ Len(payouts) > 1 => "issuer" \in refusals

\* When all requests have been answered or refused, the contract keeps money only
\* if the issuer did not accept it, or there is no agreed price.  In
\* particular nobody can recover it when three criers gave three prices.
MoneyLeaves ==
    optionPut \/ cancelled =>
        \/ balance = 0
        \/ \E c \in Criers : requests[c] = "waiting"
        \/ "issuer" \in refusals
        \/ optionPut /\ ~\E price \in Prices : Answered(price)
=============================================================================
