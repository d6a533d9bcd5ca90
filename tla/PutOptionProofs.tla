-------------------------- MODULE PutOptionProofs --------------------------
(***************************************************************************)
(* Proofs about PutOption, for all terms, prices and fees that do not      *)
(* overflow a uint (AmountsFit).                                           *)
(***************************************************************************)
EXTENDS PutOption, FiniteSetTheorems, SequenceTheorems, TLAPS

\* The amounts that the parties agree on are amounts of ether: what is paid
\* in and what all units are worth is less than 2^256 wei.  The contracts do
\* not check the products.
AmountsFit ==
    \A t \in Terms : /\ t.paidIn + t.unitPrice * t.maxUnits < UINT
                     /\ t.strike * t.maxUnits + 3 * TC_FEE < UINT

Payout == [price: Prices, value: Nat, ok: BOOLEAN]

Types == /\ TypeOK
         /\ answers \subseteq Criers \X Prices
         /\ payouts \in Seq(Payout)

\* The order of buy, put, settle and recover.
Stages ==
    /\ optionPut => sold.buyer /\ ~cancelled
    /\ cancelled => ~sold.buyer \/ expired
    /\ ~optionPut => /\ \A c \in Criers : requests[c] = "none" /\ ~delivered[c]
                     /\ answers = {} /\ payouts = <<>>
    /\ \A c \in Criers : requests[c] = "waiting" =>
           /\ c \in Asked
           /\ ~delivered[c]
           /\ \A price \in Prices : <<c, price>> \notin answers
           /\ ~terms.vote => payouts = <<>>

\* What the issuer paid in, what the balance is at most, and when it is gone.
Money ==
    /\ terms.unitPrice <= terms.strike =>
           terms.paidIn >= (terms.strike - terms.unitPrice) * terms.maxUnits + TC_FEE
    /\ balance <= terms.paidIn + terms.unitPrice * terms.maxUnits
    /\ ~sold.buyer /\ ~cancelled => balance = terms.paidIn
    /\ ~sold.buyer => balance <= terms.paidIn
    /\ cancelled \/ payouts # <<>> => balance = 0 \/ "issuer" \in refusals

\* Until it is settled the contract remembers what was answered, and no two
\* criers gave the same price.
Memory ==
    payouts = <<>> =>
        /\ \A c \in Criers : delivered[c] => <<c, prices[c]>> \in answers
        /\ balance > 0 =>
               /\ \A c \in Criers, price \in Prices : <<c, price>> \in answers =>
                      terms.vote /\ delivered[c] /\ prices[c] = price
               /\ \A c, d \in Criers :
                      delivered[c] /\ delivered[d] /\ prices[c] = prices[d] => c = d

\* The inductive invariant.
Inv == Types /\ Stages /\ Money /\ Memory /\ Covered /\ PaidAsAgreed
-----------------------------------------------------------------------------
(* Arithmetic.                                                             *)

USE OptionAssumption

LEMMA MulMono ==
    ASSUME NEW a \in Nat, NEW b \in Nat, a <= b, NEW c \in Nat
    PROVE  /\ a * c \in Nat /\ b * c \in Nat /\ c * a \in Nat /\ c * b \in Nat
           /\ a * c <= b * c /\ c * a <= c * b
<1>1. (b - a) * c >= 0
  OBVIOUS
<1>2. (b - a) * c = b * c - a * c /\ c * a = a * c /\ c * b = b * c
  OBVIOUS
<1>3. a * c \in Nat /\ b * c \in Nat
  OBVIOUS
<1> QED
  BY <1>1, <1>2, <1>3

LEMMA TermTypes ==
    ASSUME NEW t \in Terms
    PROVE  /\ t.vote \in BOOLEAN /\ t.unitPrice \in Nat /\ t.maxUnits \in Nat
           /\ t.strike \in Nat /\ t.paidIn \in Nat
OBVIOUS

\* A product of what the buyer takes stays below the one that fits.
LEMMA ProductFits ==
    ASSUME NEW a \in Nat, NEW b \in Nat, NEW c \in Nat, NEW d \in Nat,
           a <= b, c <= d
    PROVE  a * c \in Nat /\ b * d \in Nat /\ a * c <= b * d
<1>1. a * c \in Nat /\ b * c \in Nat /\ b * d \in Nat
  OBVIOUS
<1>2. a * c <= b * c /\ b * c <= b * d
  BY MulMono
<1> QED
  BY <1>1, <1>2

LEMMA ValueIs ==
    ASSUME AmountsFit, TypeOK, NEW price \in Nat
    PROVE  /\ Value(price) \in Nat /\ Value(price) <= Value(0)
           /\ Value(0) = terms.strike * sold.units
           /\ Value(0) + 3 * TC_FEE < UINT
           /\ Value(price) = IF price < terms.strike
                  THEN Mul(Sub(terms.strike, price), sold.units) ELSE 0
<1> DEFINE s == terms.strike
           n == sold.units
           m == terms.maxUnits
           f == TC_FEE
<1>1. /\ s \in Nat /\ n \in Nat /\ n <= m /\ m \in Nat /\ f \in Nat
      /\ s * m + 3 * f < UINT /\ UINT \in Nat
  BY TermTypes DEF TypeOK, AmountsFit
<1> HIDE DEF s, n, m, f
<1>2. /\ s * n \in Nat /\ s * m \in Nat /\ s * n <= s * m
  BY <1>1, ProductFits
<1>3. Value(0) = s * n
  <2>1. CASE 0 < s
    <3>1. s - 0 = s
      BY <1>1
    <3> QED
      BY <2>1, <3>1 DEF Value, s, n
  <2>2. CASE s = 0
    <3>1. s * n = 0
      BY <1>1, <2>2
    <3> QED
      BY <2>2, <3>1 DEF Value, s
  <2> QED
    BY <1>1, <2>1, <2>2
<1>4. CASE price < s
  <2>1. s - price \in Nat /\ s - price <= s
    BY <1>1, <1>4
  <2>2. (s - price) * n \in Nat /\ (s - price) * n <= s * n
    BY <1>1, <2>1, ProductFits
  <2>3. n <= UINT /\ s * m < UINT
    BY <1>1, <1>2, <1>4
  <2>4. m # 0 => s <= s * m
    BY <1>1
  <2>5. CASE m = 0
    <3>1. n = 0
      BY <1>1, <2>5
    <3>2. (s - price) % UINT \in Nat
      BY <1>1, <2>1
    <3>3. ((s - price) % UINT) * n = 0 /\ (s - price) * n = 0
      BY <2>1, <3>1, <3>2
    <3>4. Value(price) = 0 /\ Mul(Sub(s, price), n) = 0
      BY <1>1, <1>4, <3>3 DEF Value, Mul, Sub, s, n
    <3> QED
      BY <1>1, <1>2, <1>3, <1>4, <3>4 DEF s, n, f
  <2>6. CASE m # 0
    <3>1. s - price < UINT
      BY <1>1, <1>2, <2>1, <2>3, <2>4, <2>6
    <3>2. (s - price) % UINT = s - price
      BY <1>1, <2>1, <3>1
    <3>3. ((s - price) * n) % UINT = (s - price) * n
      BY <1>1, <1>2, <2>2, <2>3
    <3>4. Value(price) = (s - price) * n
          /\ Mul(Sub(s, price), n) = (s - price) * n
      BY <1>4, <3>2, <3>3 DEF Value, Mul, Sub, s, n
    <3> QED
      BY <1>1, <1>2, <1>3, <1>4, <2>2, <3>4 DEF s, n, f
  <2> QED
    BY <2>5, <2>6
<1>5. CASE ~(price < s)
  <2>1. Value(price) = 0
    BY <1>5 DEF Value, s
  <2> QED
    BY <1>1, <1>2, <1>3, <1>5, <2>1 DEF s, n, f
<1> QED
  BY <1>4, <1>5

\* The requests, as many as there are criers to ask.
LEMMA AskedIs ==
    /\ Asked \subseteq Criers /\ IsFiniteSet(Asked)
    /\ Cardinality(Asked) \in {1, 3}
    /\ Fees \in Nat /\ TC_FEE <= Fees /\ Fees <= 3 * TC_FEE
<1>1. IsFiniteSet(0..2) /\ Cardinality(0..2) = 3
  <2>1. IsFiniteSet(0..2)
        /\ Cardinality(0..2) = IF 0 > 2 THEN 0 ELSE 2 - 0 + 1
    <3>1. 0 \in Int /\ 2 \in Int
      OBVIOUS
    <3> QED
      BY ONLY <3>1, FS_Interval, Zenon
  <2> QED
    BY <2>1
<1>2. IsFiniteSet({0}) /\ Cardinality({0}) = 1
  BY FS_Singleton
<1>3. CASE terms.vote
  BY <1>1, <1>3 DEF Asked, Criers, Fees
<1>4. CASE ~terms.vote
  BY <1>2, <1>4 DEF Asked, Criers, Fees
<1> QED
  BY <1>3, <1>4

\* What the constructor asks for is enough but for Missing.
LEMMA MissingIs ==
    ASSUME AmountsFit, terms \in Terms
    PROVE  /\ Missing \in Nat
           /\ /\ Sound
              /\ terms.paidIn >=
                     (terms.strike - terms.unitPrice) * terms.maxUnits + TC_FEE
              => terms.paidIn + Missing >=
                     (terms.strike - terms.unitPrice) * terms.maxUnits + Fees
<1> DEFINE due == (terms.strike - terms.unitPrice) * terms.maxUnits
           paid == terms.paidIn
<1>1. due \in Int /\ paid \in Nat
  BY TermTypes
<1>2. Missing = IF paid >= due + Fees THEN 0 ELSE Fees - TC_FEE
  BY DEF Missing
<1>3. /\ Fees \in Nat /\ TC_FEE \in Nat /\ TC_FEE <= Fees
  BY AskedIs
<1> HIDE DEF due, paid
<1>4. Missing \in Nat /\ (paid >= due + TC_FEE => paid + Missing >= due + Fees)
  BY <1>1, <1>2, <1>3
<1> QED
  BY <1>4 DEF due, paid

\* The calls of put one after the other: each finds the fee it sends.
LEMMA FeesLeave ==
    ASSUME NEW K \in SUBSET Asked, NEW b \in Nat,
           \A c \in Asked :
               b >= TC_FEE * (1 + Cardinality({d \in K : d < c}))
    PROVE  /\ b - TC_FEE * Cardinality(K) \in Nat
           /\ TC_FEE * Cardinality(K) \in Nat
           /\ TC_FEE * Cardinality(K) <= Fees
<1>1. /\ IsFiniteSet(K) /\ Cardinality(K) \in Nat
      /\ Cardinality(K) <= Cardinality(Asked) /\ Cardinality(Asked) \in Nat
  BY AskedIs, FS_Subset, FS_CardinalityType
<1>2. TC_FEE * Cardinality(K) \in Nat /\ TC_FEE * Cardinality(K) <= Fees
  BY <1>1, MulMono DEF Fees
<1>3. CASE K = {}
  <2>1. Cardinality(K) = 0
    BY <1>3, FS_EmptySet
  <2> QED
    BY <1>2, <2>1
<1>4. CASE K # {}
  <2>1. PICK c \in K : \A d \in K : d <= c
    <3>1. K \subseteq {0, 1, 2}
      BY AskedIs DEF Criers
    <3>2. CASE 2 \in K
      BY <3>1, <3>2
    <3>3. CASE 2 \notin K /\ 1 \in K
      BY <3>1, <3>3
    <3>4. CASE 2 \notin K /\ 1 \notin K
      <4>1. K = {0}
        BY <1>4, <3>1, <3>4
      <4> QED
        BY <4>1
    <3> QED
      BY <3>2, <3>3, <3>4
  <2>2. {d \in K : d < c} = K \ {c}
    <3>1. \A d \in K : d \in Int
      BY AskedIs DEF Criers
    <3> QED
      BY <2>1, <3>1
  <2>3. Cardinality(K \ {c}) = Cardinality(K) - 1
    BY <1>1, <2>1, FS_RemoveElement
  <2>4. 1 + Cardinality({d \in K : d < c}) = Cardinality(K)
    <3> DEFINE L == {d \in K : d < c}
    <3>1. L = K \ {c}
      BY <2>2
    <3> HIDE DEF L
    <3>2. Cardinality(L) = Cardinality(K) - 1
      BY <2>3, <3>1
    <3>3. 1 + Cardinality(L) = Cardinality(K)
      BY <1>1, <3>2
    <3> QED
      BY <3>3 DEF L
  <2>5. b >= TC_FEE * Cardinality(K)
    BY <2>1, <2>4
  <2> QED
    BY <1>2, <2>5
<1> QED
  BY <1>3, <1>4
-----------------------------------------------------------------------------
(* The operations.                                                         *)

LEMMA SendIs ==
    ASSUME NEW b \in Nat, NEW amount \in Nat, NEW sent \in Send(b, amount)
    PROVE  /\ sent.left \in Nat /\ sent.left <= b /\ sent.ok \in BOOLEAN
           /\ sent.ok => amount <= b /\ sent.left = b - amount
           /\ ~sent.ok => sent.left = b
<1>1. CASE sent = [left |-> b, ok |-> FALSE]
  BY <1>1
<1>2. CASE amount <= b /\ sent = [left |-> b - amount, ok |-> TRUE]
  BY <1>2
<1> QED
  BY <1>1, <1>2 DEF Send

LEMMA RefusesIs ==
    ASSUME NEW who \in {"buyer", "issuer"}, NEW b \in Nat, NEW amount \in Nat,
           NEW sent
    PROVE  /\ Refuses(who, b, amount, sent) \subseteq {"buyer", "issuer"}
           /\ ~sent.ok /\ amount <= b => who \in Refuses(who, b, amount, sent)
BY DEF Refuses

\* The fields that the constants bound.
LEMMA Amounts ==
    ASSUME AmountsFit, TypeOK
    PROVE  /\ terms \in Terms /\ terms.vote \in BOOLEAN /\ terms.unitPrice \in Nat
           /\ terms.maxUnits \in Nat /\ terms.strike \in Nat /\ terms.paidIn \in Nat
           /\ terms.unitPrice * terms.maxUnits \in Nat
           /\ terms.paidIn + terms.unitPrice * terms.maxUnits < UINT
           /\ terms.strike * terms.maxUnits + 3 * TC_FEE < UINT
           /\ balance \in Nat /\ sold.units \in Nat /\ sold.units <= terms.maxUnits
           /\ sold.buyer \in BOOLEAN
<1>1. /\ terms \in Terms /\ terms.unitPrice \in Nat /\ terms.maxUnits \in Nat
      /\ terms.strike \in Nat /\ terms.paidIn \in Nat /\ terms.vote \in BOOLEAN
  BY TermTypes DEF TypeOK
<1>2. terms.unitPrice * terms.maxUnits \in Nat
  BY <1>1
<1> QED
  BY <1>1, <1>2 DEF TypeOK, AmountsFit

\* The guard of the constructor, which does not wrap.
LEMMA ConstructorAsks ==
    ASSUME AmountsFit, terms \in Terms, terms.unitPrice <= terms.strike,
           terms.paidIn >= Add(Mul(Sub(terms.strike, terms.unitPrice), terms.maxUnits),
                               TC_FEE)
    PROVE  terms.paidIn >= (terms.strike - terms.unitPrice) * terms.maxUnits + TC_FEE
<1> DEFINE s == terms.strike
           u == terms.unitPrice
           m == terms.maxUnits
<1>1. /\ s \in Nat /\ u \in Nat /\ m \in Nat /\ u <= s /\ terms.paidIn \in Nat
      /\ s * m + 3 * TC_FEE < UINT /\ UINT \in Nat /\ TC_FEE \in Nat
      /\ terms.paidIn >= Add(Mul(Sub(s, u), m), TC_FEE)
  BY TermTypes DEF AmountsFit
<1> HIDE DEF s, u, m
<1>2. /\ s - u \in Nat /\ s * m \in Nat /\ (s - u) * m \in Nat
      /\ (s - u) * m <= s * m
  BY <1>1, ProductFits
<1>3. (s - u) * m + TC_FEE < UINT /\ (s - u) * m < UINT
  BY <1>1, <1>2
<1>4. Mul(Sub(s, u), m) = (s - u) * m
  <2>1. CASE m = 0
    <3>1. (s - u) % UINT \in Nat
      BY <1>1, <1>2, <1>3
    <3>2. ((s - u) % UINT) * m = 0 /\ (s - u) * m = 0
      BY <1>2, <2>1, <3>1
    <3> QED
      BY <1>1, <3>2 DEF Mul, Sub
  <2>2. CASE m # 0
    <3>1. s <= s * m
      BY <1>1, <2>2
    <3>2. s - u < UINT
      BY <1>1, <1>2, <3>1
    <3>3. (s - u) % UINT = s - u
      BY <1>1, <1>2, <3>2
    <3> QED
      BY <1>1, <1>2, <1>3, <3>3 DEF Mul, Sub
  <2> QED
    BY <2>1, <2>2
<1>5. Add((s - u) * m, TC_FEE) = (s - u) * m + TC_FEE
  BY <1>1, <1>2, <1>3 DEF Add
<1>6. terms.paidIn >= (s - u) * m + TC_FEE
  BY <1>1, <1>4, <1>5
<1> QED
  BY <1>6 DEF s, u, m

LEMMA InitInv ==
    ASSUME AmountsFit, Init
    PROVE  Inv
<1>1. /\ terms \in Terms /\ terms.unitPrice \in Nat /\ terms.maxUnits \in Nat
      /\ terms.paidIn \in Nat /\ terms.paidIn + terms.unitPrice * terms.maxUnits < UINT
      /\ UINT \in Nat /\ balance = terms.paidIn
  BY TermTypes DEF Init, AmountsFit
<1>2. terms.unitPrice * terms.maxUnits \in Nat
  BY <1>1
<1>3. balance \in 0..(UINT - 1) /\ balance <= terms.paidIn + terms.unitPrice * terms.maxUnits
  BY <1>1, <1>2
<1>4. TypeOK /\ payouts = <<>> /\ ~sold.buyer
  <2>1. 0 \in 0..terms.maxUnits
    BY <1>1
  <2> QED
    BY <1>1, <1>3, <2>1 DEF Init, TypeOK
<1>5. Types
  BY <1>4 DEF Types, Init
<1>6. terms.unitPrice <= terms.strike =>
          terms.paidIn >= (terms.strike - terms.unitPrice) * terms.maxUnits + TC_FEE
  BY <1>1, ConstructorAsks DEF Init
<1>7. Stages /\ Money /\ Memory
  BY <1>1, <1>3, <1>6 DEF Init, Stages, Money, Memory
<1>8. Covered /\ PaidAsAgreed
  <2>1. Len(payouts) = 0
    BY <1>4
  <2> QED
    BY <1>4, <2>1 DEF Covered, PaidAsAgreed
<1> QED
  BY <1>5, <1>7, <1>8 DEF Inv

\* What buy keeps covers what it may owe, if the issuer paid in enough.
LEMMA BuyKeepsCover ==
    ASSUME AmountsFit, TypeOK, Money, NEW units \in 0..terms.maxUnits,
           balance = terms.paidIn
    PROVE  LET funds  == balance + Mul(units, terms.unitPrice)
               refund == Sub(funds, Withheld(units))
           IN  /\ funds \in Nat /\ refund \in Nat
               /\ funds <= terms.paidIn + terms.unitPrice * terms.maxUnits
               /\ Sound =>
                      /\ funds + Missing >= terms.strike * units + Fees
                      /\ refund <= funds =>
                             funds - refund + Missing >= terms.strike * units + Fees
<1> DEFINE p == terms.paidIn
           u == terms.unitPrice
           s == terms.strike
           m == terms.maxUnits
           n == units
           f == Fees
           k == Cardinality(Asked)
<1>1. /\ p \in Nat /\ u \in Nat /\ s \in Nat /\ m \in Nat /\ n \in Nat /\ n <= m
      /\ u * m \in Nat /\ p + u * m < UINT /\ s * m + 3 * TC_FEE < UINT
      /\ UINT \in Nat /\ UINT > 0 /\ TC_FEE \in Nat /\ balance = p
  BY Amounts
<1>2. /\ f \in Nat /\ f <= 3 * TC_FEE /\ f = TC_FEE * k
  BY AskedIs DEF Fees
<1>3. /\ Missing \in Nat
      /\ Sound => u <= s /\ p + Missing >= (s - u) * m + f
  BY Amounts, MissingIs DEF Sound, Money
<1>4. Withheld(n) = Add(Mul(n, s), Mul(TC_FEE, k))
  BY DEF Withheld
<1> HIDE DEF p, u, s, m, n, f, k
<1>5. /\ u * n \in Nat /\ u * n <= u * m /\ n * u = u * n
      /\ s * n \in Nat /\ s * n <= s * m /\ n * s = s * n
  BY <1>1, ProductFits
<1>6. Mul(n, u) = u * n
  <2>1. u * n < UINT
    BY <1>1, <1>5
  <2> QED
    BY <1>1, <1>5, <2>1 DEF Mul
<1>7. Withheld(n) = s * n + f
  <2>1. s * n + f < UINT /\ s * n < UINT /\ f < UINT
    BY <1>1, <1>2, <1>5
  <2>2. Mul(n, s) = s * n
    BY <1>1, <1>5, <2>1 DEF Mul
  <2>3. Mul(TC_FEE, k) = f
    BY <1>1, <1>2, <2>1 DEF Mul
  <2> QED
    BY <1>1, <1>2, <1>4, <1>5, <2>1, <2>2, <2>3 DEF Add
<1> DEFINE funds == p + u * n
           refund == Sub(funds, Withheld(n))
<1>8. funds \in Nat /\ funds <= p + u * m /\ funds < UINT
  BY <1>1, <1>5
<1>9. refund \in Nat
  <2>1. funds - Withheld(n) \in Int
    BY <1>2, <1>5, <1>7, <1>8
  <2> HIDE DEF funds
  <2> QED
    BY <1>1, <2>1 DEF Sub
<1>10. ASSUME Sound
       PROVE  /\ funds + Missing >= s * n + f
              /\ refund <= funds => funds - refund + Missing >= s * n + f
  <2>1. u <= s /\ p + Missing >= (s - u) * m + f
    BY <1>3, <1>10
  <2>2. s - u \in Nat /\ (s - u) * n <= (s - u) * m
        /\ (s - u) * n \in Nat /\ (s - u) * m \in Nat
    BY <1>1, <2>1, ProductFits
  <2>3. (s - u) * n = s * n - u * n
    BY <1>1
  <2>4. funds + Missing >= s * n + f
    BY <1>1, <1>2, <1>3, <1>5, <2>1, <2>2, <2>3
  <2>5. CASE funds >= s * n + f
    <3>1. funds - (s * n + f) \in Nat /\ funds - (s * n + f) < UINT
      BY <1>1, <1>2, <1>5, <1>8, <2>5
    <3> HIDE DEF funds
    <3>2. refund = funds - (s * n + f)
      BY <1>1, <1>7, <3>1 DEF Sub
    <3> HIDE DEF refund
    <3> QED
      BY <1>2, <1>3, <1>5, <1>8, <2>4, <3>2
  <2>6. CASE ~(funds >= s * n + f)
    <3>1. /\ s * n + f < UINT
          /\ UINT + (funds - (s * n + f)) \in Nat
          /\ UINT + (funds - (s * n + f)) < UINT
      BY <1>1, <1>2, <1>5, <1>8, <2>6
    <3> HIDE DEF funds
    <3>2. refund = UINT + (funds - (s * n + f))
      <4> DEFINE d == funds - (s * n + f)
      <4>1. d \in Int /\ UINT + d \in Nat /\ UINT + d < UINT
        BY <1>2, <1>5, <1>8, <3>1
      <4>2. refund = d % UINT
        BY <1>7 DEF Sub
      <4> HIDE DEF d
      <4>3. d % UINT = UINT + d
        BY <1>1, <4>1
      <4> QED
        BY <4>2, <4>3 DEF d
    <3> HIDE DEF refund
    <3>3. ~(refund <= funds)
      BY <1>1, <1>2, <1>5, <1>8, <3>1, <3>2
    <3> QED
      BY <2>4, <3>3
  <2> QED
    BY <2>5, <2>6
<1>11. balance + Mul(units, terms.unitPrice) = funds
  BY <1>1, <1>6 DEF u, n
<1> QED
  BY <1>8, <1>9, <1>10, <1>11 DEF p, u, s, m, n, f

LEMMA BuyInv ==
    ASSUME AmountsFit, Inv, NEW units \in 0..terms.maxUnits, buy(units)
    PROVE  Inv'
<1> DEFINE funds  == balance + Mul(units, terms.unitPrice)
           refund == Sub(funds, Withheld(units))
           choices == IF refund > 0 THEN Send(funds, refund)
                      ELSE {[left |-> funds, ok |-> TRUE]}
<1>1. /\ ~cancelled /\ ~expired /\ ~sold.buyer
      /\ sold' = [buyer |-> TRUE, units |-> units]
      /\ UNCHANGED <<terms, expired, optionPut, cancelled,
                     requests, delivered, prices, answers, payouts>>
      /\ \E sent \in choices : /\ balance' = sent.left
                               /\ refusals' = refusals
                                      \cup Refuses("issuer", funds, refund, sent)
  BY DEF buy
<1>2. /\ Types /\ TypeOK /\ Stages /\ Money /\ Covered /\ PaidAsAgreed
      /\ balance = terms.paidIn /\ ~optionPut /\ payouts = <<>>
  BY <1>1 DEF Inv, Types, Stages, Money
<1>3. /\ funds \in Nat /\ refund \in Nat
      /\ funds <= terms.paidIn + terms.unitPrice * terms.maxUnits
      /\ Sound => /\ funds + Missing >= terms.strike * units + Fees
                  /\ refund <= funds =>
                         funds - refund + Missing >= terms.strike * units + Fees
  BY <1>2, BuyKeepsCover
<1> HIDE DEF funds, refund
<1>4. PICK sent \in choices : /\ balance' = sent.left
                              /\ refusals' = refusals
                                     \cup Refuses("issuer", funds, refund, sent)
  BY <1>1
<1>5. /\ sent.left \in Nat /\ sent.left <= funds
      /\ \/ sent.left = funds
         \/ refund <= funds /\ sent.left = funds - refund
  <2>1. CASE refund > 0
    <3>1. sent \in Send(funds, refund)
      BY <2>1
    <3> QED
      BY <1>3, <3>1, SendIs
  <2>2. CASE ~(refund > 0)
    BY <1>3, <2>2
  <2> QED
    BY <2>1, <2>2
<1>6. Types'
  <2>1. sent.left \in 0..(UINT - 1)
    BY <1>2, <1>3, <1>5, Amounts
  <2>2. refusals' \subseteq {"buyer", "issuer"}
    BY <1>2, <1>3, <1>4, RefusesIs DEF TypeOK
  <2>3. terms.maxUnits \in Nat /\ units \in Nat
    BY <1>2, Amounts
  <2>4. TypeOK'
    BY <1>1, <1>2, <1>4, <2>1, <2>2, <2>3 DEF TypeOK
  <2> QED
    BY <1>1, <1>2, <2>4 DEF Types
<1>7. Stages'
  BY <1>1, <1>2 DEF Stages, Asked
<1>8. Money'
  <2>1. terms.paidIn + terms.unitPrice * terms.maxUnits \in Nat
    BY <1>2, Amounts
  <2>2. balance' <= terms.paidIn + terms.unitPrice * terms.maxUnits
    BY <1>3, <1>4, <1>5, <2>1
  <2>3. sold'.buyer /\ ~cancelled' /\ payouts' = <<>> /\ terms' = terms
    BY <1>1, <1>2
  <2> QED
    BY <1>2, <2>2, <2>3 DEF Money
<1>9. Memory'
  BY <1>1, <1>2 DEF Inv, Memory, Stages
<1>10. Covered'
  <2>1. TypeOK' /\ sold'.units = units
    BY <1>1, <1>6 DEF Types
  <2>2. AmountsFit
    OBVIOUS
  <2>3. Value(0)' = terms'.strike * units
    <3>1. /\ terms.strike \in Nat /\ units \in Nat
      BY <1>2, Amounts
    <3>2. terms.strike = 0 => terms.strike * units = 0
      BY <3>1
    <3>3. terms.strike - 0 = terms.strike
      BY <3>1
    <3>4. Value(0)' = IF 0 < terms.strike THEN (terms.strike - 0) * units ELSE 0
      BY <1>1, <2>1 DEF Value
    <3> QED
      BY <1>1, <3>1, <3>2, <3>3, <3>4
  <2>4. Sound' = Sound /\ Missing' = Missing /\ Fees' = Fees /\ terms' = terms
    BY <1>1 DEF Sound, Missing, Fees, Asked
  <2>5. Sound => balance' + Missing >= terms.strike * units + Fees
    BY <1>3, <1>4, <1>5
  <2>6. Fees \in Nat /\ terms.strike * units \in Nat
    <3>1. terms.strike \in Nat /\ units \in Nat
      BY <1>2, Amounts
    <3> QED
      BY <3>1, AskedIs
  <2> QED
    BY <1>1, <1>2, <2>1, <2>3, <2>4, <2>5, <2>6 DEF Covered
<1>11. PaidAsAgreed'
  <2>1. Len(payouts') = 0 /\ payouts' = <<>>
    BY <1>1, <1>2
  <2> QED
    BY <2>1 DEF PaidAsAgreed
<1> QED
  BY <1>6, <1>7, <1>8, <1>9, <1>10, <1>11 DEF Inv

PutStep(taken, back) ==
    /\ \A c \in Asked :
           balance >= TC_FEE * (1 + Cardinality({d \in Asked \ back : d < c}))
    /\ balance' = balance - TC_FEE * Cardinality(Asked \ back)
    /\ requests' = [c \in Criers |->
                       CASE c \in taken         -> "waiting"
                         [] c \in Asked \ taken -> "refused"
                         [] OTHER               -> "none"]

LEMMA PutInv ==
    ASSUME AmountsFit, Inv, put
    PROVE  Inv'
<1>1. /\ sold.buyer /\ ~expired /\ ~optionPut /\ optionPut'
      /\ UNCHANGED <<terms, sold, expired, cancelled,
                     delivered, prices, answers, payouts, refusals>>
  BY DEF put
<1>2. PICK taken \in SUBSET Asked : \E back \in SUBSET (Asked \ taken) :
          PutStep(taken, back)
  BY DEF put, PutStep
<1>2a. PICK back \in SUBSET (Asked \ taken) : PutStep(taken, back)
  BY <1>2
<1>3. /\ Types /\ TypeOK /\ Stages /\ Money /\ Covered /\ PaidAsAgreed
      /\ payouts = <<>> /\ answers = {} /\ ~cancelled
      /\ \A c \in Criers : ~delivered[c]
  BY <1>1 DEF Inv, Types, Stages
<1> DEFINE K == Asked \ back
           cost == TC_FEE * Cardinality(K)
<1>4. balance - cost \in Nat /\ cost \in Nat /\ cost <= Fees
  <2>1. K \in SUBSET Asked /\ balance \in Nat
    BY <1>3, Amounts
  <2>2. \A c \in Asked : balance >= TC_FEE * (1 + Cardinality({d \in K : d < c}))
    BY <1>2a DEF PutStep
  <2> HIDE DEF K
  <2> QED
    BY <2>1, <2>2, FeesLeave
<1>5. balance' = balance - cost
  BY <1>2a DEF PutStep
<1> HIDE DEF cost, K
<1>6. /\ requests' \in [Criers -> {"none", "waiting", "refused", "answered"}]
      /\ \A c \in Criers : requests'[c] = "waiting" => c \in Asked
  <2>1. \A c \in Criers :
            /\ requests'[c] \in {"none", "waiting", "refused"}
            /\ requests'[c] = "waiting" => c \in Asked
    BY <1>2a DEF PutStep
  <2>2. DOMAIN requests' = Criers /\ requests' = [c \in Criers |-> requests'[c]]
    BY <1>2a DEF PutStep
  <2> QED
    BY <2>1, <2>2
<1>7. Types'
  <2>1. balance' \in 0..(UINT - 1)
    BY <1>3, <1>4, <1>5 DEF TypeOK
  <2>2. TypeOK'
    BY <1>1, <1>3, <1>6, <2>1 DEF TypeOK
  <2> QED
    BY <1>1, <1>3, <2>2 DEF Types
<1>8. Stages'
  <2>1. Asked' = Asked
    BY <1>1 DEF Asked
  <2> QED
    BY <1>1, <1>3, <1>6, <2>1 DEF Stages
<1>9. Money'
  <2>1. balance' <= balance /\ balance \in Nat
        /\ terms.paidIn + terms.unitPrice * terms.maxUnits \in Nat
    BY <1>3, <1>4, <1>5, Amounts
  <2>2. balance <= terms.paidIn + terms.unitPrice * terms.maxUnits
    BY <1>3 DEF Money
  <2>3. balance' <= terms.paidIn + terms.unitPrice * terms.maxUnits
    BY <1>4, <1>5, <2>1, <2>2
  <2> QED
    BY <1>1, <1>3, <2>3 DEF Money
<1>10. Memory'
  BY <1>1, <1>3 DEF Memory
<1>11. Covered'
  <2>1. Sound => balance + Missing >= Value(0) + Fees
    BY <1>1, <1>3 DEF Covered
  <2>2. /\ Value(0)' = Value(0) /\ Fees' = Fees
        /\ Sound' = Sound /\ Missing' = Missing
    BY <1>1 DEF Value, Fees, Sound, Missing, Asked
  <2>3. /\ Value(0) \in Nat /\ Fees \in Nat /\ balance \in Nat
        /\ Missing \in Nat
    BY <1>3, ValueIs, AskedIs, Amounts, MissingIs
  <2>4. Sound' => balance' + Missing' >= Value(0)' + 0
    BY <1>4, <1>5, <2>1, <2>2, <2>3
  <2> QED
    BY <1>1, <1>7, <2>4 DEF Covered, Types
<1>12. PaidAsAgreed'
  <2>1. Len(payouts') = 0 /\ payouts' = <<>>
    BY <1>1, <1>3
  <2> QED
    BY <2>1 DEF PaidAsAgreed
<1> QED
  BY <1>7, <1>8, <1>9, <1>10, <1>11, <1>12 DEF Inv

LEMMA RecoverInv ==
    ASSUME AmountsFit, Inv, recover
    PROVE  Inv'
<1>1. /\ ~(sold.buyer /\ ~expired) /\ ~optionPut /\ ~cancelled /\ cancelled'
      /\ UNCHANGED <<terms, sold, expired, optionPut,
                     requests, delivered, prices, answers, payouts>>
  BY DEF recover, MayRecover
<1>2. /\ Types /\ TypeOK /\ Stages /\ Money /\ Covered /\ PaidAsAgreed /\ Memory
      /\ payouts = <<>> /\ answers = {} /\ \A c \in Criers : ~delivered[c]
      /\ balance \in Nat
  BY <1>1, Amounts DEF Inv, Types, Stages
<1>3. PICK sent \in Send(balance, balance) :
          /\ balance' = sent.left
          /\ refusals' = refusals \cup Refuses("issuer", balance, balance, sent)
  BY DEF recover
<1>4. /\ sent.left \in Nat /\ sent.left <= balance
      /\ sent.left = 0 \/ ~sent.ok
  BY <1>2, SendIs
<1>5. Types'
  <2>1. balance' \in 0..(UINT - 1)
    BY <1>2, <1>3, <1>4 DEF TypeOK
  <2>2. refusals' \subseteq {"buyer", "issuer"}
    BY <1>2, <1>3, RefusesIs DEF TypeOK
  <2>3. TypeOK'
    BY <1>1, <1>2, <2>1, <2>2 DEF TypeOK
  <2> QED
    BY <1>1, <1>2, <2>3 DEF Types
<1>6. Stages'
  BY <1>1, <1>2 DEF Stages, Asked, TypeOK
<1>7. Money'
  <2>1. balance' = 0 \/ "issuer" \in refusals'
    BY <1>2, <1>3, <1>4, RefusesIs
  <2>2. /\ terms.paidIn \in Nat
        /\ terms.paidIn + terms.unitPrice * terms.maxUnits \in Nat
    BY <1>2, Amounts
  <2>3. /\ balance' <= terms.paidIn + terms.unitPrice * terms.maxUnits
        /\ ~sold.buyer => balance' <= terms.paidIn
    BY <1>2, <1>3, <1>4, <2>2 DEF Money
  <2> QED
    BY <1>1, <1>2, <2>1, <2>3 DEF Money
<1>8. Memory'
  BY <1>1, <1>2 DEF Memory
<1>9. Covered'
  BY <1>1, <1>5 DEF Covered, Types
<1>10. PaidAsAgreed'
  <2>1. Len(payouts') = 0 /\ payouts' = <<>>
    BY <1>1, <1>2
  <2> QED
    BY <2>1 DEF PaidAsAgreed
<1> QED
  BY <1>5, <1>6, <1>7, <1>8, <1>9, <1>10 DEF Inv

LEMMA ExpireInv ==
    ASSUME Inv, Expire
    PROVE  Inv'
<1>1. /\ expired' = TRUE
      /\ UNCHANGED <<terms, balance, sold, optionPut, cancelled,
                     requests, delivered, prices, answers, payouts, refusals>>
  BY DEF Expire
<1>2. Types' /\ TypeOK'
  BY <1>1 DEF Inv, Types, TypeOK
<1>3. Stages' /\ Money' /\ Memory'
  BY <1>1 DEF Inv, Stages, Money, Memory, Asked
<1>4. Covered'
  BY <1>1, <1>2 DEF Inv, Covered, Sound, Missing, Value, Fees, Asked
<1>5. PaidAsAgreed'
  BY <1>1 DEF Inv, PaidAsAgreed, Answered, Value, Sound, Missing, Fees, Asked
<1> QED
  BY <1>2, <1>3, <1>4, <1>5 DEF Inv

\* What a settlement at some price pays.
PaysOut(price, ok) ==
    /\ payouts' = Append(payouts, [price |-> price, value |-> Value(price), ok |-> ok])
    /\ balance' \in Nat /\ balance' <= balance
    /\ balance' = 0 \/ "issuer" \in refusals'
    /\ refusals \subseteq refusals' /\ refusals' \subseteq {"buyer", "issuer"}
    /\ balance >= Value(price) => ok \/ "buyer" \in refusals'

LEMMA PayOutIs ==
    ASSUME AmountsFit, TypeOK, NEW price \in Prices, PayOut(price)
    PROVE  \E ok \in BOOLEAN : PaysOut(price, ok)
<1> DEFINE value == IF price < terms.strike
                    THEN Mul(Sub(terms.strike, price), sold.units) ELSE 0
<1>1. value = Value(price) /\ Value(price) \in Nat /\ balance \in Nat
  BY ValueIs, Amounts
<1> HIDE DEF value
<1>2. \E toBuyer \in Send(balance, value) :
      \E toIssuer \in Send(toBuyer.left, toBuyer.left) :
          /\ balance' = toIssuer.left
          /\ payouts' = Append(payouts,
                 [price |-> price, value |-> value, ok |-> toBuyer.ok])
          /\ refusals' = refusals
                 \cup Refuses("buyer", balance, value, toBuyer)
                 \cup Refuses("issuer", toBuyer.left, toBuyer.left, toIssuer)
  BY DEF PayOut, value
<1>3. PICK toBuyer \in Send(balance, value) :
      \E toIssuer \in Send(toBuyer.left, toBuyer.left) :
          /\ balance' = toIssuer.left
          /\ payouts' = Append(payouts,
                 [price |-> price, value |-> value, ok |-> toBuyer.ok])
          /\ refusals' = refusals
                 \cup Refuses("buyer", balance, value, toBuyer)
                 \cup Refuses("issuer", toBuyer.left, toBuyer.left, toIssuer)
  BY <1>2
<1>4. PICK toIssuer \in Send(toBuyer.left, toBuyer.left) :
          /\ balance' = toIssuer.left
          /\ payouts' = Append(payouts,
                 [price |-> price, value |-> value, ok |-> toBuyer.ok])
          /\ refusals' = refusals
                 \cup Refuses("buyer", balance, value, toBuyer)
                 \cup Refuses("issuer", toBuyer.left, toBuyer.left, toIssuer)
  BY <1>3
<1>5. toBuyer.left \in Nat /\ toBuyer.left <= balance /\ toBuyer.ok \in BOOLEAN
  BY <1>1, SendIs
<1>6. /\ toIssuer.left \in Nat /\ toIssuer.left <= toBuyer.left
      /\ toIssuer.left = 0 \/ ~toIssuer.ok
  BY <1>5, SendIs
<1>7. balance' \in Nat /\ balance' <= balance
  BY <1>1, <1>4, <1>5, <1>6
<1>8. balance' = 0 \/ "issuer" \in refusals'
  BY <1>4, <1>5, <1>6, RefusesIs
<1>9. refusals \subseteq refusals' /\ refusals' \subseteq {"buyer", "issuer"}
  BY <1>1, <1>4, <1>5, RefusesIs DEF TypeOK
<1>10. balance >= value => toBuyer.ok \/ "buyer" \in refusals'
  BY <1>1, <1>4, RefusesIs
<1>11. PaysOut(price, toBuyer.ok)
  BY <1>1, <1>4, <1>7, <1>8, <1>9, <1>10 DEF PaysOut
<1> QED
  BY <1>5, <1>11

\* Whatever settle does, the answer is taken and counts once.
Taken(c, price) ==
    /\ requests[c] = "waiting"
    /\ requests' = [requests EXCEPT ![c] = "answered"]
    /\ answers' = answers \cup {<<c, price>>}
    /\ delivered' = delivered \/ \E b \in BOOLEAN : delivered' = [delivered EXCEPT ![c] = b]
    /\ UNCHANGED <<terms, sold, expired, optionPut, cancelled>>

LEMMA TakenIs ==
    ASSUME AmountsFit, Inv, NEW c \in Criers, NEW price \in Prices, Taken(c, price)
    PROVE  /\ Stages'
           /\ optionPut /\ sold.buyer /\ ~cancelled /\ ~delivered[c]
           /\ \A p \in Prices : <<c, p>> \notin answers
           /\ ~terms.vote => payouts = <<>>
           /\ requests' \in [Criers -> {"none", "waiting", "refused", "answered"}]
           /\ delivered' \in [Criers -> BOOLEAN]
           /\ answers' \subseteq Criers \X Prices
           /\ Value(0)' = Value(0) /\ Fees' = Fees /\ Sound' = Sound /\ Missing' = Missing
           /\ \A p \in Prices : Answered(p) => Answered(p)'
           /\ \A p \in Prices : Value(p)' = Value(p)
<1>1. /\ TypeOK /\ Stages /\ answers \subseteq Criers \X Prices
      /\ requests[c] = "waiting" /\ requests' = [requests EXCEPT ![c] = "answered"]
      /\ answers' = answers \cup {<<c, price>>}
      /\ UNCHANGED <<terms, sold, expired, optionPut, cancelled>>
  BY DEF Inv, Types, Taken
<1>2. /\ requests \in [Criers -> {"none", "waiting", "refused", "answered"}]
      /\ delivered \in [Criers -> BOOLEAN]
  BY <1>1 DEF TypeOK
<1>3. optionPut
  BY <1>1 DEF Stages
<1>4. /\ sold.buyer /\ ~cancelled /\ c \in Asked /\ ~delivered[c]
      /\ \A p \in Prices : <<c, p>> \notin answers
      /\ ~terms.vote => payouts = <<>>
  BY <1>1, <1>3 DEF Stages
<1>5. /\ requests' \in [Criers -> {"none", "waiting", "refused", "answered"}]
      /\ delivered' \in [Criers -> BOOLEAN]
      /\ answers' \subseteq Criers \X Prices
      /\ \A d \in Criers \ {c} : delivered'[d] = delivered[d] /\ requests'[d] = requests[d]
      /\ requests'[c] = "answered"
  <2>1. CASE delivered' = delivered
    BY <1>1, <1>2, <2>1
  <2>2. ASSUME NEW b \in BOOLEAN, delivered' = [delivered EXCEPT ![c] = b]
        PROVE  /\ delivered' \in [Criers -> BOOLEAN]
               /\ \A d \in Criers \ {c} : delivered'[d] = delivered[d]
    BY <1>2, <2>2
  <2>3. /\ delivered' \in [Criers -> BOOLEAN]
        /\ \A d \in Criers \ {c} : delivered'[d] = delivered[d]
    BY <1>2, <2>2 DEF Taken
  <2> QED
    BY <1>1, <1>2, <2>3
<1>6. Stages'
  <2>1. ASSUME NEW d \in Criers, requests'[d] = "waiting"
        PROVE  /\ d \in Asked' /\ ~delivered'[d]
               /\ \A p \in Prices : <<d, p>> \notin answers'
               /\ ~terms.vote => payouts' = <<>>
    <3>1. d # c
      BY <1>5, <2>1
    <3>2. requests[d] = "waiting" /\ delivered'[d] = delivered[d]
      BY <1>5, <2>1, <3>1
    <3>3. /\ d \in Asked /\ ~delivered[d]
          /\ \A p \in Prices : <<d, p>> \notin answers
      BY <1>1, <3>2 DEF Stages
    <3>4. terms.vote
      BY <1>4, <3>1, <3>3 DEF Asked
    <3>5. Asked' = Asked
      BY <1>1 DEF Asked
    <3> QED
      BY <1>1, <3>1, <3>2, <3>3, <3>4, <3>5
  <2> QED
    BY <1>1, <1>3, <1>4, <2>1 DEF Stages
<1>7. /\ Value(0)' = Value(0) /\ Fees' = Fees /\ Sound' = Sound /\ Missing' = Missing
      /\ \A p \in Prices : Value(p)' = Value(p)
  BY <1>1 DEF Value, Fees, Sound, Missing, Asked
<1>8. \A p \in Prices : Answered(p) => Answered(p)'
  BY <1>1 DEF Answered
<1> QED
  BY <1>3, <1>4, <1>5, <1>6, <1>7, <1>8

LEMMA FirstPayout ==
    ASSUME NEW s \in Seq(Payout), s # <<>>
    PROVE  Len(s) \in Nat \ {0} /\ s[1] \in Payout /\ s[1].price \in Prices
<1>1. Len(s) \in Nat \ {0}
  BY EmptySeq, LenProperties
<1>2. s[1] \in Payout
  BY <1>1
<1> QED
  BY <1>1, <1>2 DEF Payout

\* An answer that does not settle: the money is gone already, or no other
\* crier gave this price.
LEMMA StoredInv ==
    ASSUME AmountsFit, Inv, NEW c \in Criers, NEW price \in Prices, Taken(c, price),
           UNCHANGED <<balance, payouts, refusals>>,
           \/ balance = 0 /\ UNCHANGED <<delivered, prices>>
           \/ /\ terms.vote /\ ~Agreed(c, price)
              /\ delivered' = [delivered EXCEPT ![c] = TRUE]
              /\ prices' = [prices EXCEPT ![c] = price]
    PROVE  Inv'
<1>1. /\ Types /\ TypeOK /\ Money /\ Memory /\ Covered /\ PaidAsAgreed
      /\ answers' = answers \cup {<<c, price>>}
      /\ UNCHANGED <<terms, sold, expired, optionPut, cancelled>>
  BY DEF Inv, Types, Taken
<1>2. /\ Stages' /\ optionPut /\ sold.buyer /\ ~cancelled /\ ~delivered[c]
      /\ \A p \in Prices : <<c, p>> \notin answers
      /\ requests' \in [Criers -> {"none", "waiting", "refused", "answered"}]
      /\ delivered' \in [Criers -> BOOLEAN]
      /\ answers' \subseteq Criers \X Prices
      /\ Value(0)' = Value(0) /\ Fees' = Fees /\ Sound' = Sound /\ Missing' = Missing
      /\ \A p \in Prices : Answered(p) => Answered(p)'
      /\ \A p \in Prices : Value(p)' = Value(p)
  BY TakenIs
<1>3. /\ prices \in [Criers -> Prices \cup {0}] /\ delivered \in [Criers -> BOOLEAN]
      /\ balance \in Nat
  BY <1>1, Amounts DEF TypeOK
<1>4. Types' /\ TypeOK'
  <2>1. prices' \in [Criers -> Prices \cup {0}]
    BY <1>3
  <2>2. TypeOK'
    BY <1>1, <1>2, <2>1 DEF TypeOK
  <2> QED
    BY <1>1, <1>2, <2>2 DEF Types
<1>5. Money'
  BY <1>1 DEF Money
<1>6. Memory'
  <2> SUFFICES ASSUME payouts = <<>>
               PROVE  Memory'
    BY DEF Memory
  <2>1. CASE balance = 0 /\ UNCHANGED <<delivered, prices>>
    <3>1. \A d \in Criers : delivered'[d] => <<d, prices'[d]>> \in answers'
      BY <1>1, <2>1 DEF Memory
    <3>2. ~(balance' > 0)
      BY <2>1
    <3> QED
      BY <3>1, <3>2 DEF Memory
  <2>2. CASE /\ terms.vote /\ ~Agreed(c, price)
             /\ delivered' = [delivered EXCEPT ![c] = TRUE]
             /\ prices' = [prices EXCEPT ![c] = price]
    <3>1. /\ delivered'[c] /\ prices'[c] = price
          /\ \A d \in Criers \ {c} : delivered'[d] = delivered[d]
                                     /\ prices'[d] = prices[d]
      BY <1>3, <2>2
    <3>2. \A d \in Criers \ {c} : ~(delivered[d] /\ prices[d] = price)
      BY <2>2 DEF Agreed
    <3>3. \A d \in Criers : delivered'[d] => <<d, prices'[d]>> \in answers'
      BY <1>1, <3>1 DEF Memory
    <3>4. ASSUME balance > 0, NEW d \in Criers, NEW p \in Prices, <<d, p>> \in answers'
          PROVE  terms.vote /\ delivered'[d] /\ prices'[d] = p
      <4>1. CASE <<d, p>> \in answers
        <5>1. d # c
          BY <1>2, <4>1
        <5>2. delivered[d] /\ prices[d] = p
          BY <1>1, <3>4, <4>1 DEF Memory
        <5> QED
          BY <2>2, <3>1, <5>1, <5>2
      <4>2. CASE d = c /\ p = price
        BY <2>2, <3>1, <4>2
      <4> QED
        BY <1>1, <3>4, <4>1, <4>2
    <3>5. ASSUME balance > 0, NEW d \in Criers, NEW e \in Criers,
                 delivered'[d], delivered'[e], prices'[d] = prices'[e]
          PROVE  d = e
      <4>1. \A x, y \in Criers :
                delivered[x] /\ delivered[y] /\ prices[x] = prices[y] => x = y
        BY <1>1, <3>5 DEF Memory
      <4> QED
        BY <3>1, <3>2, <3>5, <4>1
    <3> QED
      BY <1>1, <3>3, <3>4, <3>5 DEF Memory
  <2> QED
    BY <2>1, <2>2
<1>7. Covered'
  BY <1>1, <1>2, <1>4 DEF Covered
<1>8. PaidAsAgreed'
  <2>1. CASE payouts # <<>>
    <3>1. PICK p \in Prices : p = payouts[1].price
      BY <1>1, <2>1, FirstPayout DEF Types
    <3>2. Answered(p) /\ payouts[1].value = Value(p)
      BY <1>1, <2>1, <3>1 DEF PaidAsAgreed
    <3>3. Answered(p)' /\ payouts[1].value = Value(p)'
      BY <1>2, <3>2
    <3> QED
      BY <1>1, <1>2, <2>1, <3>1, <3>3 DEF PaidAsAgreed, Answered, Value
  <2>2. CASE payouts = <<>>
    <3>1. Len(payouts) = 0
      BY <2>2
    <3> QED
      BY <2>2, <3>1 DEF PaidAsAgreed
  <2> QED
    BY <2>1, <2>2
<1> QED
  BY <1>2, <1>4, <1>5, <1>6, <1>7, <1>8 DEF Inv

\* An answer that settles the option.
LEMMA PaidOutInv ==
    ASSUME AmountsFit, Inv, NEW c \in Criers, NEW price \in Prices, Taken(c, price),
           PayOut(price), UNCHANGED prices, Agreed(c, price),
           terms.vote => balance > 0
    PROVE  Inv'
<1>1. /\ Types /\ TypeOK /\ Money /\ Memory /\ Covered /\ PaidAsAgreed
      /\ answers' = answers \cup {<<c, price>>}
      /\ UNCHANGED <<terms, sold, expired, optionPut, cancelled>>
  BY DEF Inv, Types, Taken
<1>2. /\ Stages' /\ optionPut /\ sold.buyer /\ ~cancelled
      /\ ~terms.vote => payouts = <<>>
      /\ requests' \in [Criers -> {"none", "waiting", "refused", "answered"}]
      /\ delivered' \in [Criers -> BOOLEAN]
      /\ answers' \subseteq Criers \X Prices
      /\ Value(0)' = Value(0) /\ Fees' = Fees /\ Sound' = Sound /\ Missing' = Missing
      /\ \A p \in Prices : Answered(p) => Answered(p)'
      /\ \A p \in Prices : Value(p)' = Value(p)
  BY TakenIs
<1>3. PICK ok \in BOOLEAN : PaysOut(price, ok)
  BY <1>1, PayOutIs
<1> DEFINE pay == [price |-> price, value |-> Value(price), ok |-> ok]
<1>4. /\ Value(price) \in Nat /\ Value(price) <= Value(0) /\ Value(0) \in Nat
      /\ balance \in Nat
  BY <1>1, ValueIs, Amounts
<1>5. pay \in Payout /\ payouts \in Seq(Payout) /\ payouts' = Append(payouts, pay)
  BY <1>1, <1>3, <1>4 DEF Payout, Types, PaysOut
<1> HIDE DEF pay
<1>6. /\ payouts' \in Seq(Payout) /\ Len(payouts') = Len(payouts) + 1
      /\ Len(payouts) \in Nat /\ payouts' # <<>>
      /\ payouts'[1] = IF payouts = <<>> THEN pay ELSE payouts[1]
  BY <1>5
<1>7. Types' /\ TypeOK'
  <2>1. balance' \in 0..(UINT - 1)
    BY <1>1, <1>3, <1>4 DEF TypeOK, PaysOut
  <2>2. TypeOK'
    BY <1>1, <1>2, <1>3, <2>1 DEF TypeOK, PaysOut
  <2> QED
    BY <1>2, <1>6, <2>2 DEF Types
<1>8. Money'
  <2>1. /\ terms.paidIn + terms.unitPrice * terms.maxUnits \in Nat
        /\ balance <= terms.paidIn + terms.unitPrice * terms.maxUnits
    BY <1>1, Amounts DEF Money
  <2>2. balance' <= terms.paidIn + terms.unitPrice * terms.maxUnits
    BY <1>3, <1>4, <2>1 DEF PaysOut
  <2> QED
    BY <1>1, <1>2, <1>3, <2>2 DEF Money, PaysOut
<1>9. Memory' /\ Covered'
  BY <1>6, <1>7 DEF Memory, Covered
<1>10. PaidAsAgreed'
  <2>1. CASE payouts = <<>>
    <3>1. payouts'[1] = pay /\ Len(payouts') = 1
      <4>1. Len(payouts) = 0
        BY <2>1
      <4> QED
        BY <1>6, <2>1, <4>1
    <3>2. Answered(price)'
      <4>1. CASE ~terms.vote
        BY <1>1, <4>1 DEF Answered
      <4>2. CASE terms.vote
        <5>1. PICK d \in Criers \ {c} : delivered[d] /\ prices[d] = price
          BY <4>2 DEF Agreed
        <5>2. <<d, price>> \in answers
          BY <1>1, <2>1, <5>1 DEF Memory
        <5>3. <<c, price>> \in answers' /\ <<d, price>> \in answers' /\ c # d
          BY <1>1, <5>1, <5>2
        <5> QED
          BY <5>3 DEF Answered
      <4> QED
        BY <4>1, <4>2
    <3>3. Sound' => \/ ok \/ "buyer" \in refusals'
                    \/ Value(price)' + Missing' > Value(0)'
      <4>1. Sound => balance + Missing >= Value(0)
        BY <1>1, <1>2, <2>1, <1>4 DEF Covered
      <4>2. Missing \in Nat
        BY <1>1, Amounts, MissingIs
      <4>3. Sound => balance >= Value(price) \/ Value(price) + Missing > Value(0)
        BY <1>4, <4>1, <4>2
      <4> QED
        BY <1>2, <1>3, <4>3 DEF PaysOut
    <3>4. pay.price = price /\ pay.value = Value(price)' /\ pay.ok = ok
      BY <1>2 DEF pay
    <3> QED
      BY <3>1, <3>2, <3>3, <3>4 DEF PaidAsAgreed
  <2>2. CASE payouts # <<>>
    <3>1. "issuer" \in refusals'
      <4>1. terms.vote /\ balance > 0
        BY <1>2, <2>2
      <4>2. "issuer" \in refusals
        BY <1>1, <1>4, <2>2, <4>1 DEF Money
      <4> QED
        BY <1>3, <4>2 DEF PaysOut
    <3>2. payouts'[1] = payouts[1]
      BY <1>6, <2>2
    <3>3. refusals \subseteq refusals'
      BY <1>3 DEF PaysOut
    <3>4. PICK p \in Prices : p = payouts[1].price
      BY <1>5, <2>2, FirstPayout
    <3>5. /\ Answered(p) /\ payouts[1].value = Value(p)
          /\ Sound => \/ payouts[1].ok \/ "buyer" \in refusals
                      \/ payouts[1].value + Missing > Value(0)
      BY <1>1, <2>2, <3>4 DEF PaidAsAgreed
    <3>6. /\ Answered(p)' /\ payouts'[1].value = Value(p)' /\ p = payouts'[1].price
          /\ Sound' => \/ payouts'[1].ok \/ "buyer" \in refusals'
                       \/ payouts'[1].value + Missing' > Value(0)'
      BY <1>2, <3>2, <3>3, <3>4, <3>5
    <3> QED
      BY <3>1, <3>6 DEF PaidAsAgreed, Answered, Value
  <2> QED
    BY <2>1, <2>2
<1> QED
  BY <1>2, <1>7, <1>8, <1>9, <1>10 DEF Inv

LEMMA SettleInv ==
    ASSUME AmountsFit, Inv, NEW c \in Criers, NEW price \in Prices, settle(c, price)
    PROVE  Inv'
<1>1. /\ requests[c] = "waiting"
      /\ requests' = [requests EXCEPT ![c] = "answered"]
      /\ answers' = answers \cup {<<c, price>>}
      /\ UNCHANGED <<terms, sold, expired, optionPut, cancelled>>
  BY DEF settle
<1>2. balance \in Nat /\ terms.vote \in BOOLEAN
  BY Amounts DEF Inv, Types
<1>3. CASE terms.vote /\ balance = 0
  <2>1. UNCHANGED <<balance, delivered, prices, payouts, refusals>>
    BY <1>3 DEF settle
  <2>2. Taken(c, price)
    BY <1>1, <2>1 DEF Taken
  <2> QED
    BY <1>3, <2>1, <2>2, StoredInv
<1>4. CASE terms.vote /\ balance > 0 /\ ~Agreed(c, price)
  <2>1. /\ delivered' = [delivered EXCEPT ![c] = TRUE]
        /\ prices' = [prices EXCEPT ![c] = price]
        /\ UNCHANGED <<balance, payouts, refusals>>
    BY <1>2, <1>4 DEF settle
  <2>2. Taken(c, price)
    BY <1>1, <2>1 DEF Taken
  <2> QED
    BY <1>4, <2>1, <2>2, StoredInv
<1>5. CASE ~(terms.vote /\ balance = 0)
           /\ ~(terms.vote /\ balance > 0 /\ ~Agreed(c, price))
  <2>1. /\ delivered' = [delivered EXCEPT ![c] = terms.vote]
        /\ PayOut(price) /\ UNCHANGED prices
    BY <1>5 DEF settle
  <2>2. Taken(c, price)
    BY <1>1, <1>2, <2>1 DEF Taken
  <2>3. Agreed(c, price) /\ (terms.vote => balance > 0)
    BY <1>2, <1>5 DEF Agreed
  <2> QED
    BY <2>1, <2>2, <2>3, PaidOutInv
<1> QED
  BY <1>3, <1>4, <1>5

LEMMA NextInv ==
    ASSUME AmountsFit, Inv, [Next]_vars
    PROVE  Inv'
<1>1. CASE \E units \in 0..terms.maxUnits : buy(units)
  BY <1>1, BuyInv
<1>2. CASE put
  BY <1>2, PutInv
<1>3. CASE \E c \in Criers, price \in Prices : settle(c, price)
  BY <1>3, SettleInv
<1>4. CASE recover
  BY <1>4, RecoverInv
<1>5. CASE Expire
  BY <1>5, ExpireInv
<1>6. CASE UNCHANGED vars
  <2>1. Types' /\ Stages' /\ Money' /\ Memory'
    BY <1>6 DEF vars, Inv, Types, TypeOK, Stages, Money, Memory, Asked
  <2>2. Covered' /\ PaidAsAgreed'
    BY <1>6, <2>1 DEF vars, Inv, Types, Covered, PaidAsAgreed, Answered, Value,
                      Sound, Missing, Fees, Asked
  <2> QED
    BY <2>1, <2>2 DEF Inv
<1> QED
  BY <1>1, <1>2, <1>3, <1>4, <1>5, <1>6 DEF Next
-----------------------------------------------------------------------------
\* The books of an option hold from its creation to its end.
THEOREM Invariance ==
    ASSUME AmountsFit
    PROVE  Spec => []Inv
<1>1. Init => Inv
  BY InitInv
<1>2. Inv /\ [Next]_vars => Inv'
  BY NextInv
<1> QED
  BY <1>1, <1>2, PTL DEF Spec

\* What buy withholds, put sends and recover leaves: as long as the buyer may
\* still be paid, the option holds the worst case, and the fees until put.
THEOREM BuyerIsCovered ==
    ASSUME AmountsFit
    PROVE  Spec => []Covered
<1>1. Inv => Covered
  BY DEF Inv
<1> QED
  BY Invariance, <1>1, PTL

\* settle pays at a price that one crier, or two of three, gave; the amount is
\* the value of the option, and a covered buyer gets it unless he refuses it.
THEOREM PaysTheAgreedPrice ==
    ASSUME AmountsFit
    PROVE  Spec => []PaidAsAgreed
<1>1. Inv => PaidAsAgreed
  BY DEF Inv
<1> QED
  BY Invariance, <1>1, PTL

\* After put or recover, ether stays in the contract only where an answer is
\* missing, no price was agreed on, or the issuer did not take it.
THEOREM NothingIsLeft ==
    ASSUME AmountsFit
    PROVE  Spec => []MoneyLeaves
<1>1. Inv => MoneyLeaves
  <2> SUFFICES ASSUME Inv, optionPut \/ cancelled, balance # 0,
                      "issuer" \notin refusals
               PROVE  optionPut /\ ~\E price \in Prices : Answered(price)
    BY DEF MoneyLeaves
  <2>1. optionPut /\ payouts = <<>>
    BY DEF Inv, Money
  <2>2. balance > 0
    <3>1. balance \in Nat
      BY Amounts DEF Inv, Types
    <3> QED
      BY <3>1
  <2>3. ASSUME NEW price \in Prices, Answered(price)
        PROVE  FALSE
    <3>1. PICK c, d \in Criers : /\ <<c, price>> \in answers
                                 /\ <<d, price>> \in answers
                                 /\ terms.vote => c # d
      BY <2>3 DEF Answered
    <3>2. /\ terms.vote /\ delivered[c] /\ delivered[d]
          /\ prices[c] = price /\ prices[d] = price
      BY <2>1, <2>2, <3>1 DEF Inv, Memory
    <3>3. c = d
      BY <2>1, <2>2, <3>2 DEF Inv, Memory
    <3> QED
      BY <3>1, <3>2, <3>3
  <2> QED
    BY <2>1, <2>3
<1> QED
  BY Invariance, <1>1, PTL
=============================================================================
