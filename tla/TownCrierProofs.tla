-------------------------- MODULE TownCrierProofs --------------------------
(***************************************************************************)
(* Proofs about the TownCrier contract, for every set of accounts, every   *)
(* number of requests and every depth of nested calls, provided that no    *)
(* price the owner may set collides with the two flags stored in the fee   *)
(* field (FlagsDistinct).                                                  *)
(*                                                                         *)
(* The invariant Books is about one world.  It is inductive for every      *)
(* operation of the contract by itself, so it holds of the current world   *)
(* and of every world that a suspended call may still be rolled back to.   *)
(***************************************************************************)
EXTENDS TownCrier, FiniteSetTheorems, SequenceTheorems, TLAPS

Issued(w) == 1..(w.requestCnt - 1)

\* Slots that were never issued are empty, the others are filled in.
SlotsSound(w) ==
    /\ w.requestCnt >= 1
    /\ \A id \in RequestIds :
           IF id \in Issued(w)
           THEN /\ w.requests[id].requester \in Accounts
                /\ w.requests[id].callbackAddr \in Accounts
           ELSE w.requests[id].fee = DELIVERED_FEE_FLAG

AnswersSound(w) ==
    \A id \in RequestIds :
        /\ w.callbacks[id] <= 1
        /\ w.callbacks[id] = 1 => /\ id \in Issued(w)
                                  /\ w.requests[id].fee = DELIVERED_FEE_FLAG
        /\ w.requests[id].fee # DELIVERED_FEE_FLAG => w.callbacks[id] = 0

PricesSound(w) ==
    w.MIN_FEE > CANCELLED_FEE_FLAG /\ w.CANCELLATION_FEE > CANCELLED_FEE_FLAG

\* The books of one world.
Books(w) ==
    /\ w \in World
    /\ PricesSound(w)
    /\ SlotsSound(w)
    /\ AnswersSound(w)
    /\ FeeCovers(w)
    /\ CountIs(w)
    /\ IsFiniteSet(OwedWei(w))
    /\ SolventIn(w)

\* The inductive invariant.
Inv ==
    /\ Books(world)
    /\ stack \in Seq(Frame)
    /\ \A i \in 1..Len(stack) : Books(stack[i].entry) /\ Books(stack[i].atCall)
-----------------------------------------------------------------------------
(* Counting.                                                               *)

\* The modular arithmetic of uint64 is plain arithmetic below its size.
LEMMA ModSmall ==
    ASSUME NEW n \in Nat, NEW m \in Nat, n < m
    PROVE  n % m = n
OBVIOUS

\* The wei of one claim.
LEMMA ClaimSize ==
    ASSUME NEW id, NEW n \in Nat
    PROVE  /\ IsFiniteSet({id} \X (1..n))
           /\ Cardinality({id} \X (1..n)) = n
<1>1. IsFiniteSet({id}) /\ Cardinality({id}) = 1
  BY FS_Singleton
<1>2. IsFiniteSet(1..n) /\ Cardinality(1..n) = n
  BY FS_Interval
<1>3. /\ IsFiniteSet({id} \X (1..n))
      /\ Cardinality({id} \X (1..n)) = Cardinality({id}) * Cardinality(1..n)
  BY <1>1, <1>2, FS_Product, Zenon
<1> QED
  BY <1>1, <1>2, <1>3

\* A new claim adds its amount to what is owed.
LEMMA AddClaim ==
    ASSUME NEW S, IsFiniteSet(S), NEW id, NEW n \in Nat,
           S \cap ({id} \X (1..n)) = {}
    PROVE  /\ IsFiniteSet(S \cup ({id} \X (1..n)))
           /\ Cardinality(S \cup ({id} \X (1..n))) = Cardinality(S) + n
<1> DEFINE C == {id} \X (1..n)
<1>1. IsFiniteSet(C) /\ Cardinality(C) = n
  BY ClaimSize
<1>2. Cardinality(S) \in Nat
  BY FS_CardinalityType
<1>3. Cardinality(S \cap C) = 0
  BY FS_EmptySet
<1> HIDE DEF C
<1>4. /\ IsFiniteSet(S \cup C)
      /\ Cardinality(S \cup C) = Cardinality(S) + Cardinality(C) - Cardinality(S \cap C)
  BY <1>1, FS_Union
<1>5. Cardinality(S \cup C) = Cardinality(S) + n
  BY <1>1, <1>2, <1>3, <1>4
<1> QED
  BY <1>4, <1>5 DEF C

\* A claim that is gone takes its amount from what is owed.
LEMMA RemoveClaim ==
    ASSUME NEW S, IsFiniteSet(S), NEW id, NEW n \in Nat,
           ({id} \X (1..n)) \subseteq S
    PROVE  /\ IsFiniteSet(S \ ({id} \X (1..n)))
           /\ Cardinality(S \ ({id} \X (1..n))) = Cardinality(S) - n
<1> DEFINE C == {id} \X (1..n)
<1>1. IsFiniteSet(C) /\ Cardinality(C) = n
  BY ClaimSize
<1>2. S \cap C = C
  OBVIOUS
<1> HIDE DEF C
<1>3. /\ IsFiniteSet(S \ C)
      /\ Cardinality(S \ C) = Cardinality(S) - Cardinality(S \cap C)
  BY FS_Difference
<1> QED
  BY <1>1, <1>2, <1>3 DEF C

\* The open requests are finitely many, never more than may be issued.
LEMMA OpenFinite ==
    ASSUME NEW w
    PROVE  /\ IsFiniteSet(Open(w))
           /\ Cardinality(Open(w)) \in 0..MaxRequests
<1>1. Open(w) \in SUBSET (1..MaxRequests)
  BY NumbersAssumption DEF Open, RequestIds
<1>2. IsFiniteSet(1..MaxRequests) /\ Cardinality(1..MaxRequests) = MaxRequests
  BY NumbersAssumption, FS_Interval
<1>3. IsFiniteSet(Open(w)) /\ Cardinality(Open(w)) <= MaxRequests
  BY <1>1, <1>2, FS_Subset
<1> QED
  BY <1>3, FS_CardinalityType, NumbersAssumption
-----------------------------------------------------------------------------
(* What the operations do to the books.                                    *)

\* A step that leaves requests, prices, counters and callbacks alone keeps
\* the books as long as ether comes and goes as surplus only.
LEMMA BooksKept ==
    ASSUME NEW w, NEW w2 \in World, Books(w),
           w2.requests = w.requests,
           w2.MIN_FEE = w.MIN_FEE,
           w2.CANCELLATION_FEE = w.CANCELLATION_FEE,
           w2.requestCnt = w.requestCnt,
           w2.unrespondedCnt = w.unrespondedCnt,
           w2.callbacks = w.callbacks,
           w2.balance - w2.surplus = w.balance - w.surplus
    PROVE  Books(w2)
<1>1. Open(w2) = Open(w)
  BY DEF Open
<1>2. \A id : Claim(w2, id) = Claim(w, id)
  BY DEF Claim
<1>3. OwedWei(w2) = OwedWei(w)
  BY <1>1, <1>2 DEF OwedWei
<1>4. PricesSound(w2) /\ SlotsSound(w2) /\ AnswersSound(w2)
  BY DEF Books, PricesSound, SlotsSound, AnswersSound, Issued
<1>5. FeeCovers(w2) /\ CountIs(w2)
  BY <1>1 DEF Books, FeeCovers, CountIs
<1>6. SolventIn(w2)
  <2>1. Cardinality(OwedWei(w)) \in Nat
    BY FS_CardinalityType DEF Books
  <2>2. w.balance \in Int /\ w.surplus \in Nat /\ w2.balance \in Int /\ w2.surplus \in Nat
    BY DEF Books, World
  <2> QED
    BY <2>1, <2>2, <1>3 DEF Books, SolventIn
<1> QED
  BY <1>3, <1>4, <1>5, <1>6 DEF Books

\* In particular surplus may come or go together with the balance.
LEMMA BooksSurplus ==
    ASSUME NEW w, Books(w), NEW b \in Int, NEW s \in Nat,
           b - s = w.balance - w.surplus
    PROVE  Books([w EXCEPT !.balance = b, !.surplus = s])
<1> DEFINE w2 == [w EXCEPT !.balance = b, !.surplus = s]
<1>1. w \in World
  BY DEF Books
<1>2. w2 \in World
  BY <1>1 DEF World
<1>3. /\ w2.requests = w.requests
      /\ w2.MIN_FEE = w.MIN_FEE
      /\ w2.CANCELLATION_FEE = w.CANCELLATION_FEE
      /\ w2.requestCnt = w.requestCnt
      /\ w2.unrespondedCnt = w.unrespondedCnt
      /\ w2.callbacks = w.callbacks
      /\ w2.balance = b /\ w2.surplus = s
  BY <1>1 DEF World
<1> HIDE DEF w2
<1>4. Books(w2)
  BY <1>2, <1>3, BooksKept
<1> QED
  BY <1>4 DEF w2

\* Replacing counters, requests, balance and surplus by values of their
\* types leaves a world.
LEMMA WorldWith ==
    ASSUME NEW w \in World, NEW rc \in Nat, NEW uc \in Nat,
           NEW rq \in [RequestIds -> Request], NEW b \in Int
    PROVE  [w EXCEPT !.requestCnt = rc, !.unrespondedCnt = uc,
                     !.requests = rq, !.balance = b] \in World
BY DEF World

\* With no request open nothing is owed.
LEMMA NothingOwed ==
    ASSUME NEW w, Books(w), w.unrespondedCnt = 0
    PROVE  Open(w) = {} /\ OwedWei(w) = {} /\ w.balance = w.surplus
<1>1. Open(w) = {}
  BY OpenFinite, FS_EmptySet DEF Books, CountIs
<1>2. OwedWei(w) = {}
  BY <1>1 DEF OwedWei
<1>3. Cardinality(OwedWei(w)) = 0
  BY <1>2, FS_EmptySet
<1>4. w.balance \in Int /\ w.surplus \in Nat
  BY DEF Books, World
<1> QED
  BY <1>1, <1>2, <1>3, <1>4 DEF Books, SolventIn

\* Recording a request that pays the minimum fee adds one open request and
\* its fee to the books.
LEMMA BooksRecorded ==
    ASSUME NEW w, Books(w), NEW c \in Accounts, NEW v \in Nat,
           NEW cb \in Accounts, NEW p \in Params,
           v >= w.MIN_FEE, w.requestCnt <= MaxRequests
    PROVE  Books(Recorded(w, c, v, cb, p))
<1> DEFINE w2 == Recorded(w, c, v, cb, p)
           id == w.requestCnt
           slot == [requester |-> c, fee |-> v, callbackAddr |-> cb, paramsHash |-> p]
<1>1. /\ w \in World
      /\ id \in RequestIds /\ id \notin Issued(w) /\ id >= 1
      /\ w.requests[id].fee = 0 /\ w.callbacks[id] = 0
      /\ w.callbacks \in [RequestIds -> Nat]
      /\ w.requests \in [RequestIds -> Request]
      /\ w.requestCnt \in Nat /\ w.unrespondedCnt \in Nat
      /\ w.balance \in Int /\ w.surplus \in Nat /\ w.CANCELLATION_FEE \in Nat
      /\ w.MIN_FEE \in Nat
  <2>1. /\ w \in World /\ w.requestCnt \in Nat /\ w.requestCnt >= 1
        /\ w.callbacks \in [RequestIds -> Nat]
    BY DEF Books, World, SlotsSound
  <2>2. id \in RequestIds /\ id \notin Issued(w)
    BY <2>1, NumbersAssumption DEF RequestIds, Issued
  <2>3. w.requests[id].fee = 0 /\ w.callbacks[id] = 0
    <3>1. w.requests[id].fee = 0
      BY <2>2 DEF Books, SlotsSound, DELIVERED_FEE_FLAG
    <3>2. w.callbacks[id] <= 1 /\ w.callbacks[id] # 1 /\ w.callbacks[id] \in Nat
      BY <2>1, <2>2 DEF Books, AnswersSound
    <3> QED
      BY <3>1, <3>2
  <2> QED
    BY <2>1, <2>2, <2>3 DEF World
<1>2. /\ w2.requests = [w.requests EXCEPT ![id] = slot]
      /\ w2.requestCnt = id + 1
      /\ w2.unrespondedCnt = (w.unrespondedCnt + 1) % UINT64
      /\ w2.balance = w.balance + v
      /\ w2.surplus = w.surplus
      /\ w2.MIN_FEE = w.MIN_FEE /\ w2.CANCELLATION_FEE = w.CANCELLATION_FEE
      /\ w2.callbacks = w.callbacks
  BY <1>1 DEF Recorded, World
<1>3. v > 1
  BY <1>1 DEF Books, PricesSound, CANCELLED_FEE_FLAG
<1>4. Open(w2) = Open(w) \cup {id} /\ id \notin Open(w)
  BY <1>1, <1>2, <1>3 DEF Open, DELIVERED_FEE_FLAG
<1>5. \A i \in Open(w) : Claim(w2, i) = Claim(w, i)
  BY <1>1, <1>2, <1>4 DEF Claim, Open
<1>6. Claim(w2, id) = v
  BY <1>1, <1>2, <1>3 DEF Claim, CANCELLED_FEE_FLAG
<1>7. OwedWei(w2) = OwedWei(w) \cup ({id} \X (1..v))
  BY <1>4, <1>5, <1>6 DEF OwedWei
<1>8. OwedWei(w) \cap ({id} \X (1..v)) = {}
  BY <1>4 DEF OwedWei
<1>9. /\ IsFiniteSet(OwedWei(w2))
      /\ Cardinality(OwedWei(w2)) = Cardinality(OwedWei(w)) + v
  <2>1. IsFiniteSet(OwedWei(w))
    BY DEF Books
  <2>2. /\ IsFiniteSet(OwedWei(w) \cup ({id} \X (1..v)))
        /\ Cardinality(OwedWei(w) \cup ({id} \X (1..v))) = Cardinality(OwedWei(w)) + v
    BY <2>1, <1>8, AddClaim
  <2> QED
    BY <2>2, <1>7
<1>10. SolventIn(w2)
  <2>1. Cardinality(OwedWei(w)) \in Nat
    BY FS_CardinalityType DEF Books
  <2> QED
    BY <2>1, <1>1, <1>2, <1>9 DEF Books, SolventIn
<1>11. CountIs(w2)
  <2>1. /\ Cardinality(Open(w2)) = Cardinality(Open(w)) + 1
        /\ Cardinality(Open(w2)) \in 0..MaxRequests
        /\ w.unrespondedCnt = Cardinality(Open(w))
    BY <1>4, OpenFinite, FS_AddElement DEF Books, CountIs
  <2>2. w.unrespondedCnt + 1 \in Nat /\ w.unrespondedCnt + 1 < UINT64
    BY <2>1, <1>1, NumbersAssumption
  <2>3. (w.unrespondedCnt + 1) % UINT64 = w.unrespondedCnt + 1
    BY <2>2, NumbersAssumption, ModSmall
  <2> QED
    BY <2>1, <2>3, <1>2 DEF CountIs
<1>12. w2 \in World
  <2> DEFINE uc == (w.unrespondedCnt + 1) % UINT64
             rq == [w.requests EXCEPT ![id] = slot]
             b == w.balance + v
             rc == id + 1
  <2>1. uc \in Nat
    BY <1>2, <1>11, OpenFinite, NumbersAssumption DEF CountIs
  <2>2. slot \in Request
    BY DEF Request
  <2>3. rq \in [RequestIds -> Request] /\ rc \in Nat /\ b \in Int
    BY <1>1, <2>2
  <2>4. w2 = [w EXCEPT !.requestCnt = rc, !.unrespondedCnt = uc,
                      !.requests = rq, !.balance = b]
    BY <1>1 DEF Recorded, World
  <2> HIDE DEF w2, uc, rq, b, rc
  <2>5. [w EXCEPT !.requestCnt = rc, !.unrespondedCnt = uc,
                  !.requests = rq, !.balance = b] \in World
    BY <1>1, <2>1, <2>3, WorldWith
  <2> QED
    BY <2>4, <2>5
<1>13. Issued(w2) = Issued(w) \cup {id}
  BY <1>1, <1>2 DEF Issued
<1>14. SlotsSound(w2)
  BY <1>1, <1>2, <1>13 DEF SlotsSound, Books
<1>15. AnswersSound(w2)
  BY <1>1, <1>2, <1>13 DEF AnswersSound, Books, DELIVERED_FEE_FLAG
<1>16. FeeCovers(w2)
  BY <1>1, <1>2, <1>4 DEF FeeCovers, Books, Open
<1>17. PricesSound(w2)
  BY <1>2 DEF PricesSound, Books
<1> QED
  BY <1>9, <1>10, <1>11, <1>12, <1>14, <1>15, <1>16, <1>17 DEF Books

\* Answering an open request removes its claim, whoever gets the ether.
LEMMA BooksResponded ==
    ASSUME NEW w, Books(w), NEW id \in Open(w),
           NEW b \in Int, NEW s \in Nat, NEW f \in BOOLEAN, NEW cs,
           b - s = w.balance - w.surplus - Claim(w, id),
           cs = w.callbacks \/ cs = [w.callbacks EXCEPT ![id] = @ + 1]
    PROVE  Books([w EXCEPT !.requests[id].fee = DELIVERED_FEE_FLAG,
                           !.unrespondedCnt = (@ - 1) % UINT64,
                           !.balance = b, !.surplus = s,
                           !.externalCallFlag = f, !.callbacks = cs])
<1> DEFINE w2 == [w EXCEPT !.requests[id].fee = DELIVERED_FEE_FLAG,
                           !.unrespondedCnt = (@ - 1) % UINT64,
                           !.balance = b, !.surplus = s,
                           !.externalCallFlag = f, !.callbacks = cs]
<1>1. /\ w \in World
      /\ id \in RequestIds \ {0} /\ w.requests[id].fee # 0
      /\ w.callbacks \in [RequestIds -> Nat]
      /\ w.requests \in [RequestIds -> Request]
      /\ w.requests[id] \in Request
      /\ w.requestCnt \in Nat /\ w.unrespondedCnt \in Nat
      /\ w.balance \in Int /\ w.surplus \in Nat /\ w.CANCELLATION_FEE \in Nat
      /\ w.MIN_FEE \in Nat
  BY DEF Books, World, Open, DELIVERED_FEE_FLAG
<1> DEFINE uc == (w.unrespondedCnt - 1) % UINT64
           rq == [w.requests EXCEPT ![id].fee = 0]
<1>2. /\ w2.requests = rq
      /\ w2.requestCnt = w.requestCnt
      /\ w2.unrespondedCnt = uc
      /\ w2.MIN_FEE = w.MIN_FEE /\ w2.CANCELLATION_FEE = w.CANCELLATION_FEE
      /\ w2.balance = b /\ w2.surplus = s /\ w2.callbacks = cs
  BY <1>1 DEF World, DELIVERED_FEE_FLAG
<1>3. Open(w2) = Open(w) \ {id}
  BY <1>1, <1>2 DEF Open, DELIVERED_FEE_FLAG, Request
<1>4. \A i \in Open(w2) : Claim(w2, i) = Claim(w, i)
  BY <1>1, <1>2, <1>3 DEF Claim, Open
<1>5. Claim(w, id) \in Nat
  BY <1>1 DEF Claim, Request
<1>6. OwedWei(w2) = OwedWei(w) \ ({id} \X (1..Claim(w, id)))
  BY <1>3, <1>4 DEF OwedWei
<1>7. ({id} \X (1..Claim(w, id))) \subseteq OwedWei(w)
  BY DEF OwedWei
<1>8. /\ IsFiniteSet(OwedWei(w2))
      /\ Cardinality(OwedWei(w2)) = Cardinality(OwedWei(w)) - Claim(w, id)
  <2>1. IsFiniteSet(OwedWei(w))
    BY DEF Books
  <2> DEFINE n == Claim(w, id)
  <2>2. n \in Nat /\ ({id} \X (1..n)) \subseteq OwedWei(w)
    BY <1>5, <1>7
  <2> HIDE DEF n
  <2>3. /\ IsFiniteSet(OwedWei(w) \ ({id} \X (1..n)))
        /\ Cardinality(OwedWei(w) \ ({id} \X (1..n))) = Cardinality(OwedWei(w)) - n
    BY <2>1, <2>2, RemoveClaim
  <2> QED
    BY <2>3, <1>6 DEF n
<1>9. SolventIn(w2)
  <2>1. Cardinality(OwedWei(w)) \in Nat
    BY FS_CardinalityType DEF Books
  <2>2. w.balance = Cardinality(OwedWei(w)) + w.surplus
    BY DEF Books, SolventIn
  <2>3. w2.balance = Cardinality(OwedWei(w)) - Claim(w, id) + w2.surplus
    BY <2>1, <2>2, <1>1, <1>2, <1>5
  <2> QED
    BY <2>3, <1>8 DEF SolventIn
<1>10. CountIs(w2) /\ uc \in Nat
  <2>1. /\ Cardinality(Open(w2)) = Cardinality(Open(w)) - 1
        /\ Cardinality(Open(w)) \in 0..MaxRequests
        /\ Cardinality(Open(w2)) \in 0..MaxRequests
        /\ w.unrespondedCnt = Cardinality(Open(w))
    BY <1>3, OpenFinite, FS_RemoveElement DEF Books, CountIs
  <2>2. w.unrespondedCnt - 1 \in Nat /\ w.unrespondedCnt - 1 < UINT64
    BY <2>1, <1>1, NumbersAssumption
  <2>3. uc = w.unrespondedCnt - 1
    BY <2>2, NumbersAssumption, ModSmall
  <2> QED
    BY <2>1, <2>2, <2>3, <1>2 DEF CountIs
<1>11. w2 \in World
  <2>1. rq \in [RequestIds -> Request]
    BY <1>1 DEF Request
  <2>2. cs \in [RequestIds -> Nat]
    BY <1>1
  <2>3. w2 = [w EXCEPT !.requests = rq, !.unrespondedCnt = uc, !.balance = b,
                       !.surplus = s, !.externalCallFlag = f, !.callbacks = cs]
    BY <1>1 DEF World, DELIVERED_FEE_FLAG
  <2> HIDE DEF rq, uc, w2
  <2>4. [w EXCEPT !.requests = rq, !.unrespondedCnt = uc, !.balance = b,
                  !.surplus = s, !.externalCallFlag = f, !.callbacks = cs] \in World
    BY <1>1, <1>10, <2>1, <2>2 DEF World
  <2> QED
    BY <2>3, <2>4
<1>12. /\ \A i \in RequestIds : /\ w2.requests[i].requester = w.requests[i].requester
                                /\ w2.requests[i].callbackAddr = w.requests[i].callbackAddr
                                /\ i # id => w2.requests[i] = w.requests[i]
       /\ w2.requests[id].fee = 0
       /\ Issued(w2) = Issued(w)
  BY <1>1, <1>2 DEF Issued, Request
<1> HIDE DEF rq, uc, w2
<1>13. SlotsSound(w2)
  BY <1>1, <1>2, <1>12 DEF SlotsSound, Books, DELIVERED_FEE_FLAG
<1>14. AnswersSound(w2)
  <2>1. id \in Issued(w) /\ w.callbacks[id] = 0
    BY <1>1 DEF SlotsSound, AnswersSound, Books, DELIVERED_FEE_FLAG
  <2> QED
    BY <2>1, <1>1, <1>2, <1>12 DEF AnswersSound, Books, DELIVERED_FEE_FLAG
<1>15. FeeCovers(w2)
  BY <1>1, <1>2, <1>3, <1>12 DEF FeeCovers, Books, Open
<1>16. PricesSound(w2)
  BY <1>2 DEF PricesSound, Books
<1> QED
  BY <1>8, <1>9, <1>10, <1>11, <1>13, <1>14, <1>15, <1>16 DEF Books, w2

\* Cancelling a pending request keeps it open and leaves the cancellation
\* fee as its claim.
LEMMA BooksCancelled ==
    ASSUME NEW w, Books(w), NEW id \in RequestIds,
           w.requests[id].fee >= w.CANCELLATION_FEE
    PROVE  Books(Cancelled(w, id))
<1> DEFINE w2 == Cancelled(w, id)
           fee == w.requests[id].fee
           cf == w.CANCELLATION_FEE
           rq == [w.requests EXCEPT ![id].fee = 1]
           b == w.balance - (fee - cf)
<1>1. /\ w \in World
      /\ w.callbacks \in [RequestIds -> Nat]
      /\ w.requests \in [RequestIds -> Request]
      /\ w.requests[id] \in Request
      /\ w.requestCnt \in Nat /\ w.unrespondedCnt \in Nat
      /\ w.balance \in Int /\ w.surplus \in Nat /\ cf \in Nat
      /\ w.MIN_FEE \in Nat /\ fee \in Nat /\ cf > 1 /\ fee > 1
  BY DEF Books, World, Request, PricesSound, CANCELLED_FEE_FLAG
<1>2. id \in Open(w)
  BY <1>1 DEF Books, SlotsSound, Open, Issued, DELIVERED_FEE_FLAG
<1>3. /\ w2.requests = rq /\ w2.balance = b /\ w2.surplus = w.surplus
      /\ w2.requestCnt = w.requestCnt
      /\ w2.unrespondedCnt = w.unrespondedCnt
      /\ w2.MIN_FEE = w.MIN_FEE /\ w2.CANCELLATION_FEE = cf
      /\ w2.callbacks = w.callbacks
  BY <1>1 DEF World, CANCELLED_FEE_FLAG, Cancelled
<1>4. w2 \in World
  <2>1. rq \in [RequestIds -> Request] /\ b \in Int
    BY <1>1 DEF Request
  <2>2. w2 = [w EXCEPT !.requests = rq, !.externalCallFlag = TRUE, !.balance = b]
    BY <1>1 DEF Cancelled, World, CANCELLED_FEE_FLAG
  <2> HIDE DEF rq, b, w2
  <2>3. [w EXCEPT !.requests = rq, !.externalCallFlag = TRUE, !.balance = b] \in World
    BY <1>1, <2>1 DEF World
  <2> QED
    BY <2>2, <2>3
<1>5. /\ \A i \in RequestIds : /\ w2.requests[i].requester = w.requests[i].requester
                               /\ w2.requests[i].callbackAddr = w.requests[i].callbackAddr
                               /\ i # id => w2.requests[i] = w.requests[i]
      /\ w2.requests[id].fee = 1
      /\ Issued(w2) = Issued(w)
  BY <1>1, <1>3 DEF Issued, Request
<1> HIDE DEF w2, rq, b
<1>6. Open(w2) = Open(w)
  BY <1>1, <1>2, <1>5 DEF Open, DELIVERED_FEE_FLAG
<1>7. \A i \in Open(w2) : i # id => Claim(w2, i) = Claim(w, i)
  BY <1>3, <1>5 DEF Claim, Open
<1>8. Claim(w2, id) = cf /\ Claim(w, id) = fee
  BY <1>1, <1>3, <1>5 DEF Claim, CANCELLED_FEE_FLAG
<1> DEFINE rest == OwedWei(w) \ ({id} \X (1..fee))
<1>9. OwedWei(w2) = rest \cup ({id} \X (1..cf))
  BY <1>2, <1>6, <1>7, <1>8 DEF OwedWei
<1>10. ({id} \X (1..fee)) \subseteq OwedWei(w)
  BY <1>2, <1>8 DEF OwedWei
<1>11. rest \cap ({id} \X (1..cf)) = {}
  BY <1>8 DEF OwedWei
<1>12. /\ IsFiniteSet(rest)
       /\ Cardinality(rest) = Cardinality(OwedWei(w)) - fee
  <2>1. IsFiniteSet(OwedWei(w))
    BY DEF Books
  <2> QED
    BY <2>1, <1>1, <1>10, RemoveClaim
<1>13. /\ IsFiniteSet(OwedWei(w2))
       /\ Cardinality(OwedWei(w2)) = Cardinality(rest) + cf
  <2> HIDE DEF rest
  <2>1. /\ IsFiniteSet(rest \cup ({id} \X (1..cf)))
        /\ Cardinality(rest \cup ({id} \X (1..cf))) = Cardinality(rest) + cf
    BY <1>1, <1>11, <1>12, AddClaim
  <2> QED
    BY <2>1, <1>9
<1>14. SolventIn(w2)
  <2>1. Cardinality(OwedWei(w)) \in Nat
    BY FS_CardinalityType DEF Books
  <2>2. w.balance = Cardinality(OwedWei(w)) + w.surplus
    BY DEF Books, SolventIn
  <2> HIDE DEF fee, cf, rest
  <2> QED
    BY <2>1, <2>2, <1>1, <1>3, <1>12, <1>13 DEF SolventIn, b
<1>15. CountIs(w2)
  BY <1>3, <1>6 DEF Books, CountIs
<1>16. SlotsSound(w2)
  BY <1>1, <1>2, <1>3, <1>5 DEF SlotsSound, Books, DELIVERED_FEE_FLAG, Open
<1>17. AnswersSound(w2)
  <2>1. w.callbacks[id] = 0
    BY <1>1, <1>2 DEF AnswersSound, Books, DELIVERED_FEE_FLAG, Open
  <2> QED
    BY <2>1, <1>1, <1>3, <1>5 DEF AnswersSound, Books, DELIVERED_FEE_FLAG
<1>18. FeeCovers(w2)
  BY <1>1, <1>3, <1>5, <1>6 DEF FeeCovers, Books, Open, CANCELLED_FEE_FLAG
<1>19. PricesSound(w2)
  BY <1>3 DEF PricesSound, Books
<1> QED
  BY <1>4, <1>13, <1>14, <1>15, <1>16, <1>17, <1>18, <1>19 DEF Books, w2

\* New prices, when nothing is open, are the prices of all later requests.
LEMMA BooksReset ==
    ASSUME NEW w, Books(w), w.unrespondedCnt = 0,
           NEW gp \in Nat, NEW mf \in Nat, NEW cf \in Nat, mf > 1, cf > 1
    PROVE  Books([w EXCEPT !.GAS_PRICE = gp, !.MIN_FEE = mf,
                           !.CANCELLATION_FEE = cf])
<1> DEFINE w2 == [w EXCEPT !.GAS_PRICE = gp, !.MIN_FEE = mf,
                           !.CANCELLATION_FEE = cf]
<1>1. w \in World
  BY DEF Books
<1>2. /\ w2.requests = w.requests /\ w2.requestCnt = w.requestCnt
      /\ w2.unrespondedCnt = w.unrespondedCnt /\ w2.callbacks = w.callbacks
      /\ w2.balance = w.balance /\ w2.surplus = w.surplus
      /\ w2.MIN_FEE = mf /\ w2.CANCELLATION_FEE = cf
      /\ w2 \in World
  BY <1>1 DEF World
<1> HIDE DEF w2
<1>3. Open(w) = {} /\ OwedWei(w) = {}
  BY NothingOwed
<1>4. Open(w2) = {}
  BY <1>2, <1>3 DEF Open
<1>5. OwedWei(w2) = {}
  BY <1>4 DEF OwedWei
<1>6. PricesSound(w2) /\ SlotsSound(w2) /\ AnswersSound(w2)
  BY <1>2 DEF Books, PricesSound, SlotsSound, AnswersSound, Issued, CANCELLED_FEE_FLAG
<1>7. FeeCovers(w2) /\ CountIs(w2) /\ SolventIn(w2) /\ IsFiniteSet(OwedWei(w2))
  BY <1>2, <1>3, <1>4, <1>5 DEF Books, FeeCovers, CountIs, SolventIn
<1> QED
  BY <1>2, <1>6, <1>7 DEF Books, w2
-----------------------------------------------------------------------------
(* The stack.                                                              *)

LEMMA TopIsFrame ==
    ASSUME Inv, stack # <<>>
    PROVE  /\ Len(stack) \in Nat \ {0}
           /\ Top \in Frame
           /\ Books(Top.entry) /\ Books(Top.atCall)
<1>1. stack \in Seq(Frame) /\ Len(stack) \in Nat /\ Len(stack) # 0
  BY EmptySeq, LenProperties DEF Inv
<1>2. Len(stack) \in 1..Len(stack)
  BY <1>1
<1> QED
  BY <1>1, <1>2, ElementOfSeq DEF Inv, Top

LEMMA StayKeepsInv ==
    ASSUME Inv, UNCHANGED stack, Books(world')
    PROVE  Inv'
BY DEF Inv

LEMMA PushKeepsInv ==
    ASSUME Inv, NEW fn \in {"request", "cancel", "deliver", "withdraw"},
           NEW to \in Accounts, NEW w, Books(w), ExternalCall(fn, to, w)
    PROVE  Inv'
<1> DEFINE frame == [fn |-> fn, callee |-> to, entry |-> world, atCall |-> w]
<1>1. frame \in Frame
  BY DEF Frame, Inv, Books
<1>2. world' = w /\ stack' = Append(stack, frame)
  BY DEF ExternalCall
<1>3. stack \in Seq(Frame)
  BY DEF Inv
<1>4. Books(frame.entry) /\ Books(frame.atCall)
  BY DEF Inv
<1> HIDE DEF frame
<1>5. /\ stack' \in Seq(Frame) /\ Len(stack') = Len(stack) + 1
      /\ \A i \in 1..Len(stack) : stack'[i] = stack[i]
      /\ stack'[Len(stack) + 1] = frame
      /\ Len(stack) \in Nat
  BY <1>1, <1>2, <1>3, AppendProperties, LenProperties
<1>6. \A i \in 1..Len(stack') : Books(stack'[i].entry) /\ Books(stack'[i].atCall)
  <2> SUFFICES ASSUME NEW i \in 1..Len(stack')
               PROVE  Books(stack'[i].entry) /\ Books(stack'[i].atCall)
    OBVIOUS
  <2>1. CASE i = Len(stack) + 1
    BY <2>1, <1>4, <1>5
  <2>2. CASE i \in 1..Len(stack)
    BY <2>2, <1>5 DEF Inv
  <2> QED
    BY <2>1, <2>2, <1>5
<1>7. Books(world')
  BY <1>2
<1> QED
  BY <1>5, <1>6, <1>7 DEF Inv

\* Popping leaves the outer frames.
LEMMA PopProperties ==
    ASSUME Inv, stack # <<>>
    PROVE  /\ Pop \in Seq(Frame)
           /\ Len(Pop) = Len(stack) - 1
           /\ \A i \in 1..(Len(stack) - 1) : Pop[i] = stack[i]
<1>1. stack \in Seq(Frame) /\ Len(stack) \in Nat \ {0}
  BY TopIsFrame DEF Inv
<1> DEFINE n == Len(stack) - 1
<1>2. n \in Nat /\ n \in Int /\ \A i \in 1..n : stack[i] \in Frame
  BY <1>1, ElementOfSeq
<1> HIDE DEF n
<1>3. /\ SubSeq(stack, 1, n) \in Seq(Frame)
      /\ Len(SubSeq(stack, 1, n)) = IF 1 <= n THEN n - 1 + 1 ELSE 0
      /\ \A i \in 1..(n - 1 + 1) : SubSeq(stack, 1, n)[i] = stack[1 + i - 1]
  BY <1>2, SubSeqProperties, Z3
<1>4. Len(SubSeq(stack, 1, n)) = n
  BY <1>2, <1>3
<1>5. \A i \in 1..n : SubSeq(stack, 1, n)[i] = stack[i]
  BY <1>2, <1>3
<1> QED
  BY <1>3, <1>4, <1>5 DEF Pop, n

LEMMA PopKeepsInv ==
    ASSUME Inv, stack # <<>>, stack' = Pop, Books(world')
    PROVE  Inv'
<1>1. /\ stack' \in Seq(Frame)
      /\ Len(stack') = Len(stack) - 1
      /\ \A i \in 1..(Len(stack) - 1) : stack'[i] = stack[i]
  BY PopProperties
<1>2. Len(stack) \in Nat
  BY TopIsFrame
<1>3. \A i \in 1..Len(stack') : Books(stack'[i].entry) /\ Books(stack'[i].atCall)
  BY <1>1, <1>2 DEF Inv
<1> QED
  BY <1>1, <1>3 DEF Inv

\* Clearing the flag does not touch the books.
LEMMA FinishKeepsBooks ==
    ASSUME NEW w, Books(w), NEW fn
    PROVE  Books(Finish(fn, w))
<1>1. CASE fn = "withdraw"
  BY <1>1 DEF Finish
<1>2. CASE fn # "withdraw"
  <2> DEFINE w2 == [w EXCEPT !.externalCallFlag = FALSE]
  <2>1. /\ w2 \in World /\ w2.requests = w.requests
        /\ w2.MIN_FEE = w.MIN_FEE /\ w2.CANCELLATION_FEE = w.CANCELLATION_FEE
        /\ w2.requestCnt = w.requestCnt /\ w2.unrespondedCnt = w.unrespondedCnt
        /\ w2.callbacks = w.callbacks /\ w2.balance - w2.surplus = w.balance - w.surplus
    BY DEF Books, World
  <2> HIDE DEF w2
  <2>2. Books(w2)
    BY <2>1, BooksKept
  <2> QED
    BY <1>2, <2>2 DEF Finish, w2
<1> QED
  BY <1>1, <1>2
-----------------------------------------------------------------------------
(* Initial states and steps.                                               *)

LEMMA InitInv ==
    ASSUME Init
    PROVE  Inv
<1>1. /\ Owner \in Accounts /\ MaxRequests \in Nat
      /\ RequestIds = 0..MaxRequests
  BY AccountsAssumption, NumbersAssumption DEF RequestIds
<1> DEFINE rq == [i \in RequestIds |->
                     [requester |-> IF i = 0 THEN Owner ELSE NoAddress,
                      fee |-> 0, callbackAddr |-> NoAddress,
                      paramsHash |-> NoAddress]]
<1>2. rq \in [RequestIds -> Request] /\ \A i \in RequestIds : rq[i].fee = 0
  BY <1>1 DEF Request
<1>3. /\ world.requests = rq /\ world.requestCnt = 1 /\ world.unrespondedCnt = 0
      /\ world.MIN_FEE = 6 /\ world.CANCELLATION_FEE = 5
      /\ world.balance = 0 /\ world.surplus = 0
      /\ world.callbacks = [i \in RequestIds |-> 0]
  BY DEF Init, InitialPrices
<1>4. world \in World
  <2> HIDE DEF rq
  <2>1. world = [GAS_PRICE |-> 1, MIN_FEE |-> 6, CANCELLATION_FEE |-> 5,
          killswitch |-> FALSE, externalCallFlag |-> FALSE,
          requestCnt |-> 1, unrespondedCnt |-> 0, requests |-> rq,
          newVersion |-> 0, balance |-> 0, surplus |-> 0,
          callbacks |-> [i \in RequestIds |-> 0]]
    BY DEF Init, InitialPrices, rq
  <2> QED
    BY <2>1, <1>2 DEF World
<1> HIDE DEF rq
<1>5. Open(world) = {}
  BY <1>2, <1>3 DEF Open, DELIVERED_FEE_FLAG
<1>6. OwedWei(world) = {}
  BY <1>5 DEF OwedWei
<1>7. CountIs(world) /\ SolventIn(world) /\ IsFiniteSet(OwedWei(world))
  BY <1>3, <1>5, <1>6, FS_EmptySet DEF CountIs, SolventIn
<1>8. /\ PricesSound(world) /\ SlotsSound(world) /\ AnswersSound(world)
      /\ FeeCovers(world)
  BY <1>2, <1>3, <1>5 DEF PricesSound, SlotsSound, AnswersSound, FeeCovers,
     Issued, CANCELLED_FEE_FLAG, DELIVERED_FEE_FLAG
<1>9. stack = <<>> /\ stack \in Seq(Frame) /\ Len(stack) = 0
  BY EmptySeq DEF Init
<1> QED
  BY <1>4, <1>7, <1>8, <1>9 DEF Inv, Books

\* A call of the owner.
LEMMA OwnerCallInv ==
    ASSUME FlagsDistinct, Inv, OwnerCall
    PROVE  Inv'
<1>1. Books(world) /\ world \in World
  BY DEF Inv, Books
<1>2. ASSUME NEW a \in NewVersions, Upgrade(a)
      PROVE  Inv'
  <2>1. /\ world' \in World /\ world'.requests = world.requests
        /\ world'.MIN_FEE = world.MIN_FEE
        /\ world'.CANCELLATION_FEE = world.CANCELLATION_FEE
        /\ world'.requestCnt = world.requestCnt
        /\ world'.unrespondedCnt = world.unrespondedCnt
        /\ world'.callbacks = world.callbacks
        /\ world'.balance - world'.surplus = world.balance - world.surplus
    <3>1. -a \in Int
      BY NumbersAssumption
    <3> QED
      BY <1>1, <1>2, <3>1 DEF Upgrade, World
  <2>2. Books(world')
    BY <1>1, <2>1, BooksKept
  <2> QED
    BY <2>2, <1>2, StayKeepsInv DEF Upgrade
<1>3. ASSUME NEW args \in ResetArgs, Reset(args)
      PROVE  Inv'
  <2> DEFINE gp == args.price
             mf == args.price * args.minGas
             cf == args.price * args.cancellationGas
  <2>1. gp \in Nat /\ mf \in Nat /\ cf \in Nat
    BY NumbersAssumption
  <2>2. mf > 1 /\ cf > 1
    BY DEF FlagsDistinct, CANCELLED_FEE_FLAG
  <2>3. world' = [world EXCEPT !.GAS_PRICE = gp, !.MIN_FEE = mf,
                               !.CANCELLATION_FEE = cf]
    BY <1>3 DEF Reset
  <2> HIDE DEF gp, mf, cf
  <2>4. Books([world EXCEPT !.GAS_PRICE = gp, !.MIN_FEE = mf,
                            !.CANCELLATION_FEE = cf])
    BY <1>1, <1>3, <2>1, <2>2, BooksReset DEF Reset
  <2> QED
    BY <1>3, <2>3, <2>4, StayKeepsInv DEF Reset
<1>4. CASE Suspend
  <2>1. /\ world' \in World /\ world'.requests = world.requests
        /\ world'.MIN_FEE = world.MIN_FEE
        /\ world'.CANCELLATION_FEE = world.CANCELLATION_FEE
        /\ world'.requestCnt = world.requestCnt
        /\ world'.unrespondedCnt = world.unrespondedCnt
        /\ world'.callbacks = world.callbacks
        /\ world'.balance - world'.surplus = world.balance - world.surplus
    BY <1>1, <1>4 DEF Suspend, World
  <2>2. Books(world')
    BY <1>1, <2>1, BooksKept
  <2> QED
    BY <2>2, <1>4, StayKeepsInv DEF Suspend
<1>5. CASE Restart
  <2>1. /\ world' \in World /\ world'.requests = world.requests
        /\ world'.MIN_FEE = world.MIN_FEE
        /\ world'.CANCELLATION_FEE = world.CANCELLATION_FEE
        /\ world'.requestCnt = world.requestCnt
        /\ world'.unrespondedCnt = world.unrespondedCnt
        /\ world'.callbacks = world.callbacks
        /\ world'.balance - world'.surplus = world.balance - world.surplus
    BY <1>1, <1>5 DEF Restart, World
  <2>2. Books(world')
    BY <1>1, <2>1, BooksKept
  <2> QED
    BY <2>2, <1>5, StayKeepsInv DEF Restart
<1>6. CASE Withdraw
  <2>1. world.balance = world.surplus /\ world.surplus \in Nat
    BY <1>1, <1>6, NothingOwed DEF Withdraw, World
  <2> DEFINE none == 0
  <2>2. none \in Int /\ none \in Nat /\ none - none = world.balance - world.surplus
    BY <2>1
  <2> HIDE DEF none
  <2>3. Books([world EXCEPT !.balance = none, !.surplus = none])
    BY <1>1, <2>2, BooksSurplus
  <2>4. ExternalCall("withdraw", Owner, [world EXCEPT !.balance = 0, !.surplus = 0])
    BY <1>6 DEF Withdraw
  <2> QED
    BY <2>3, <2>4, PushKeepsInv, AccountsAssumption DEF none
<1> QED
  BY <1>2, <1>3, <1>4, <1>5, <1>6 DEF OwnerCall

\* A call of a requester.
LEMMA RequesterCallInv ==
    ASSUME Inv, RequesterCall
    PROVE  Inv'
<1>1. Books(world) /\ world \in World
  BY DEF Inv, Books
<1>2. ASSUME NEW c \in Accounts, NEW v \in Values, RequestRefused(c, v)
      PROVE  Inv'
  <2> DEFINE w == [world EXCEPT !.externalCallFlag = TRUE]
  <2>1. /\ w \in World /\ w.requests = world.requests
        /\ w.MIN_FEE = world.MIN_FEE
        /\ w.CANCELLATION_FEE = world.CANCELLATION_FEE
        /\ w.requestCnt = world.requestCnt
        /\ w.unrespondedCnt = world.unrespondedCnt
        /\ w.callbacks = world.callbacks
        /\ w.balance - w.surplus = world.balance - world.surplus
    BY <1>1 DEF World
  <2>2. ExternalCall("request", c, w)
    BY <1>2 DEF RequestRefused
  <2> HIDE DEF w
  <2>3. Books(w)
    BY <1>1, <2>1, BooksKept
  <2> QED
    BY <2>2, <2>3, PushKeepsInv
<1>3. ASSUME NEW c \in Accounts, NEW v \in Values, NEW cb \in Accounts,
             NEW p \in Params, RequestRecorded(c, v, cb, p)
      PROVE  Inv'
  <2>1. v \in Nat
    BY NumbersAssumption
  <2>2. Books(world')
    BY <1>1, <1>3, <2>1, BooksRecorded DEF RequestRecorded
  <2> QED
    BY <1>3, <2>2, StayKeepsInv DEF RequestRecorded
<1>4. ASSUME NEW c \in Accounts, NEW id \in RequestIds, Cancel(c, id)
      PROVE  Inv'
  <2>1. Books(Cancelled(world, id))
    BY <1>1, <1>4, BooksCancelled DEF Cancel
  <2>2. ExternalCall("cancel", c, Cancelled(world, id))
    BY <1>4 DEF Cancel
  <2> QED
    BY <2>1, <2>2, PushKeepsInv
<1> QED
  BY <1>2, <1>3, <1>4 DEF RequesterCall

\* A response.
LEMMA DeliverInv ==
    ASSUME Inv, Deliver
    PROVE  Inv'
<1>1. Books(world) /\ world \in World
  BY DEF Inv, Books
<1>2. /\ world.balance \in Int /\ world.surplus \in Nat
      /\ world.CANCELLATION_FEE \in Nat
      /\ world.externalCallFlag \in BOOLEAN
      /\ world.requests \in [RequestIds -> Request]
      /\ world.callbacks \in [RequestIds -> Nat]
  BY <1>1 DEF World
<1>3. ASSUME NEW id \in RequestIds, NEW p \in Params, DeliverCancelled(id, p)
      PROVE  Inv'
  <2> DEFINE b == world.balance - world.CANCELLATION_FEE
             w2 == [world EXCEPT !.requests[id].fee = DELIVERED_FEE_FLAG,
                                 !.unrespondedCnt = (@ - 1) % UINT64,
                                 !.balance = b, !.surplus = world.surplus,
                                 !.externalCallFlag = world.externalCallFlag,
                                 !.callbacks = world.callbacks]
  <2>1. id \in Open(world)
    BY <1>3 DEF DeliverCancelled, Deliverable, Open
  <2>2. Claim(world, id) = world.CANCELLATION_FEE
    BY <1>3 DEF DeliverCancelled, Claim
  <2>3. b \in Int /\ b - world.surplus = world.balance - world.surplus - Claim(world, id)
    BY <1>2, <2>2
  <2>4. world' = w2
    BY <1>1, <1>2, <1>3 DEF DeliverCancelled, Responded, World
  <2> HIDE DEF b
  <2>5. Books(w2)
    BY <1>1, <1>2, <2>1, <2>3, BooksResponded
  <2> QED
    BY <1>3, <2>4, <2>5, StayKeepsInv DEF DeliverCancelled
<1>4. ASSUME NEW id \in RequestIds, NEW p \in Params, NEW error \in Errors,
             NEW accepted \in BOOLEAN, DeliverAnswer(id, p, error, accepted)
      PROVE  Inv'
  <2> DEFINE fee == world.requests[id].fee
             paid == error < 2 \/ accepted
             b == IF paid THEN world.balance - fee ELSE world.balance
             s == IF paid THEN world.surplus ELSE world.surplus + fee
             cs == [world.callbacks EXCEPT ![id] = @ + 1]
             w2 == [world EXCEPT !.requests[id].fee = DELIVERED_FEE_FLAG,
                                 !.unrespondedCnt = (@ - 1) % UINT64,
                                 !.balance = b, !.surplus = s,
                                 !.externalCallFlag = TRUE,
                                 !.callbacks = cs]
             w3 == [FeePaid(world, id, error, accepted) EXCEPT
                        !.externalCallFlag = TRUE, !.callbacks[id] = @ + 1]
  <2>1. id \in Open(world) /\ fee \in Nat /\ fee # CANCELLED_FEE_FLAG
    BY <1>2, <1>4 DEF DeliverAnswer, Deliverable, Open, Request
  <2>2. Claim(world, id) = fee
    BY <2>1 DEF Claim
  <2>3. b \in Int /\ s \in Nat /\ b - s = world.balance - world.surplus - Claim(world, id)
    BY <1>2, <2>1, <2>2
  <2>4. w3 = w2
    <3>1. CASE paid
      BY <1>1, <1>2, <3>1 DEF FeePaid, Responded, World
    <3>2. CASE ~paid
      BY <1>1, <1>2, <3>2 DEF FeePaid, Responded, World
    <3> QED
      BY <3>1, <3>2
  <2>5. ExternalCall("deliver", world.requests[id].callbackAddr, w3)
    BY <1>4 DEF DeliverAnswer
  <2>6. world.requests[id].callbackAddr \in Accounts
    BY <1>1, <2>1 DEF Books, SlotsSound, Open
  <2> HIDE DEF b, s, fee, paid, w3
  <2>7. Books(w2)
    BY <1>1, <1>2, <2>1, <2>3, BooksResponded
  <2> QED
    BY <2>4, <2>5, <2>6, <2>7, PushKeepsInv
<1> QED
  BY <1>3, <1>4 DEF Deliver

\* The end of an external call restores a world whose books are sound.
LEMMA CallEndsInv ==
    ASSUME Inv, CallEnds
    PROVE  Inv'
<1>1. stack # <<>> /\ stack' = Pop
  BY DEF CallEnds, CalleeReturns, CalleeFails, OutOfGas
<1>2. Books(world) /\ Books(Top.entry) /\ Books(Top.atCall)
  BY <1>1, TopIsFrame DEF Inv
<1>3. \/ world' = Finish(Top.fn, world)
      \/ world' = Finish(Top.fn, Top.atCall)
      \/ world' = Top.entry
  BY DEF CallEnds, CalleeReturns, CalleeFails, OutOfGas
<1>4. Books(world')
  BY <1>2, <1>3, FinishKeepsBooks
<1> QED
  BY <1>1, <1>4, PopKeepsInv

LEMMA ForceEtherInv ==
    ASSUME Inv, NEW v \in Values, ForceEther(v)
    PROVE  Inv'
<1>1. Books(world) /\ world \in World
  BY DEF Inv, Books
<1>2. v \in Nat
  BY NumbersAssumption
<1> DEFINE b == world.balance + v
           s == world.surplus + v
<1>3. b \in Int /\ s \in Nat /\ b - s = world.balance - world.surplus
  BY <1>1, <1>2 DEF World
<1>4. world' = [world EXCEPT !.balance = b, !.surplus = s]
  BY DEF ForceEther
<1> HIDE DEF b, s
<1>5. Books(world')
  BY <1>1, <1>3, <1>4, BooksSurplus
<1> QED
  BY <1>5, StayKeepsInv DEF ForceEther

LEMMA NextInv ==
    ASSUME FlagsDistinct, Inv, [Next]_vars
    PROVE  Inv'
<1>1. CASE OwnerCall
  BY <1>1, OwnerCallInv
<1>2. CASE RequesterCall
  BY <1>2, RequesterCallInv
<1>3. CASE Deliver
  BY <1>3, DeliverInv
<1>4. CASE CallEnds
  BY <1>4, CallEndsInv
<1>5. CASE \E v \in Values : ForceEther(v)
  BY <1>5, ForceEtherInv
<1>6. CASE UNCHANGED vars
  BY <1>6 DEF vars, Inv
<1> QED
  BY <1>1, <1>2, <1>3, <1>4, <1>5, <1>6 DEF Next

\* Inv holds in every reachable state: the current world and every world a
\* suspended call may be rolled back to keep sound books.
THEOREM Invariance ==
    ASSUME FlagsDistinct
    PROVE  Spec => []Inv
<1>1. Init => Inv
  BY InitInv
<1>2. Inv /\ [Next]_vars => Inv'
  BY NextInv
<1> QED
  BY <1>1, <1>2, PTL DEF Spec
-----------------------------------------------------------------------------
(* The properties.                                                         *)

\* Every stored value has its type.
THEOREM TypeCorrect ==
    ASSUME FlagsDistinct
    PROVE  Spec => []TypeOK
<1>1. Inv => TypeOK
  BY DEF Inv, TypeOK, Books
<1> QED
  BY <1>1, Invariance, PTL

\* unrespondedCnt counts the open requests, so deliver never wraps it.
THEOREM CountCorrect ==
    ASSUME FlagsDistinct
    PROVE  Spec => []UnrespondedCount
<1>1. Inv => UnrespondedCount
  BY DEF Inv, UnrespondedCount, Books
<1> QED
  BY <1>1, Invariance, PTL

\* The balance is what is owed for open requests plus the surplus.
THEOREM Solvency ==
    ASSUME FlagsDistinct
    PROVE  Spec => []Solvent
<1>1. Inv => Solvent
  BY DEF Inv, Solvent, Books
<1> QED
  BY <1>1, Invariance, PTL

\* The subtraction fee - MIN_FEE of deliver does not wrap.
THEOREM FeeCoverage ==
    ASSUME FlagsDistinct
    PROVE  Spec => []PendingFeeCoversMinFee
<1>1. Inv => PendingFeeCoversMinFee
  BY DEF Inv, PendingFeeCoversMinFee, Books
<1> QED
  BY <1>1, Invariance, PTL

\* No request is called back twice, and none is open after its callback.
THEOREM AnsweredAtMostOnce ==
    ASSUME FlagsDistinct
    PROVE  Spec => []AnsweredOnce
<1>1. Inv => AnsweredOnce
  BY DEF Inv, AnsweredOnce, Books, AnswersSound, Open, Issued
<1> QED
  BY <1>1, Invariance, PTL
-----------------------------------------------------------------------------
(* The lock.  A function that sets the flag is only entered while it is    *)
(* clear, so at most one suspended call holds it, and whichever way that   *)
(* call ends the flag is clear again.                                      *)

Holds(frame) == frame.fn # "withdraw"

LockInv ==
    /\ world.externalCallFlag <=> \E i \in 1..Len(stack) : Holds(stack[i])
    /\ \A i \in 1..Len(stack) :
           /\ stack[i].entry.externalCallFlag <=>
                  \E j \in 1..(i - 1) : Holds(stack[j])
           /\ stack[i].atCall.externalCallFlag <=>
                  \E j \in 1..i : Holds(stack[j])
           /\ Holds(stack[i]) => ~stack[i].entry.externalCallFlag

LEMMA LockPush ==
    ASSUME Inv, LockInv, NEW fn, NEW to, NEW w, ExternalCall(fn, to, w),
           IF fn = "withdraw"
           THEN w.externalCallFlag = world.externalCallFlag
           ELSE w.externalCallFlag = TRUE /\ ~world.externalCallFlag
    PROVE  LockInv'
<1> DEFINE frame == [fn |-> fn, callee |-> to, entry |-> world, atCall |-> w]
<1>1. world' = w /\ stack' = Append(stack, frame)
  BY DEF ExternalCall
<1>2. stack \in Seq(Frame) /\ Len(stack) \in Nat
  BY LenProperties DEF Inv
<1>3. /\ frame.fn = fn /\ frame.entry = world /\ frame.atCall = w
      /\ Holds(frame) <=> fn # "withdraw"
  BY DEF Holds
<1> HIDE DEF frame
<1>4. /\ Len(stack') = Len(stack) + 1
      /\ \A i \in 1..Len(stack) : stack'[i] = stack[i]
      /\ stack'[Len(stack) + 1] = frame
  BY <1>1, <1>2
<1>5. \A i \in 1..Len(stack') : i = Len(stack) + 1 \/ i \in 1..Len(stack)
  BY <1>2, <1>4
<1>6. w.externalCallFlag <=> world.externalCallFlag \/ Holds(frame)
  BY <1>3
<1>7. (\E i \in 1..Len(stack') : Holds(stack'[i])) <=>
          (\E i \in 1..Len(stack) : Holds(stack[i])) \/ Holds(frame)
  BY <1>2, <1>4, <1>5
<1>8. world'.externalCallFlag <=> \E i \in 1..Len(stack') : Holds(stack'[i])
  BY <1>1, <1>6, <1>7 DEF LockInv
<1>9. ASSUME NEW i \in 1..Len(stack')
      PROVE  /\ stack'[i].entry.externalCallFlag <=>
                    \E j \in 1..(i - 1) : Holds(stack'[j])
             /\ stack'[i].atCall.externalCallFlag <=>
                    \E j \in 1..i : Holds(stack'[j])
             /\ Holds(stack'[i]) => ~stack'[i].entry.externalCallFlag
  <2>1. CASE i \in 1..Len(stack)
    <3>1. \A j \in 1..i : j \in 1..Len(stack) /\ stack'[j] = stack[j]
      BY <2>1, <1>2, <1>4
    <3>2. \A j \in 1..(i - 1) : j \in 1..Len(stack) /\ stack'[j] = stack[j]
      BY <2>1, <1>2, <1>4
    <3> QED
      BY <2>1, <3>1, <3>2, <1>4 DEF LockInv
  <2>2. CASE i = Len(stack) + 1
    <3>1. stack'[i] = frame /\ i - 1 = Len(stack)
      BY <2>2, <1>2, <1>4
    <3>2. (\E j \in 1..(i - 1) : Holds(stack'[j])) <=> world.externalCallFlag
      BY <3>1, <1>4 DEF LockInv
    <3>3. (\E j \in 1..i : Holds(stack'[j])) <=> world'.externalCallFlag
      BY <2>2, <1>4, <1>8
    <3> QED
      BY <3>1, <3>2, <3>3, <1>1, <1>3
  <2> QED
    BY <2>1, <2>2, <1>5
<1> QED
  BY <1>8, <1>9 DEF LockInv

LEMMA LockPop ==
    ASSUME Inv, LockInv, CallEnds
    PROVE  LockInv'
<1>1. stack # <<>> /\ stack' = Pop
  BY DEF CallEnds, CalleeReturns, CalleeFails, OutOfGas
<1> DEFINE n == Len(stack)
<1>2. stack \in Seq(Frame) /\ n \in Nat \ {0} /\ Top = stack[n]
  BY <1>1, TopIsFrame DEF Inv, Top
<1>3. world \in World /\ Top.entry \in World /\ Top.atCall \in World
  BY <1>1, TopIsFrame DEF Inv, Books
<1>4. Len(stack') = n - 1 /\ \A i \in 1..(n - 1) : stack'[i] = stack[i]
  BY <1>1, PopProperties
<1> HIDE DEF n
<1>5. /\ Top.entry.externalCallFlag <=> \E j \in 1..(n - 1) : Holds(stack[j])
      /\ Top.atCall.externalCallFlag <=> \E j \in 1..n : Holds(stack[j])
      /\ Holds(Top) => ~Top.entry.externalCallFlag
      /\ world.externalCallFlag <=> \E j \in 1..n : Holds(stack[j])
  BY <1>2 DEF LockInv, n
<1>6. (\E j \in 1..n : Holds(stack[j])) <=>
          (\E j \in 1..(n - 1) : Holds(stack[j])) \/ Holds(Top)
  BY <1>2
<1>7. ASSUME NEW w \in World,
             w.externalCallFlag <=> \E j \in 1..n : Holds(stack[j])
      PROVE  Finish(Top.fn, w).externalCallFlag <=>
                 \E j \in 1..(n - 1) : Holds(stack[j])
  <2>1. CASE Holds(Top)
    <3>1. Finish(Top.fn, w).externalCallFlag = FALSE
      BY <2>1 DEF Finish, Holds, World
    <3> QED
      BY <2>1, <3>1, <1>5
  <2>2. CASE ~Holds(Top)
    <3>1. Finish(Top.fn, w) = w
      BY <2>2 DEF Finish, Holds
    <3> QED
      BY <2>2, <3>1, <1>6, <1>7
  <2> QED
    BY <2>1, <2>2
<1>8. world'.externalCallFlag <=> \E j \in 1..(n - 1) : Holds(stack[j])
  <2>1. CASE CalleeReturns
    BY <2>1, <1>3, <1>5, <1>7 DEF CalleeReturns
  <2>2. CASE CalleeFails
    BY <2>2, <1>3, <1>5, <1>7 DEF CalleeFails
  <2>3. CASE OutOfGas
    BY <2>3, <1>5 DEF OutOfGas
  <2> QED
    BY <2>1, <2>2, <2>3 DEF CallEnds
<1>9. (\E j \in 1..(n - 1) : Holds(stack[j])) <=>
          \E j \in 1..Len(stack') : Holds(stack'[j])
  BY <1>2, <1>4
<1>10. ASSUME NEW i \in 1..Len(stack')
       PROVE  /\ stack'[i].entry.externalCallFlag <=>
                     \E j \in 1..(i - 1) : Holds(stack'[j])
              /\ stack'[i].atCall.externalCallFlag <=>
                     \E j \in 1..i : Holds(stack'[j])
              /\ Holds(stack'[i]) => ~stack'[i].entry.externalCallFlag
  <2>1. i \in 1..Len(stack) /\ stack'[i] = stack[i]
    BY <1>2, <1>4 DEF n
  <2>2. /\ \A j \in 1..i : stack'[j] = stack[j]
        /\ \A j \in 1..(i - 1) : stack'[j] = stack[j]
    BY <1>2, <1>4
  <2> QED
    BY <2>1, <2>2 DEF LockInv
<1> QED
  BY <1>8, <1>9, <1>10 DEF LockInv

LEMMA LockStay ==
    ASSUME LockInv, UNCHANGED stack,
           world'.externalCallFlag = world.externalCallFlag
    PROVE  LockInv'
BY DEF LockInv

LEMMA LockNext ==
    ASSUME Inv, LockInv, [Next]_vars
    PROVE  LockInv'
<1>1. world \in World
  BY DEF Inv, Books
<1>2. CASE OwnerCall
  <2>1. ASSUME NEW a \in NewVersions, Upgrade(a)
        PROVE  LockInv'
    BY <1>1, <2>1, LockStay DEF Upgrade, World
  <2>2. ASSUME NEW args \in ResetArgs, Reset(args)
        PROVE  LockInv'
    BY <1>1, <2>2, LockStay DEF Reset, World
  <2>3. CASE Suspend \/ Restart
    BY <1>1, <2>3, LockStay DEF Suspend, Restart, World
  <2>4. CASE Withdraw
    <3> DEFINE w == [world EXCEPT !.balance = 0, !.surplus = 0]
    <3>1. w.externalCallFlag = world.externalCallFlag
      BY <1>1 DEF World
    <3>2. ExternalCall("withdraw", Owner, w)
      BY <2>4 DEF Withdraw
    <3> HIDE DEF w
    <3> QED
      BY <3>1, <3>2, LockPush
  <2> QED
    BY <1>2, <2>1, <2>2, <2>3, <2>4 DEF OwnerCall
<1>3. CASE RequesterCall
  <2>1. ASSUME NEW c \in Accounts, NEW v \in Values, RequestRefused(c, v)
        PROVE  LockInv'
    <3> DEFINE w == [world EXCEPT !.externalCallFlag = TRUE]
    <3>1. w.externalCallFlag = TRUE
      BY <1>1 DEF World
    <3>2. ExternalCall("request", c, w) /\ ~world.externalCallFlag
      BY <2>1 DEF RequestRefused
    <3> HIDE DEF w
    <3> QED
      BY <3>1, <3>2, LockPush
  <2>2. ASSUME NEW c \in Accounts, NEW v \in Values, NEW cb \in Accounts,
               NEW p \in Params, RequestRecorded(c, v, cb, p)
        PROVE  LockInv'
    BY <1>1, <2>2, LockStay DEF RequestRecorded, Recorded, World
  <2>3. ASSUME NEW c \in Accounts, NEW id \in RequestIds, Cancel(c, id)
        PROVE  LockInv'
    <3>1. Cancelled(world, id).externalCallFlag = TRUE
      BY <1>1 DEF World, Cancelled
    <3>2. ExternalCall("cancel", c, Cancelled(world, id)) /\ ~world.externalCallFlag
      BY <2>3 DEF Cancel
    <3> QED
      BY <3>1, <3>2, LockPush
  <2> QED
    BY <1>3, <2>1, <2>2, <2>3 DEF RequesterCall
<1>4. CASE Deliver
  <2>1. ASSUME NEW id \in RequestIds, NEW p \in Params, DeliverCancelled(id, p)
        PROVE  LockInv'
    BY <1>1, <2>1, LockStay DEF DeliverCancelled, Responded, World
  <2>2. ASSUME NEW id \in RequestIds, NEW p \in Params, NEW error \in Errors,
               NEW accepted \in BOOLEAN, DeliverAnswer(id, p, error, accepted)
        PROVE  LockInv'
    <3> DEFINE w == [FeePaid(world, id, error, accepted) EXCEPT
                        !.externalCallFlag = TRUE, !.callbacks[id] = @ + 1]
    <3>1. w.externalCallFlag = TRUE
      BY <1>1 DEF World, FeePaid, Responded
    <3>2. ExternalCall("deliver", world.requests[id].callbackAddr, w) /\ stack = <<>>
      BY <2>2 DEF DeliverAnswer
    <3>3. ~world.externalCallFlag
      BY <3>2 DEF LockInv
    <3> HIDE DEF w
    <3> QED
      BY <3>1, <3>2, <3>3, LockPush
  <2> QED
    BY <1>4, <2>1, <2>2 DEF Deliver
<1>5. CASE CallEnds
  BY <1>5, LockPop
<1>6. ASSUME NEW v \in Values, ForceEther(v)
      PROVE  LockInv'
  BY <1>1, <1>6, LockStay DEF ForceEther, World
<1>7. CASE UNCHANGED vars
  BY <1>7, LockStay DEF vars
<1> QED
  BY <1>2, <1>3, <1>4, <1>5, <1>6, <1>7 DEF Next

\* externalCallFlag is set exactly while a function that sets it waits for
\* a callee: request and cancel are never left locked.
THEOREM LockReleased ==
    ASSUME FlagsDistinct
    PROVE  Spec => []FlagMatchesStack
<1>1. Init => LockInv
  BY DEF Init, LockInv
<1>2. Inv /\ LockInv /\ [Next]_vars => LockInv'
  BY LockNext
<1>3. LockInv => FlagMatchesStack
  BY DEF LockInv, FlagMatchesStack, Holds
<1> QED
  BY <1>1, <1>2, <1>3, Invariance, PTL DEF Spec
-----------------------------------------------------------------------------
(* The refinement of RequestEscrow.  Whatever the callees of a transaction *)
(* do, the world has moved from the entry of the transaction to where it   *)
(* is by steps of the escrow that add up to one: a transaction of SGX has  *)
(* closed one request and, as it holds the lock, nothing else; any other   *)
(* transaction has submitted or withdrawn requests.  As a failing callee   *)
(* or function restores one of the remembered worlds, the same is said of  *)
(* each of them.                                                           *)

Ids == RequestIds \ {0}

Unmoved(w, x, id) ==
    StatusIn(x, id) = StatusIn(w, id) /\ Claim(x, id) = Claim(w, id)

\* What a requester's transaction may do to one request.
Moved(w, x, id) ==
    \/ Unmoved(w, x, id)
    \/ /\ StatusIn(w, id) = "none"
       /\ StatusIn(x, id) \in {"open", "cancelled"}
       /\ Claim(x, id) > 0
    \/ /\ StatusIn(w, id) = "open"
       /\ StatusIn(x, id) = "cancelled"
       /\ Claim(x, id) \in 1..Claim(w, id)

Answered(w, x, id) ==
    /\ \/ StatusIn(w, id) = "open" /\ StatusIn(x, id) = "answered"
       \/ StatusIn(w, id) = "cancelled" /\ StatusIn(x, id) = "settled"
    /\ Claim(x, id) = 0

Alike(w, x) == \A id \in Ids : Unmoved(w, x, id)

RequesterSince(w, x) == \A id \in Ids : Moved(w, x, id)

ResponseSince(w, x) ==
    \E id \in Ids : /\ Answered(w, x, id)
                    /\ \A other \in Ids \ {id} : Unmoved(w, x, other)

\* Where a transaction that began with a call of fn may have led to.
Since(fn, w, x) ==
    IF fn = "deliver" THEN ResponseSince(w, x) ELSE RequesterSince(w, x)

\* The inductive invariant of the refinement.
TxInv ==
    stack # <<>> =>
        LET since(x) == Since(stack[1].fn, stack[1].entry, x) IN
        /\ since(world)
        /\ \A i \in 1..Len(stack) : /\ since(stack[i].atCall)
                                    /\ i > 1 => since(stack[i].entry)

\* Moves of one request add up.
LEMMA MovedAddsUp ==
    ASSUME NEW w, NEW x, NEW y, NEW id, Moved(w, x, id), Moved(x, y, id),
           Claim(w, id) \in Nat, Claim(x, id) \in Nat, Claim(y, id) \in Nat
    PROVE  Moved(w, y, id)
BY DEF Moved, Unmoved

\* What is claimed for a request is an amount of wei.
LEMMA ClaimType ==
    ASSUME NEW w \in World, NEW id \in Ids
    PROVE  Claim(w, id) \in Nat
BY DEF World, Request, Claim, Ids

\* A step that leaves requests, callbacks and the cancellation fee alone
\* leaves every request where it was.
LEMMA AlikeKept ==
    ASSUME NEW w, NEW x,
           x.requests = w.requests,
           x.callbacks = w.callbacks,
           x.requestCnt = w.requestCnt,
           x.CANCELLATION_FEE = w.CANCELLATION_FEE
    PROVE  Alike(w, x)
BY DEF Alike, Unmoved, StatusIn, Claim

\* New prices, set when nothing is open, change no claim.
LEMMA AlikeReset ==
    ASSUME NEW w, Books(w), w.unrespondedCnt = 0,
           NEW gp, NEW mf, NEW cf
    PROVE  Alike(w, [w EXCEPT !.GAS_PRICE = gp, !.MIN_FEE = mf,
                              !.CANCELLATION_FEE = cf])
<1> DEFINE x == [w EXCEPT !.GAS_PRICE = gp, !.MIN_FEE = mf,
                          !.CANCELLATION_FEE = cf]
<1>1. /\ x.requests = w.requests /\ x.callbacks = w.callbacks
      /\ x.requestCnt = w.requestCnt
  BY DEF Books, World
<1>2. \A id \in Ids : w.requests[id].fee = DELIVERED_FEE_FLAG
  BY NothingOwed DEF Open, Ids
<1> HIDE DEF x
<1>3. Alike(w, x)
  BY <1>1, <1>2 DEF Alike, Unmoved, StatusIn, Claim, DELIVERED_FEE_FLAG,
     CANCELLED_FEE_FLAG
<1> QED
  BY <1>3 DEF x

\* Recording a request submits the next id.
LEMMA RecordedMoves ==
    ASSUME NEW w, Books(w), NEW c, NEW v \in Nat, NEW cb, NEW p,
           v >= w.MIN_FEE, w.requestCnt <= MaxRequests
    PROVE  RequesterSince(w, Recorded(w, c, v, cb, p))
<1> DEFINE x == Recorded(w, c, v, cb, p)
           n == w.requestCnt
           slot == [requester |-> c, fee |-> v, callbackAddr |-> cb,
                    paramsHash |-> p]
<1>1. /\ w \in World /\ n \in Nat /\ n \in RequestIds
      /\ w.requests \in [RequestIds -> Request]
      /\ w.MIN_FEE \in Nat /\ w.MIN_FEE > 1
  BY NumbersAssumption DEF Books, World, RequestIds, PricesSound,
     CANCELLED_FEE_FLAG
<1>2. /\ x.requests = [w.requests EXCEPT ![n] = slot]
      /\ x.requestCnt = n + 1 /\ x.callbacks = w.callbacks
      /\ x.CANCELLATION_FEE = w.CANCELLATION_FEE
  BY <1>1 DEF Recorded, World
<1>3. x.requests[n].fee = v /\ v > 1
  BY <1>1, <1>2
<1> HIDE DEF x, slot
<1>4. ASSUME NEW id \in Ids
      PROVE  Moved(w, x, id)
  <2>1. CASE id = n
    <3>1. StatusIn(w, id) = "none"
      BY <2>1, <1>1 DEF StatusIn
    <3>2. StatusIn(x, id) = "open"
      BY <2>1, <1>1, <1>2, <1>3 DEF StatusIn, CANCELLED_FEE_FLAG,
         DELIVERED_FEE_FLAG
    <3>3. Claim(x, id) = v
      BY <2>1, <1>3 DEF Claim, CANCELLED_FEE_FLAG
    <3> QED
      BY <3>1, <3>2, <3>3, <1>3 DEF Moved
  <2>2. CASE id # n
    <3>1. id \in RequestIds /\ id \in Int /\ x.requests[id] = w.requests[id]
      BY <2>2, <1>1, <1>2 DEF Ids, RequestIds
    <3>2. id >= x.requestCnt <=> id >= n
      BY <3>1, <2>2, <1>1, <1>2
    <3> QED
      BY <3>1, <3>2, <1>2 DEF Moved, Unmoved, StatusIn, Claim
  <2> QED
    BY <2>1, <2>2
<1> QED
  BY <1>4 DEF RequesterSince, x

\* Cancelling withdraws one open request and keeps part of its fee.
LEMMA CancelledMoves ==
    ASSUME NEW w, Books(w), NEW id \in RequestIds,
           w.requests[id].fee >= w.CANCELLATION_FEE
    PROVE  RequesterSince(w, Cancelled(w, id))
<1> DEFINE x == Cancelled(w, id)
           cf == w.CANCELLATION_FEE
           fee == w.requests[id].fee
<1>1. /\ w \in World /\ w.requests \in [RequestIds -> Request]
      /\ w.requestCnt \in Nat
      /\ w.requests[id] \in Request /\ fee \in Nat /\ cf \in Nat /\ cf > 1
      /\ fee >= cf
  BY DEF Books, World, Request, PricesSound, CANCELLED_FEE_FLAG
<1>2. /\ x.requests = [w.requests EXCEPT ![id].fee = 1]
      /\ x.requestCnt = w.requestCnt /\ x.callbacks = w.callbacks
      /\ x.CANCELLATION_FEE = cf
  BY <1>1 DEF Cancelled, World, CANCELLED_FEE_FLAG
<1>3. x.requests[id].fee = 1
  BY <1>1, <1>2 DEF Request
<1>4. id \in Issued(w)
  BY <1>1 DEF Books, SlotsSound, DELIVERED_FEE_FLAG
<1> HIDE DEF x, cf, fee
<1>5. ASSUME NEW other \in Ids
      PROVE  Moved(w, x, other)
  <2>1. CASE other = id
    <3>1. ~(id >= w.requestCnt)
      BY <1>1, <1>4 DEF Issued
    <3>2. StatusIn(w, id) = "open" /\ Claim(w, id) = fee
      BY <3>1, <1>1 DEF StatusIn, Claim, CANCELLED_FEE_FLAG,
         DELIVERED_FEE_FLAG, fee
    <3>3. StatusIn(x, id) = "cancelled" /\ Claim(x, id) = cf
      BY <3>1, <1>2, <1>3 DEF StatusIn, Claim, CANCELLED_FEE_FLAG
    <3> QED
      BY <2>1, <3>2, <3>3, <1>1 DEF Moved
  <2>2. CASE other # id
    <3>1. x.requests[other] = w.requests[other]
      BY <2>2, <1>1, <1>2 DEF Ids
    <3> QED
      BY <3>1, <1>2 DEF Moved, Unmoved, StatusIn, Claim, cf
  <2> QED
    BY <2>1, <2>2
<1> QED
  BY <1>5 DEF RequesterSince, x

\* Answering an open request closes it, with a callback or, when it was
\* cancelled, without, and moves no other.
LEMMA RespondedMoves ==
    ASSUME NEW w, Books(w), NEW id \in Open(w), NEW x,
           x.requests = [w.requests EXCEPT ![id].fee = DELIVERED_FEE_FLAG],
           x.requestCnt = w.requestCnt,
           x.CANCELLATION_FEE = w.CANCELLATION_FEE,
           IF w.requests[id].fee = CANCELLED_FEE_FLAG
           THEN x.callbacks = w.callbacks
           ELSE x.callbacks = [w.callbacks EXCEPT ![id] = @ + 1]
    PROVE  ResponseSince(w, x)
<1>1. /\ w.requests \in [RequestIds -> Request]
      /\ w.callbacks \in [RequestIds -> Nat] /\ w.requestCnt \in Nat
      /\ id \in Ids /\ id \in RequestIds
      /\ w.requests[id].fee # 0 /\ w.callbacks[id] = 0
  BY DEF Books, World, Open, Ids, DELIVERED_FEE_FLAG, AnswersSound
<1>2. ~(id >= w.requestCnt)
  BY <1>1 DEF Books, SlotsSound, Issued, DELIVERED_FEE_FLAG
<1>3. x.requests[id].fee = 0
  BY <1>1 DEF DELIVERED_FEE_FLAG, Request
<1>4. Claim(x, id) = 0
  BY <1>3 DEF Claim, CANCELLED_FEE_FLAG
<1>5. Answered(w, x, id)
  <2>1. CASE w.requests[id].fee = CANCELLED_FEE_FLAG
    <3>1. StatusIn(w, id) = "cancelled"
      BY <2>1, <1>2 DEF StatusIn
    <3>2. StatusIn(x, id) = "settled"
      BY <2>1, <1>1, <1>2, <1>3 DEF StatusIn, CANCELLED_FEE_FLAG,
         DELIVERED_FEE_FLAG
    <3> QED
      BY <3>1, <3>2, <1>4 DEF Answered
  <2>2. CASE w.requests[id].fee # CANCELLED_FEE_FLAG
    <3>1. StatusIn(w, id) = "open"
      BY <2>2, <1>1, <1>2 DEF StatusIn, DELIVERED_FEE_FLAG
    <3>2. x.callbacks[id] = 1
      BY <2>2, <1>1
    <3>3. StatusIn(x, id) = "answered"
      BY <3>2, <1>2, <1>3 DEF StatusIn, CANCELLED_FEE_FLAG,
         DELIVERED_FEE_FLAG
    <3> QED
      BY <3>1, <3>3, <1>4 DEF Answered
  <2> QED
    BY <2>1, <2>2
<1>6. ASSUME NEW other \in Ids \ {id}
      PROVE  Unmoved(w, x, other)
  <2>1. other \in RequestIds /\ other # id
    BY DEF Ids
  <2>2. x.requests[other] = w.requests[other]
    BY <2>1, <1>1
  <2>3. x.callbacks[other] = w.callbacks[other]
    BY <2>1, <1>1
  <2> QED
    BY <2>2, <2>3 DEF Unmoved, StatusIn, Claim
<1> QED
  BY <1>1, <1>5, <1>6 DEF ResponseSince

\* A response and then steps that leave every request alone are a response.
LEMMA ResponseStays ==
    ASSUME NEW w, NEW x, NEW y, ResponseSince(w, x), Alike(x, y)
    PROVE  ResponseSince(w, y)
BY DEF ResponseSince, Alike, Answered, Unmoved

\* Two stretches of a requester's transaction add up to one.
LEMMA RequesterAddsUp ==
    ASSUME NEW w \in World, NEW x \in World, NEW y \in World,
           RequesterSince(w, x), RequesterSince(x, y)
    PROVE  RequesterSince(w, y)
BY MovedAddsUp, ClaimType DEF RequesterSince

LEMMA AlikeIsRequester ==
    ASSUME NEW w, NEW x, Alike(w, x)
    PROVE  RequesterSince(w, x)
BY DEF Alike, RequesterSince, Moved

\* A step inside the transaction: any requester's step of a transaction that
\* did not begin with a delivery, and otherwise one that changes no request.
LEMMA SinceGoesOn ==
    ASSUME NEW fn, NEW w \in World, NEW x \in World, NEW y \in World,
           Since(fn, w, x),
           Alike(x, y) \/ (fn # "deliver" /\ RequesterSince(x, y))
    PROVE  Since(fn, w, y)
<1>1. CASE fn = "deliver"
  BY <1>1, ResponseStays DEF Since
<1>2. CASE fn # "deliver"
  BY <1>2, AlikeIsRequester, RequesterAddsUp DEF Since
<1> QED
  BY <1>1, <1>2

\* The bottom frame of a transaction of SGX holds the lock to its end.
LEMMA DeliveryHoldsLock ==
    ASSUME Inv, LockInv, stack # <<>>, ~world.externalCallFlag
    PROVE  stack[1].fn # "deliver"
<1>1. 1 \in 1..Len(stack)
  BY TopIsFrame
<1> QED
  BY <1>1 DEF LockInv, Holds

LEMMA FinishAlike ==
    ASSUME NEW w \in World, NEW fn
    PROVE  Alike(w, Finish(fn, w))
<1>1. CASE fn = "withdraw"
  BY <1>1, AlikeKept DEF Finish
<1>2. CASE fn # "withdraw"
  <2> DEFINE x == [w EXCEPT !.externalCallFlag = FALSE]
  <2>1. /\ x.requests = w.requests /\ x.callbacks = w.callbacks
        /\ x.requestCnt = w.requestCnt
        /\ x.CANCELLATION_FEE = w.CANCELLATION_FEE
    BY DEF World
  <2> HIDE DEF x
  <2>2. Alike(w, x)
    BY <2>1, AlikeKept
  <2> QED
    BY <1>2, <2>2 DEF Finish, x
<1> QED
  BY <1>1, <1>2

\* A step that calls nobody.
LEMMA TxStay ==
    ASSUME Inv, Inv', TxInv, UNCHANGED stack,
           stack # <<>> =>
               \/ Alike(world, world')
               \/ stack[1].fn # "deliver" /\ RequesterSince(world, world')
    PROVE  TxInv'
<1> SUFFICES ASSUME stack # <<>>
             PROVE  TxInv'
  BY DEF TxInv
<1>1. /\ world \in World /\ world' \in World /\ stack[1].entry \in World
      /\ Len(stack) \in Nat /\ 1 \in 1..Len(stack)
  BY TopIsFrame DEF Inv, Books
<1>2. Since(stack[1].fn, stack[1].entry, world')
  BY <1>1, SinceGoesOn DEF TxInv
<1> QED
  BY <1>2 DEF TxInv

\* A call from inside a transaction, or the call it begins with.
LEMMA TxPush ==
    ASSUME Inv, Inv', TxInv, NEW fn, NEW to, NEW w, ExternalCall(fn, to, w),
           IF stack = <<>> THEN Since(fn, world, w)
           ELSE \/ Alike(world, w)
                \/ stack[1].fn # "deliver" /\ RequesterSince(world, w)
    PROVE  TxInv'
<1> DEFINE frame == [fn |-> fn, callee |-> to, entry |-> world, atCall |-> w]
           n == Len(stack)
<1>1. world' = w /\ stack' = Append(stack, frame)
  BY DEF ExternalCall
<1>2. stack \in Seq(Frame) /\ n \in Nat
  BY LenProperties DEF Inv
<1>3. frame.fn = fn /\ frame.entry = world /\ frame.atCall = w
  OBVIOUS
<1> HIDE DEF frame
<1>4. /\ Len(stack') = n + 1
      /\ \A i \in 1..n : stack'[i] = stack[i]
      /\ stack'[n + 1] = frame
      /\ stack' # <<>>
  BY <1>1, <1>2
<1>5. world \in World /\ w \in World
  BY <1>1 DEF Inv, Books
<1>6. CASE stack = <<>>
  <2>1. n = 0 /\ stack'[1] = frame /\ Len(stack') = 1
    BY <1>6, <1>4
  <2> QED
    BY <2>1, <1>1, <1>3, <1>6 DEF TxInv
<1>7. CASE stack # <<>>
  <2>1. n \in Nat \ {0} /\ 1 \in 1..n
    BY <1>2, <1>7, TopIsFrame
  <2>2. stack'[1] = stack[1] /\ stack[1].entry \in World
    BY <2>1, <1>4 DEF Inv, Books
  <2>3. /\ Since(stack[1].fn, stack[1].entry, world)
        /\ Since(stack[1].fn, stack[1].entry, w)
    BY <2>2, <1>5, <1>7, SinceGoesOn DEF TxInv
  <2>4. ASSUME NEW i \in 1..Len(stack')
        PROVE  /\ Since(stack[1].fn, stack[1].entry, stack'[i].atCall)
               /\ i > 1 => Since(stack[1].fn, stack[1].entry, stack'[i].entry)
    <3>1. CASE i = n + 1
      BY <3>1, <2>3, <1>3, <1>4
    <3>2. CASE i \in 1..n
      BY <3>2, <1>4, <1>7 DEF TxInv
    <3> QED
      BY <3>1, <3>2, <1>2, <1>4
  <2> QED
    BY <2>2, <2>3, <2>4, <1>1 DEF TxInv
<1> QED
  BY <1>6, <1>7

\* What an ending call leaves behind: where the transaction has led to, or,
\* when its first function is undone, where it began.
LEMMA TxEndsWhere ==
    ASSUME Inv, TxInv, CallEnds
    PROVE  \/ Since(stack[1].fn, stack[1].entry, world')
           \/ Len(stack) = 1 /\ world' = stack[1].entry
<1> DEFINE n == Len(stack)
           since(x) == Since(stack[1].fn, stack[1].entry, x)
<1>1. stack # <<>>
  BY DEF CallEnds, CalleeReturns, CalleeFails, OutOfGas
<1>2. /\ n \in Nat \ {0} /\ n \in 1..n /\ 1 \in 1..n /\ Top = stack[n]
      /\ world \in World /\ Top.atCall \in World /\ stack[1].entry \in World
  BY <1>1, TopIsFrame DEF Inv, Books, Top
<1>3. /\ since(world) /\ since(Top.atCall)
      /\ n > 1 => since(Top.entry)
  BY <1>1, <1>2 DEF TxInv
<1>4. /\ Finish(Top.fn, world) \in World
      /\ Finish(Top.fn, Top.atCall) \in World
  BY <1>1, TopIsFrame, FinishKeepsBooks DEF Inv, Books
<1>5. since(Finish(Top.fn, world)) /\ since(Finish(Top.fn, Top.atCall))
  BY <1>2, <1>3, <1>4, FinishAlike, SinceGoesOn
<1>6. \/ world' = Finish(Top.fn, world)
      \/ world' = Finish(Top.fn, Top.atCall)
      \/ world' = Top.entry
  BY DEF CallEnds, CalleeReturns, CalleeFails, OutOfGas
<1> QED
  BY <1>2, <1>3, <1>5, <1>6

LEMMA TxPop ==
    ASSUME Inv, Inv', TxInv, CallEnds
    PROVE  TxInv'
<1> SUFFICES ASSUME stack' # <<>>
             PROVE  TxInv'
  BY DEF TxInv
<1>1. stack # <<>> /\ stack' = Pop
  BY DEF CallEnds, CalleeReturns, CalleeFails, OutOfGas
<1>2. /\ Len(stack') = Len(stack) - 1 /\ Len(stack) \in Nat
      /\ \A i \in 1..(Len(stack) - 1) : stack'[i] = stack[i]
  BY <1>1, PopProperties, TopIsFrame
<1>3. Len(stack') # 0
  BY EmptySeq DEF Inv
<1>4. Len(stack) > 1 /\ stack'[1] = stack[1]
  BY <1>2, <1>3
<1>5. Since(stack[1].fn, stack[1].entry, world')
  <2>1. Len(stack) # 1
    BY <1>2, <1>4
  <2> QED
    BY <2>1, TxEndsWhere
<1> QED
  BY <1>1, <1>2, <1>4, <1>5 DEF TxInv

\* The owner's functions move no request.
LEMMA OwnerAlike ==
    ASSUME Inv, OwnerCall
    PROVE  Alike(world, world')
<1>1. Books(world) /\ world \in World
  BY DEF Inv, Books
<1>2. ASSUME NEW args \in ResetArgs, Reset(args)
      PROVE  Alike(world, world')
  BY <1>1, <1>2, AlikeReset DEF Reset
<1>3. CASE \/ \E a \in NewVersions : Upgrade(a)
           \/ Suspend \/ Restart \/ Withdraw
  <2>1. /\ world'.requests = world.requests
        /\ world'.callbacks = world.callbacks
        /\ world'.requestCnt = world.requestCnt
        /\ world'.CANCELLATION_FEE = world.CANCELLATION_FEE
    BY <1>1, <1>3 DEF Upgrade, Suspend, Restart, Withdraw, ExternalCall, World
  <2> QED
    BY <2>1, AlikeKept
<1> QED
  BY <1>2, <1>3 DEF OwnerCall

LEMMA TxOwnerCall ==
    ASSUME Inv, Inv', TxInv, OwnerCall
    PROVE  TxInv'
<1>1. Alike(world, world')
  BY OwnerAlike
<1>2. UNCHANGED stack \/ ExternalCall("withdraw", Owner, world')
  BY DEF OwnerCall, Upgrade, Reset, Suspend, Restart, Withdraw, ExternalCall
<1>3. Since("withdraw", world, world')
  BY <1>1, AlikeIsRequester DEF Since
<1> QED
  BY <1>1, <1>2, <1>3, TxStay, TxPush

\* request and cancel submit and withdraw.
LEMMA RequesterMoves ==
    ASSUME Inv, RequesterCall
    PROVE  RequesterSince(world, world')
<1>1. Books(world) /\ world \in World
  BY DEF Inv, Books
<1>2. ASSUME NEW c \in Accounts, NEW v \in Values, RequestRefused(c, v)
      PROVE  RequesterSince(world, world')
  <2>1. /\ world'.requests = world.requests
        /\ world'.callbacks = world.callbacks
        /\ world'.requestCnt = world.requestCnt
        /\ world'.CANCELLATION_FEE = world.CANCELLATION_FEE
    BY <1>1, <1>2 DEF RequestRefused, ExternalCall, World
  <2> QED
    BY <2>1, AlikeKept, AlikeIsRequester
<1>3. ASSUME NEW c \in Accounts, NEW v \in Values, NEW cb \in Accounts,
             NEW p \in Params, RequestRecorded(c, v, cb, p)
      PROVE  RequesterSince(world, world')
  <2>1. v \in Nat
    BY NumbersAssumption
  <2> QED
    BY <1>1, <1>3, <2>1, RecordedMoves DEF RequestRecorded
<1>4. ASSUME NEW c \in Accounts, NEW id \in RequestIds, Cancel(c, id)
      PROVE  RequesterSince(world, world')
  BY <1>1, <1>4, CancelledMoves DEF Cancel, ExternalCall
<1> QED
  BY <1>2, <1>3, <1>4 DEF RequesterCall

\* They never do so inside a transaction of SGX, which holds the lock.
LEMMA TxRequesterCall ==
    ASSUME Inv, Inv', LockInv, TxInv, RequesterCall
    PROVE  TxInv'
<1>1. RequesterSince(world, world')
  BY RequesterMoves
<1>2. /\ ~world.externalCallFlag
      /\ \/ UNCHANGED stack
         \/ \E fn \in {"request", "cancel"} : \E to : ExternalCall(fn, to, world')
  BY DEF RequesterCall, RequestRefused, RequestRecorded, Cancel, ExternalCall
<1>3. stack # <<>> => stack[1].fn # "deliver"
  BY <1>2, DeliveryHoldsLock
<1>4. CASE UNCHANGED stack
  BY <1>1, <1>3, <1>4, TxStay
<1>5. ASSUME NEW fn \in {"request", "cancel"}, NEW to,
             ExternalCall(fn, to, world')
      PROVE  TxInv'
  <2>1. Since(fn, world, world')
    BY <1>1 DEF Since
  <2> QED
    BY <1>1, <1>3, <1>5, <2>1, TxPush
<1> QED
  BY <1>2, <1>4, <1>5

\* The answer to a pending request closes it before the callback runs.
LEMMA AnswerMoves ==
    ASSUME Inv, NEW id \in RequestIds, NEW p, NEW error, NEW accepted,
           DeliverAnswer(id, p, error, accepted)
    PROVE  ResponseSince(world, world')
<1>1. /\ Books(world) /\ world \in World
      /\ world.requests \in [RequestIds -> Request]
      /\ world.callbacks \in [RequestIds -> Nat]
  BY DEF Inv, Books, World
<1>2. id \in Open(world) /\ world.requests[id].fee # CANCELLED_FEE_FLAG
  BY DEF DeliverAnswer, Deliverable, Open
<1>3. world' = [FeePaid(world, id, error, accepted) EXCEPT
                   !.externalCallFlag = TRUE, !.callbacks[id] = @ + 1]
  BY DEF DeliverAnswer, ExternalCall
<1>4. /\ world'.requests = [world.requests EXCEPT ![id].fee = DELIVERED_FEE_FLAG]
      /\ world'.requestCnt = world.requestCnt
      /\ world'.CANCELLATION_FEE = world.CANCELLATION_FEE
      /\ world'.callbacks = [world.callbacks EXCEPT ![id] = @ + 1]
  <2>1. CASE error < 2 \/ accepted
    BY <1>1, <1>3, <2>1 DEF FeePaid, Responded, World
  <2>2. CASE ~(error < 2 \/ accepted)
    BY <1>1, <1>3, <2>2 DEF FeePaid, Responded, World
  <2> QED
    BY <2>1, <2>2
<1> QED
  BY <1>1, <1>2, <1>4, RespondedMoves

\* The answer to a cancelled request settles it at once.
LEMMA SettlementMoves ==
    ASSUME Inv, NEW id \in RequestIds, NEW p, DeliverCancelled(id, p)
    PROVE  ResponseSince(world, world')
<1>1. /\ Books(world) /\ world \in World
      /\ world.requests \in [RequestIds -> Request]
  BY DEF Inv, Books, World
<1>2. id \in Open(world) /\ world.requests[id].fee = CANCELLED_FEE_FLAG
  BY DEF DeliverCancelled, Deliverable, Open
<1>3. /\ world'.requests = [world.requests EXCEPT ![id].fee = DELIVERED_FEE_FLAG]
      /\ world'.requestCnt = world.requestCnt
      /\ world'.CANCELLATION_FEE = world.CANCELLATION_FEE
      /\ world'.callbacks = world.callbacks
  BY <1>1 DEF DeliverCancelled, Responded, World
<1> QED
  BY <1>1, <1>2, <1>3, RespondedMoves

LEMMA DeliverMoves ==
    ASSUME Inv, Deliver
    PROVE  ResponseSince(world, world')
BY AnswerMoves, SettlementMoves DEF Deliver

LEMMA TxDeliver ==
    ASSUME Inv, Inv', TxInv, Deliver
    PROVE  TxInv'
<1>1. ResponseSince(world, world')
  BY DeliverMoves
<1>2. /\ stack = <<>>
      /\ \/ UNCHANGED stack
         \/ \E to : ExternalCall("deliver", to, world')
  BY DEF Deliver, DeliverCancelled, DeliverAnswer, ExternalCall
<1>3. Since("deliver", world, world')
  BY <1>1 DEF Since
<1> QED
  BY <1>2, <1>3, TxStay, TxPush

LEMMA ForceEtherAlike ==
    ASSUME Inv, NEW v \in Values, ForceEther(v)
    PROVE  Alike(world, world')
<1>1. world \in World
  BY DEF Inv, Books
<1>2. /\ world'.requests = world.requests
      /\ world'.callbacks = world.callbacks
      /\ world'.requestCnt = world.requestCnt
      /\ world'.CANCELLATION_FEE = world.CANCELLATION_FEE
  BY <1>1 DEF ForceEther, World
<1> QED
  BY <1>2, AlikeKept

LEMMA TxNext ==
    ASSUME Inv, Inv', LockInv, TxInv, [Next]_vars
    PROVE  TxInv'
<1>1. CASE OwnerCall
  BY <1>1, TxOwnerCall
<1>2. CASE RequesterCall
  BY <1>2, TxRequesterCall
<1>3. CASE Deliver
  BY <1>3, TxDeliver
<1>4. CASE CallEnds
  BY <1>4, TxPop
<1>5. CASE \E v \in Values : ForceEther(v)
  BY <1>5, ForceEtherAlike, TxStay DEF ForceEther
<1>6. CASE UNCHANGED vars
  BY <1>6 DEF vars, TxInv
<1> QED
  BY <1>1, <1>2, <1>3, <1>4, <1>5, <1>6 DEF Next

\* The world of the last completed transaction moves by one escrow step.
LEMMA EscrowStep ==
    ASSUME Books(Committed'),
           \/ RequesterSince(Committed, Committed')
           \/ ResponseSince(Committed, Committed')
           \/ Committed' = Committed
    PROVE  [Escrow!Next]_(Escrow!escrowVars)
<1> DEFINE w == Committed
           x == Committed'
           st(y) == [id \in Ids |-> StatusIn(y, id)]
           hd(y) == [id \in Ids |-> Claim(y, id)]
<1>1. Escrow!InOrder(st(x))
  <2>1. x.requestCnt \in Nat /\ Ids \subseteq Int
    BY NumbersAssumption DEF Books, World, Ids, RequestIds
  <2>2. \A id \in Ids : StatusIn(x, id) # "none" <=> ~(id >= x.requestCnt)
    BY DEF StatusIn
  <2> QED
    BY <2>1, <2>2 DEF Escrow!InOrder, Ids
<1>2. CASE x = w
  BY <1>2 DEF Escrow!escrowVars
<1>3. CASE RequesterSince(w, x)
  <2>1. \A id \in Ids : \/ Escrow!Same(id)
                        \/ Escrow!Submitted(id)
                        \/ Escrow!Withdrawn(id)
    BY <1>3 DEF RequesterSince, Moved, Unmoved, Escrow!Same,
       Escrow!Submitted, Escrow!Withdrawn, Ids
  <2>2. Escrow!RequesterTx
    BY <2>1 DEF Escrow!RequesterTx, Ids
  <2> QED
    BY <1>1, <2>2 DEF Escrow!Next, Ids
<1>4. CASE ResponseSince(w, x)
  <2>1. PICK id \in Ids : /\ Answered(w, x, id)
                          /\ \A other \in Ids \ {id} : Unmoved(w, x, other)
    BY <1>4 DEF ResponseSince
  <2>2. Escrow!Closed(id)
    BY <2>1 DEF Answered, Escrow!Closed, Ids
  <2>3. \A other \in Ids \ {id} : Escrow!Same(other)
    BY <2>1 DEF Unmoved, Escrow!Same, Ids
  <2>4. \E i \in RequestIds \ {0} : Escrow!ResponseTx(i)
    BY <2>2, <2>3 DEF Escrow!ResponseTx, Ids
  <2> QED
    BY <1>1, <2>4 DEF Escrow!Next, Ids
<1> QED
  BY <1>2, <1>3, <1>4

\* A step inside a transaction leaves its beginning in place.
LEMMA BeginningKept ==
    ASSUME Inv, stack # <<>>, [Next]_vars, stack' # <<>>
    PROVE  Committed' = Committed
<1>1. stack \in Seq(Frame) /\ Len(stack) \in Nat \ {0}
  BY TopIsFrame DEF Inv
<1>2. CASE stack' = stack
  BY <1>2 DEF Committed
<1>3. CASE \E fn, to, w : ExternalCall(fn, to, w)
  BY <1>1, <1>3 DEF ExternalCall, Committed
<1>4. CASE stack' = Pop
  <2>1. /\ Pop \in Seq(Frame) /\ Len(Pop) = Len(stack) - 1
        /\ \A i \in 1..(Len(stack) - 1) : Pop[i] = stack[i]
    BY PopProperties
  <2>2. Len(Pop) # 0
    BY <1>4, <2>1, EmptySeq
  <2>3. Pop[1] = stack[1]
    BY <1>1, <2>1, <2>2
  <2> QED
    BY <1>4, <2>3 DEF Committed
<1>5. stack' = stack \/ (\E fn, to, w : ExternalCall(fn, to, w)) \/ stack' = Pop
  BY DEF Next, vars, OwnerCall, Upgrade, Reset, Suspend, Restart, Withdraw,
     RequesterCall, RequestRefused, RequestRecorded, Cancel, Deliver,
     DeliverCancelled, DeliverAnswer, CallEnds, CalleeReturns, CalleeFails,
     OutOfGas, ForceEther
<1> QED
  BY <1>2, <1>3, <1>4, <1>5

\* Every step of the contract is a step of the escrow or leaves it alone.
LEMMA NextEscrow ==
    ASSUME Inv, Inv', TxInv, [Next]_vars
    PROVE  [Escrow!Next]_(Escrow!escrowVars)
<1>1. Books(world) /\ Books(world')
  BY DEF Inv
<1>2. CASE stack # <<>> /\ stack' # <<>>
  <2>1. Committed' = Committed
    BY <1>2, BeginningKept
  <2> QED
    BY <2>1 DEF Escrow!escrowVars
<1>3. CASE stack # <<>> /\ stack' = <<>>
  <2>0. \A fn, to, w : ~ExternalCall(fn, to, w)
    <3>1. stack \in Seq(Frame)
      BY DEF Inv
    <3> QED
      BY <1>3, <3>1 DEF ExternalCall
  <2>1. CallEnds
    BY <1>3, <2>0 DEF Next, vars, OwnerCall, Upgrade, Reset, Suspend, Restart,
       Withdraw, RequesterCall, RequestRefused, RequestRecorded, Cancel,
       Deliver, DeliverCancelled, DeliverAnswer, ForceEther
  <2>2. \/ Since(stack[1].fn, stack[1].entry, world')
        \/ world' = stack[1].entry
    BY <2>1, TxEndsWhere
  <2>3. Committed = stack[1].entry /\ Committed' = world'
    BY <1>3 DEF Committed
  <2> QED
    BY <1>1, <2>2, <2>3, EscrowStep DEF Since
<1>4. CASE stack = <<>> /\ stack' # <<>>
  <2>1. PICK fn, to, w : ExternalCall(fn, to, w)
    BY <1>4 DEF Next, vars, OwnerCall, Upgrade, Reset, Suspend, Restart,
       Withdraw, RequesterCall, RequestRefused, RequestRecorded, Cancel,
       Deliver, DeliverCancelled, DeliverAnswer, ForceEther, CallEnds,
       CalleeReturns, CalleeFails, OutOfGas
  <2>2. Committed' = Committed
    BY <1>4, <2>1 DEF ExternalCall, Committed
  <2> QED
    BY <2>2 DEF Escrow!escrowVars
<1>5. CASE stack = <<>> /\ stack' = <<>>
  <2>1. Committed = world /\ Committed' = world'
    BY <1>5 DEF Committed
  <2>2. ~CallEnds
    BY <1>5 DEF CallEnds, CalleeReturns, CalleeFails, OutOfGas
  <2>3. \/ RequesterSince(world, world')
        \/ ResponseSince(world, world')
        \/ world' = world
    BY <2>2, OwnerAlike, RequesterMoves, DeliverMoves, ForceEtherAlike,
       AlikeIsRequester DEF Next, vars
  <2> QED
    BY <1>1, <2>1, <2>3, EscrowStep
<1> QED
  BY <1>2, <1>3, <1>4, <1>5

\* The contract is, between transactions, one escrow per request: no
\* interleaving of nested calls, failures and rollbacks takes a request off
\* its one-way life or lets a response touch another request.
THEOREM RefinesEscrow ==
    ASSUME FlagsDistinct
    PROVE  Spec => ImplementsEscrow
<1>1. Init => Escrow!Init
  <2> SUFFICES ASSUME Init
               PROVE  Escrow!Init
    OBVIOUS
  <2>1. /\ Committed = world /\ world.requestCnt = 1
        /\ \A id \in RequestIds : world.requests[id].fee = 0
    BY DEF Init, Committed
  <2>2. \A id \in Ids : id >= 1
    BY NumbersAssumption DEF Ids, RequestIds
  <2>3. \A id \in Ids : StatusIn(world, id) = "none" /\ Claim(world, id) = 0
    BY <2>1, <2>2 DEF StatusIn, Claim, Ids, CANCELLED_FEE_FLAG
  <2> QED
    BY <2>1, <2>3 DEF Escrow!Init, Ids
<1>2. Init => LockInv /\ TxInv
  BY DEF Init, LockInv, TxInv
<1>3. Inv /\ Inv' /\ LockInv /\ TxInv /\ [Next]_vars => LockInv' /\ TxInv'
  BY LockNext, TxNext
<1>4. Inv /\ Inv' /\ TxInv /\ [Next]_vars => [Escrow!Next]_(Escrow!escrowVars)
  BY NextEscrow
<1> QED
  BY <1>1, <1>2, <1>3, <1>4, Invariance, PTL
     DEF Spec, ImplementsEscrow, Escrow!Spec
=============================================================================
