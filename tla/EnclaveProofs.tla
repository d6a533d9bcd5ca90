--------------------------- MODULE EnclaveProofs ---------------------------
(***************************************************************************)
(* Proofs about what the enclave does with a request.  Part one is about   *)
(* the download and the answer (HttpsClient, RequestHandler), for every    *)
(* reply that fits the parser's int, however the stream is cut; part two   *)
(* about a flight query (FlightQuery), for words of every width that holds *)
(* the delay: in particular for the 64 and 32 bits of the program, which   *)
(* the numbers of TLC do not reach; part three about the transaction that  *)
(* carries the answer (DeliverTransaction), for all numbers, hashes and    *)
(* responses: decoders read back what the encoders write.                  *)
(*                                                                         *)
(* The parts of a reply are recursive functions.  Induction over the       *)
(* natural numbers is stated with sets (Induction), and the existence of a *)
(* recursive function as well (Recursion).                                 *)
(***************************************************************************)
EXTENDS RequestHandler, FlightQuery, DeliverTransaction, FiniteSetTheorems,
        SequenceTheorems, WellFoundedInduction, TLAPS

-----------------------------------------------------------------------------
(* Induction, and sequences joined to one.                                 *)

\* Induction: a set of numbers with 0 and every successor has all of them.
LEMMA Induction ==
    ASSUME NEW S, 0 \in S, \A n \in Nat : n \in S => n + 1 \in S
    PROVE  \A n \in Nat : n \in S
<1> SUFFICES ASSUME Nat \ S # {} PROVE FALSE
  OBVIOUS
<1> DEFINE T == Nat \ S
<1>1. T \in SUBSET Nat /\ T # {}
  OBVIOUS
<1>2. PICK x \in T : \A y \in T : ~(<<y, x>> \in OpToRel(<, Nat))
  <2> HIDE DEF T
  <2> QED
    BY <1>1, NatLessThanWellFounded, WFMin
<1>3. x \in Nat /\ x # 0 /\ x - 1 \in Nat /\ x - 1 < x
  OBVIOUS
<1>4. x - 1 \notin T
  BY <1>2, <1>3, Zenon DEF OpToRel
<1>5. x - 1 \in S
  BY <1>3, <1>4
<1>6. (x - 1) + 1 \in S
  BY <1>3, <1>5
<1> QED
  BY <1>3, <1>6

\* f is defined by recursion over 0..n: from c, by steps G.
Recursive(f, S, c, G, n) ==
    /\ f \in [0..n -> S]
    /\ f[0] = c
    /\ \A i \in 1..n : f[i] = G[<<f[i - 1], i>>]

\* Such a function exists.
LEMMA Recursion ==
    ASSUME NEW S, NEW c \in S, NEW G \in [S \X Nat -> S], NEW n \in Nat
    PROVE  \E f : Recursive(f, S, c, G, n)
<1> DEFINE Good(m, f) == f[0] = c /\ \A i \in 1..m : f[i] = G[<<f[i - 1], i>>]
           T == {m \in Nat : \E f \in [0..m -> S] : Good(m, f)}
<1>1. 0 \in T
  <2>1. [i \in 0..0 |-> c] \in [0..0 -> S] /\ Good(0, [i \in 0..0 |-> c])
    OBVIOUS
  <2> QED
    BY <2>1
<1>2. ASSUME NEW m \in Nat, m \in T
      PROVE  m + 1 \in T
  <2>1. PICK f \in [0..m -> S] : Good(m, f)
    BY <1>2
  <2> DEFINE g == [i \in 0..(m + 1) |-> IF i = m + 1 THEN G[<<f[m], m + 1>>] ELSE f[i]]
  <2>2. G[<<f[m], m + 1>>] \in S
    OBVIOUS
  <2>3. g \in [0..(m + 1) -> S]
    BY <2>2
  <2>4. \A i \in 0..m : g[i] = f[i]
    OBVIOUS
  <2>5. g[m + 1] = G[<<g[m], m + 1>>]
    <3>1. m + 1 \in 0..(m + 1) /\ m \in 0..m
      OBVIOUS
    <3>2. g[m + 1] = G[<<f[m], m + 1>>]
      BY <3>1
    <3> QED
      BY <3>1, <3>2, <2>4
  <2> HIDE DEF g
  <2>6. ASSUME NEW i \in 1..(m + 1)
        PROVE  g[i] = G[<<g[i - 1], i>>]
    <3>1. CASE i = m + 1
      <4>1. (m + 1) - 1 = m
        OBVIOUS
      <4> QED
        BY <2>5, <3>1, <4>1
    <3>2. CASE i # m + 1
      <4>1. i \in 1..m /\ i \in 0..m /\ i - 1 \in 0..m
        BY <3>2
      <4>2. f[i] = G[<<f[i - 1], i>>]
        BY <2>1, <4>1
      <4> QED
        BY <2>4, <4>1, <4>2
    <3> QED
      BY <3>1, <3>2
  <2>7. Good(m + 1, g)
    <3>1. 0 \in 0..m
      OBVIOUS
    <3>2. g[0] = c
      BY <2>1, <2>4, <3>1
    <3> QED
      BY <3>2, <2>6
  <2>8. m + 1 \in Nat
    OBVIOUS
  <2> QED
    BY <2>3, <2>7, <2>8
<1>3. n \in T
  <2> HIDE DEF T
  <2> QED
    BY <1>1, <1>2, Induction
<1> QED
  BY <1>3 DEF Recursive

\* Joined has its equation, and its type.
LEMMA JoinedEquation ==
    ASSUME NEW S, NEW ss \in Seq(Seq(S))
    PROVE  /\ Joined(ss) \in [0..Len(ss) -> Seq(S)]
           /\ Joined(ss)[0] = <<>>
           /\ \A i \in 1..Len(ss) : Joined(ss)[i] = Joined(ss)[i - 1] \o ss[i]
<1> DEFINE G == [x \in Seq(S) \X Nat |-> IF x[2] \in 1..Len(ss) THEN x[1] \o ss[x[2]] ELSE x[1]]
           Rec(f) == [i \in 0..Len(ss) |-> IF i = 0 THEN <<>> ELSE f[i - 1] \o ss[i]]
           D == 0..Len(ss)
<1>1. G \in [Seq(S) \X Nat -> Seq(S)]
  <2>1. ASSUME NEW x \in Seq(S) \X Nat
        PROVE  (IF x[2] \in 1..Len(ss) THEN x[1] \o ss[x[2]] ELSE x[1]) \in Seq(S)
    <3>1. CASE x[2] \in 1..Len(ss)
      <4>1. ss[x[2]] \in Seq(S)
        BY <3>1
      <4> QED
        BY <3>1, <4>1, ConcatProperties
    <3> QED
      BY <3>1
  <2> QED
    BY <2>1
<1>2. Len(ss) \in Nat /\ <<>> \in Seq(S)
  OBVIOUS
<1>3. PICK f : Recursive(f, Seq(S), <<>>, G, Len(ss))
  <2> HIDE DEF G
  <2> QED
    BY <1>1, <1>2, Recursion
<1>4. \A i \in 1..Len(ss) : f[i] = f[i - 1] \o ss[i]
  <2> SUFFICES ASSUME NEW i \in 1..Len(ss) PROVE f[i] = f[i - 1] \o ss[i]
    OBVIOUS
  <2>1. i - 1 \in D /\ i \in Nat
    BY <1>2
  <2>2. f[i - 1] \in Seq(S) /\ f[i] = G[<<f[i - 1], i>>]
    BY <1>3, <2>1 DEF Recursive
  <2>3. <<f[i - 1], i>> \in Seq(S) \X Nat
    BY <2>1, <2>2
  <2>4. G[<<f[i - 1], i>>] = f[i - 1] \o ss[i]
    BY <2>3
  <2> QED
    BY <2>2, <2>4
<1>5. f = Rec(f)
  <2>1. ASSUME NEW i \in D
        PROVE  f[i] = IF i = 0 THEN <<>> ELSE f[i - 1] \o ss[i]
    <3>1. CASE i = 0
      BY <1>3, <3>1 DEF Recursive
    <3>2. CASE i # 0
      <4>1. i \in 1..Len(ss)
        BY <1>2, <3>2
      <4> QED
        BY <1>4, <3>2, <4>1
    <3> QED
      BY <3>1, <3>2
  <2>2. f = [i \in D |-> f[i]]
    BY <1>3 DEF Recursive
  <2> QED
    BY <2>1, <2>2
<1>6. Joined(ss) = CHOOSE g : g = Rec(g)
  BY DEF Joined
<1>7. Joined(ss) = Rec(Joined(ss))
  <2> HIDE DEF Rec
  <2> QED
    BY <1>5, <1>6
<1> DEFINE J == Joined(ss)
<1>8. J = Rec(J)
  BY <1>7
<1> HIDE DEF J
<1>9. DOMAIN J = D /\ J[0] = <<>> /\ \A i \in 1..Len(ss) : J[i] = J[i - 1] \o ss[i]
  <2>1. DOMAIN J = D
    BY <1>8
  <2>2. 0 \in D /\ \A i \in 1..Len(ss) : i \in D /\ i # 0
    BY <1>2
  <2>3. ASSUME NEW i \in D
        PROVE  J[i] = IF i = 0 THEN <<>> ELSE J[i - 1] \o ss[i]
    BY <1>8
  <2> QED
    BY <2>1, <2>2, <2>3
<1> DEFINE T == {i \in Nat : i <= Len(ss) => J[i] \in Seq(S)}
<1>10. 0 \in T
  BY <1>9, <1>2
<1>11. ASSUME NEW i \in Nat, i \in T
       PROVE  i + 1 \in T
  <2>1. SUFFICES ASSUME i + 1 <= Len(ss) PROVE J[i + 1] \in Seq(S)
    OBVIOUS
  <2>2. J[i] \in Seq(S) /\ i + 1 \in 1..Len(ss)
    BY <1>11, <1>2, <2>1
  <2>3. (i + 1) - 1 = i
    OBVIOUS
  <2>5. J[i + 1] = J[i] \o ss[i + 1]
    BY <1>9, <2>2, <2>3, Zenon
  <2>4. ss[i + 1] \in Seq(S)
    BY <2>2
  <2> QED
    BY <2>2, <2>5, <2>4, ConcatProperties
<1>12. \A i \in Nat : i \in T
  <2> HIDE DEF T
  <2> QED
    BY <1>10, <1>11, Induction
<1>13. J = [i \in D |-> J[i]]
  BY <1>8
<1>14. J \in [D -> Seq(S)]
  BY <1>12, <1>13, <1>2
<1> QED
  BY <1>9, <1>14 DEF J

\* Where the sequences of ss begin in Concat(ss).
Starts(ss) == [k \in 0..Len(ss) |-> Len(Joined(ss)[k])]

\* Concat(ss) has the items of each sequence at its place.
LEMMA ConcatIndex ==
    ASSUME NEW S, NEW ss \in Seq(Seq(S))
    PROVE  /\ Starts(ss) \in [0..Len(ss) -> Nat] /\ Starts(ss)[0] = 0
           /\ \A k \in 1..Len(ss) : Starts(ss)[k] = Starts(ss)[k - 1] + Len(ss[k])
           /\ Concat(ss) \in Seq(S) /\ Len(Concat(ss)) = Starts(ss)[Len(ss)]
           /\ \A k \in 1..Len(ss) : \A j \in 1..Len(ss[k]) :
                  /\ Starts(ss)[k - 1] + j <= Len(Concat(ss))
                  /\ Concat(ss)[Starts(ss)[k - 1] + j] = ss[k][j]
           /\ \A k \in 0..Len(ss) : Starts(ss)[k] <= Len(Concat(ss))
<1> DEFINE J == Joined(ss)
           n == Len(ss)
           at == Starts(ss)
<1>1. /\ J \in [0..n -> Seq(S)] /\ J[0] = <<>>
      /\ \A i \in 1..n : J[i] = J[i - 1] \o ss[i]
  BY JoinedEquation
<1>2. n \in Nat /\ \A k \in 1..n : ss[k] \in Seq(S) /\ Len(ss[k]) \in Nat
  OBVIOUS
<1>3. at \in [0..n -> Nat] /\ \A k \in 0..n : at[k] = Len(J[k])
  <2> HIDE DEF J
  <2>1. at = [k \in 0..n |-> Len(J[k])]
    BY DEF Starts, J
  <2> HIDE DEF at
  <2>2. \A k \in 0..n : Len(J[k]) \in Nat
    BY <1>1
  <2> QED
    BY <2>1, <2>2
<1>4. Concat(ss) = J[n]
  BY DEF Concat
<1> HIDE DEF J, n, at
<1>5. \A k \in 1..n : k \in 0..n /\ k - 1 \in 0..n
  BY <1>2
<1>6. ASSUME NEW k \in 1..n
      PROVE  at[k] = at[k - 1] + Len(ss[k])
  <2>1. J[k] = J[k - 1] \o ss[k] /\ J[k - 1] \in Seq(S) /\ ss[k] \in Seq(S)
    BY <1>1, <1>2, <1>5
  <2>2. Len(J[k]) = Len(J[k - 1]) + Len(ss[k])
    BY <2>1, ConcatProperties
  <2> QED
    BY <1>3, <1>5, <2>2
<1>7. at[0] = 0
  BY <1>1, <1>2, <1>3
<1> DEFINE T == {m \in Nat : m <= n =>
                     \A k \in 1..m : \A j \in 1..Len(ss[k]) :
                         at[k - 1] + j <= at[m] /\ J[m][at[k - 1] + j] = ss[k][j]}
<1>8. 0 \in T
  OBVIOUS
<1>9. ASSUME NEW m \in Nat, m \in T
      PROVE  m + 1 \in T
  <2>1. SUFFICES ASSUME m + 1 <= n, NEW k \in 1..(m + 1), NEW j \in 1..Len(ss[k])
                 PROVE  /\ at[k - 1] + j <= at[m + 1]
                        /\ J[m + 1][at[k - 1] + j] = ss[k][j]
    OBVIOUS
  <2>2. m + 1 \in 1..n /\ (m + 1) - 1 = m /\ m \in 0..n /\ m + 1 \in 0..n
    BY <2>1, <1>2
  <2>3. /\ J[m + 1] = J[m] \o ss[m + 1] /\ J[m] \in Seq(S) /\ ss[m + 1] \in Seq(S)
        /\ at[m + 1] = at[m] + Len(ss[m + 1]) /\ at[m] = Len(J[m])
        /\ at[m] \in Nat /\ Len(ss[m + 1]) \in Nat
    BY <1>1, <1>2, <1>3, <1>6, <2>2
  <2>4. \A i \in 1..(Len(J[m]) + Len(ss[m + 1])) :
            J[m + 1][i] = IF i <= Len(J[m]) THEN J[m][i] ELSE ss[m + 1][i - Len(J[m])]
    BY <2>3, ConcatProperties
  <2>5. CASE k = m + 1
    <3>1. at[k - 1] = at[m]
      BY <2>2, <2>5
    <3>2. at[m] + j \in 1..(Len(J[m]) + Len(ss[m + 1])) /\ ~(at[m] + j <= Len(J[m]))
          /\ (at[m] + j) - Len(J[m]) = j /\ at[m] + j <= at[m + 1]
      <4>1. j \in 1..Len(ss[m + 1])
        BY <2>5
      <4> DEFINE y == at[m] z == Len(ss[m + 1]) w == at[m + 1]
      <4>2. y \in Nat /\ z \in Nat /\ w = y + z /\ j \in 1..z /\ Len(J[m]) = y
        BY <2>3, <4>1
      <4> HIDE DEF y, z, w
      <4>3. y + j \in 1..(y + z) /\ ~(y + j <= y) /\ (y + j) - y = j /\ y + j <= w
        BY <4>2
      <4> QED
        BY <4>2, <4>3 DEF y, z, w
    <3> QED
      BY <2>4, <2>5, <3>1, <3>2
  <2>6. CASE k # m + 1
    <3>1. k \in 1..m /\ m <= n /\ k \in 1..n
      BY <1>2, <2>1, <2>6
    <3>2. at[k - 1] + j <= at[m] /\ J[m][at[k - 1] + j] = ss[k][j]
      BY <1>9, <3>1
    <3>3. at[k - 1] \in Nat /\ j \in Nat \ {0}
      <4>1. k - 1 \in 0..n /\ Len(ss[k]) \in Nat
        BY <1>2, <1>5, <3>1
      <4> QED
        BY <1>3, <4>1
    <3>4. at[k - 1] + j \in 1..(Len(J[m]) + Len(ss[m + 1])) /\ at[k - 1] + j <= Len(J[m])
          /\ at[k - 1] + j <= at[m + 1]
      <4> DEFINE x == at[k - 1] y == at[m] z == Len(ss[m + 1]) w == at[m + 1]
      <4>1. x \in Nat /\ y \in Nat /\ z \in Nat /\ w = y + z /\ x + j <= y
            /\ j \in Nat \ {0} /\ Len(J[m]) = y
        BY <2>3, <3>2, <3>3
      <4> HIDE DEF x, y, z, w
      <4>2. x + j \in 1..(y + z) /\ x + j <= y /\ x + j <= w
        BY <4>1
      <4> QED
        BY <4>1, <4>2 DEF x, y, z, w
    <3>5. J[m + 1][at[k - 1] + j] = J[m][at[k - 1] + j]
      <4> DEFINE x == at[k - 1] + j
      <4>1. x \in 1..(Len(J[m]) + Len(ss[m + 1])) /\ x <= Len(J[m])
        BY <3>4
      <4> HIDE DEF x
      <4>2. J[m + 1][x] = J[m][x]
        BY <2>4, <4>1
      <4> QED
        BY <4>2 DEF x
    <3> QED
      BY <3>2, <3>4, <3>5
  <2> QED
    BY <2>5, <2>6
<1>10. \A m \in Nat : m \in T
  <2> HIDE DEF T
  <2> QED
    BY <1>8, <1>9, Induction
<1>11. \A k \in 1..n : \A j \in 1..Len(ss[k]) :
           at[k - 1] + j <= at[n] /\ J[n][at[k - 1] + j] = ss[k][j]
  <2>1. n \in T /\ n <= n
    <3> HIDE DEF T
    <3> QED
      BY <1>2, <1>10
  <2> QED
    BY <2>1
<1>12. n \in 0..n /\ J[n] \in Seq(S) /\ Len(J[n]) = at[n]
  BY <1>1, <1>2, <1>3
<1> DEFINE U == {m \in Nat : m <= n => at[n - m] <= at[n]}
<1>13. 0 \in U
  BY <1>2, <1>3
<1>14. ASSUME NEW m \in Nat, m \in U
       PROVE  m + 1 \in U
  <2>1. SUFFICES ASSUME m + 1 <= n PROVE at[n - (m + 1)] <= at[n]
    OBVIOUS
  <2>2. n - m \in 1..n /\ (n - m) - 1 = n - (m + 1) /\ n - (m + 1) \in 0..n /\ m <= n
        /\ n - m \in 0..n
    BY <2>1, <1>2
  <2>3. at[n - m] = at[n - (m + 1)] + Len(ss[n - m])
    BY <1>6, <2>2
  <2>4. at[n - m] \in Nat /\ at[n - (m + 1)] \in Nat /\ Len(ss[n - m]) \in Nat /\ at[n] \in Nat
    BY <1>2, <1>3, <1>12, <2>2
  <2>5. at[n - m] <= at[n]
    BY <1>14, <2>2
  <2> QED
    BY <2>3, <2>4, <2>5
<1>15. \A m \in Nat : m \in U
  <2> HIDE DEF U
  <2> QED
    BY <1>13, <1>14, Induction
<1>16. ASSUME NEW k \in 0..n
       PROVE  at[k] <= at[n]
  <2>1. n - k \in Nat /\ n - k <= n /\ n - (n - k) = k
    BY <1>2
  <2> QED
    BY <1>15, <2>1
<1> QED
  BY <1>3, <1>4, <1>6, <1>7, <1>11, <1>12, <1>16 DEF n, at

-----------------------------------------------------------------------------
(* Numbers as digits.                                                      *)

\* Division with remainder, by the bases in use.
LEMMA Division ==
    ASSUME NEW b \in {16, 256}
    PROVE  \A n \in Nat : /\ n \div b \in Nat /\ n % b \in 0..(b - 1)
                          /\ n = b * (n \div b) + (n % b)
<1>1. CASE b = 16
  <2>1. \A n \in Nat : /\ n \div 16 \in Nat /\ n % 16 \in 0..15
                       /\ n = 16 * (n \div 16) + (n % 16)
    OBVIOUS
  <2> QED
    BY <1>1, <2>1
<1>2. CASE b = 256
  <2>1. \A n \in Nat : /\ n \div 256 \in Nat /\ n % 256 \in 0..255
                       /\ n = 256 * (n \div 256) + (n % 256)
    OBVIOUS
  <2> QED
    BY <1>2, <2>1
<1> QED
  BY <1>1, <1>2

\* Each quotient is a number, that before it divided by the base.
Divided(n, b) ==
    /\ Quotients(n, b) \in [0..8 -> Nat]
    /\ Quotients(n, b)[0] = n
    /\ \A i \in 1..8 : Quotients(n, b)[i] = Quotients(n, b)[i - 1] \div b

\* Quotients is what it is defined to be.
LEMMA QuotientsEquation ==
    ASSUME NEW b \in {16, 256}, NEW n \in Nat
    PROVE  Divided(n, b)
<1> DEFINE G == [x \in Nat \X Nat |-> x[1] \div b]
           Rec(f) == [i \in 0..8 |-> IF i = 0 THEN n ELSE f[i - 1] \div b]
<1>1. \A m \in Nat : m \div b \in Nat
  BY Division
<1>2. G \in [Nat \X Nat -> Nat]
  BY <1>1
<1>3. PICK f : Recursive(f, Nat, n, G, 8)
  <2> DEFINE top == 8
  <2>1. top \in Nat
    OBVIOUS
  <2> HIDE DEF G, top
  <2>2. \E f : Recursive(f, Nat, n, G, top)
    BY <1>2, <2>1, Recursion
  <2> QED
    BY <2>2 DEF top
<1>4. f \in [0..8 -> Nat] /\ f[0] = n
  BY <1>3 DEF Recursive
<1>5. ASSUME NEW i \in 1..8
      PROVE  f[i] = f[i - 1] \div b
  <2>1. i - 1 \in 0..8 /\ i \in Nat
    OBVIOUS
  <2>2. f[i - 1] \in Nat /\ f[i] = G[<<f[i - 1], i>>]
    <3> HIDE DEF G
    <3>1. f[i - 1] \in Nat
      BY <1>4, <2>1
    <3>2. f[i] = G[<<f[i - 1], i>>]
      BY <1>3 DEF Recursive
    <3> QED
      BY <3>1, <3>2
  <2>3. <<f[i - 1], i>> \in Nat \X Nat
    BY <2>1, <2>2
  <2> QED
    BY <2>2, <2>3
<1>6. f = Rec(f)
  BY <1>4, <1>5
<1>7. Quotients(n, b) = CHOOSE g : g = Rec(g)
  BY DEF Quotients
<1>8. Quotients(n, b) = Rec(Quotients(n, b))
  <2> HIDE DEF Rec
  <2> QED
    BY <1>6, <1>7
<1> DEFINE Q == Quotients(n, b)
<1>9. Q = Rec(Q)
  BY <1>8
<1> HIDE DEF Q
<1>10. /\ DOMAIN Q = 0..8 /\ Q[0] = n
       /\ \A i \in 1..8 : Q[i] = Q[i - 1] \div b
  <2>1. ASSUME NEW i \in 0..8
        PROVE  Q[i] = IF i = 0 THEN n ELSE Q[i - 1] \div b
    BY <1>9
  <2>2. DOMAIN Q = 0..8
    BY <1>9
  <2> QED
    BY <2>1, <2>2
<1>11. ASSUME NEW i \in 1..8, Q[i - 1] \in Nat
       PROVE  Q[i] \in Nat
  BY <1>1, <1>10, <1>11
<1>12. /\ Q[1] = Q[0] \div b /\ Q[2] = Q[1] \div b /\ Q[3] = Q[2] \div b /\ Q[4] = Q[3] \div b
       /\ Q[5] = Q[4] \div b /\ Q[6] = Q[5] \div b /\ Q[7] = Q[6] \div b /\ Q[8] = Q[7] \div b
  BY <1>10
<1>13. \A i \in 0..8 : Q[i] \in Nat
  <2>1. Q[0] \in Nat
    BY <1>10
  <2>2. Q[1] \in Nat
    BY <1>1, <1>12, <2>1
  <2>3. Q[2] \in Nat
    BY <1>1, <1>12, <2>2
  <2>4. Q[3] \in Nat
    BY <1>1, <1>12, <2>3
  <2>5. Q[4] \in Nat
    BY <1>1, <1>12, <2>4
  <2>6. Q[5] \in Nat
    BY <1>1, <1>12, <2>5
  <2>7. Q[6] \in Nat
    BY <1>1, <1>12, <2>6
  <2>8. Q[7] \in Nat
    BY <1>1, <1>12, <2>7
  <2>9. Q[8] \in Nat
    BY <1>1, <1>12, <2>8
  <2> QED
    BY <2>1, <2>2, <2>3, <2>4, <2>5, <2>6, <2>7, <2>8, <2>9
<1>14. Q = [i \in 0..8 |-> Q[i]]
  BY <1>9
<1>15. Q \in [0..8 -> Nat]
  BY <1>13, <1>14
<1> QED
  BY <1>10, <1>15 DEF Q, Divided

\* There is a first quotient that is zero.
LEMMA FirstZero ==
    ASSUME NEW b \in {16, 256}, NEW n \in Nat, NEW first \in {0, 1},
           Quotients(n, b)[8] = 0
    PROVE  \E d \in first..8 : /\ Quotients(n, b)[d] = 0
                               /\ \A i \in first..(d - 1) : Quotients(n, b)[i] # 0
<1> DEFINE Q == Quotients(n, b)
           T == {d \in first..8 : Q[d] = 0}
<1>1. T \in SUBSET Nat /\ T # {}
  OBVIOUS
<1>2. PICK d \in T : \A i \in T : ~(<<i, d>> \in OpToRel(<, Nat))
  <2> HIDE DEF T
  <2> QED
    BY <1>1, NatLessThanWellFounded, WFMin
<1>3. d \in first..8 /\ Q[d] = 0
  OBVIOUS
<1> HIDE DEF Q
<1>4. ASSUME NEW i \in first..(d - 1)
      PROVE  Q[i] # 0
  <2>1. i \in Nat /\ d \in Nat /\ i < d /\ i \in first..8
    BY <1>3
  <2>2. i \notin T
    BY <1>2, <2>1, Zenon DEF OpToRel
  <2> QED
    BY <2>1, <2>2
<1> QED
  BY <1>3, <1>4 DEF Q

-----------------------------------------------------------------------------
(* Sizes in hexadecimal.                                                   *)

\* What the parser has made of a size after j of its digits.
ValueAfter(n, j) == Quotients(n, 16)[Digits(n) - j]

\* The digits of a size that an int can hold: the first gives the first value,
\* each other one the next, and the last value is the size.
LEMMA SizeIsHex ==
    ASSUME NEW n \in Nat, n <= LargestInt
    PROVE  /\ Digits(n) \in Nat \ {0}
           /\ Len(Size(n)) = Digits(n)
           /\ \A j \in 1..Digits(n) :
                  /\ Size(n)[j].is = "byte" /\ Size(n)[j].n \in Nat
                  /\ Size(n)[j] = Line("byte", Size(n)[j].n)
                  /\ Hex(Size(n)[j].n) \in Nat
                  /\ ValueAfter(n, j) = IF j = 1 THEN Hex(Size(n)[1].n)
                                   ELSE 16 * ValueAfter(n, j - 1) + Hex(Size(n)[j].n)
                  /\ ValueAfter(n, j) \in Nat
           /\ ValueAfter(n, Digits(n)) = n
<1> DEFINE Q == Quotients(n, 16)
           d == Digits(n)
<1>1. Q \in [0..8 -> Nat] /\ Q[0] = n /\ \A i \in 1..8 : Q[i] = Q[i - 1] \div 16
  <2> DEFINE b == 16
  <2>1. b \in {16, 256}
    OBVIOUS
  <2> HIDE DEF b, Q, d
  <2>2. Divided(n, b)
    BY <2>1, QuotientsEquation
  <2> QED
    BY <2>2 DEF Divided, b, Q
<1>2. d = CHOOSE k \in 1..8 : Q[k] = 0 /\ \A i \in 1..(k - 1) : Q[i] # 0
  BY DEF Digits
<1> HIDE DEF Q, d
<1>3. Q[8] = 0
  <2>1. ASSUME NEW x \in Nat, x <= LargestInt
        PROVE  x < 2147483648
    BY SMT, <2>1 DEF LargestInt
  <2>2. ASSUME NEW x \in Nat
        PROVE  /\ x \div 16 \in Nat
               /\ x < 2147483648 => x \div 16 < 134217728
               /\ x < 134217728 => x \div 16 < 8388608
               /\ x < 8388608 => x \div 16 < 524288
               /\ x < 524288 => x \div 16 < 32768
               /\ x < 32768 => x \div 16 < 2048
               /\ x < 2048 => x \div 16 < 128
               /\ x < 128 => x \div 16 < 8
               /\ x < 8 => x \div 16 = 0
    BY SMT
  <2>3. Q[0] \in Nat /\ Q[0] < 2147483648
    BY <1>1, <2>1, SMT
  <2>4. Q[1] \in Nat /\ Q[1] < 134217728
    <3>1. Q[1] = Q[0] \div 16
      BY <1>1
    <3> QED
      BY <2>2, <2>3, <3>1, SMT
  <2>5. Q[2] \in Nat /\ Q[2] < 8388608
    <3>1. Q[2] = Q[1] \div 16
      BY <1>1
    <3> QED
      BY <2>2, <2>4, <3>1, SMT
  <2>6. Q[3] \in Nat /\ Q[3] < 524288
    <3>1. Q[3] = Q[2] \div 16
      BY <1>1
    <3> QED
      BY <2>2, <2>5, <3>1, SMT
  <2>7. Q[4] \in Nat /\ Q[4] < 32768
    <3>1. Q[4] = Q[3] \div 16
      BY <1>1
    <3> QED
      BY <2>2, <2>6, <3>1, SMT
  <2>8. Q[5] \in Nat /\ Q[5] < 2048
    <3>1. Q[5] = Q[4] \div 16
      BY <1>1
    <3> QED
      BY <2>2, <2>7, <3>1, SMT
  <2>9. Q[6] \in Nat /\ Q[6] < 128
    <3>1. Q[6] = Q[5] \div 16
      BY <1>1
    <3> QED
      BY <2>2, <2>8, <3>1, SMT
  <2>10. Q[7] \in Nat /\ Q[7] < 8
    <3>1. Q[7] = Q[6] \div 16
      BY <1>1
    <3> QED
      BY <2>2, <2>9, <3>1, SMT
  <2>11. Q[8] = Q[7] \div 16
    BY <1>1
  <2> QED
    BY <2>2, <2>10, <2>11, SMT
<1>4. \E k \in 1..8 : Q[k] = 0 /\ \A i \in 1..(k - 1) : Q[i] # 0
  <2> DEFINE b == 16
             first == 1
  <2>1. b \in {16, 256} /\ first \in {0, 1}
    OBVIOUS
  <2>2. Quotients(n, b)[8] = 0
    BY <1>3 DEF Q
  <2> HIDE DEF b, first
  <2>3. \E k \in first..8 : /\ Quotients(n, b)[k] = 0
                            /\ \A i \in first..(k - 1) : Quotients(n, b)[i] # 0
    BY <2>1, <2>2, FirstZero
  <2> QED
    BY <2>3 DEF b, first, Q
<1>5. d \in 1..8 /\ Q[d] = 0 /\ \A i \in 1..(d - 1) : Q[i] # 0
  BY <1>2, <1>4
<1>6. Size(n) = [j \in 1..d |-> HexDigit(Q[d - j] % 16)]
  BY DEF Size, Q, d
<1>7. Len(Size(n)) = d
  BY <1>5, <1>6
<1>8. \A m \in 0..15 : /\ HexDigit(m) = Line("byte", HexDigit(m).n)
                       /\ HexDigit(m).is = "byte" /\ HexDigit(m).n \in Nat
                       /\ Hex(HexDigit(m).n) = m
  BY DEF HexDigit, Line, Hex
<1>9. ASSUME NEW j \in 1..d
      PROVE  /\ Size(n)[j].is = "byte" /\ Size(n)[j].n \in Nat
             /\ Size(n)[j] = Line("byte", Size(n)[j].n)
             /\ Hex(Size(n)[j].n) = Q[d - j] % 16
             /\ Q[d - j] \in Nat /\ d - j \in 0..8
  <2>1. d - j \in 0..8
    BY <1>5
  <2>2. Q[d - j] \in Nat
    BY <1>1, <2>1
  <2>3. Q[d - j] % 16 \in 0..15
    BY <2>2
  <2>4. Size(n)[j] = HexDigit(Q[d - j] % 16)
    BY <1>6
  <2> QED
    BY <1>8, <2>1, <2>2, <2>3, <2>4
<1>10. \A x \in Nat : x = 16 * (x \div 16) + (x % 16) /\ (x \div 16 = 0 => x % 16 = x)
  OBVIOUS
<1>11. ASSUME NEW j \in 1..d
       PROVE  Q[d - j] = IF j = 1 THEN Hex(Size(n)[1].n)
                         ELSE 16 * Q[d - (j - 1)] + Hex(Size(n)[j].n)
  <2>1. d - (j - 1) \in 1..8 /\ (d - (j - 1)) - 1 = d - j
    BY <1>5
  <2>2. Q[d - (j - 1)] = Q[d - j] \div 16
    BY <1>1, <2>1
  <2>3. CASE j = 1
    <3>1. Q[d - (j - 1)] = 0
      BY <1>5, <2>3
    <3>2. Q[d - j] % 16 = Q[d - j]
      BY <1>9, <1>10, <2>2, <3>1
    <3> QED
      BY <1>9, <2>3, <3>2
  <2>4. CASE j # 1
    BY <1>9, <1>10, <2>2, <2>4
  <2> QED
    BY <2>3, <2>4
<1>12. \A j \in 1..d : ValueAfter(n, j) = Q[d - j] /\ ValueAfter(n, j - 1) = Q[d - (j - 1)]
  BY DEF ValueAfter, Q, d
<1>13. ValueAfter(n, d) = n
  <2>1. d \in 1..d /\ d - d = 0
    BY <1>5
  <2> QED
    BY <1>1, <1>12, <2>1
<1>14. \A j \in 1..d : Hex(Size(n)[j].n) \in Nat
  BY <1>9
<1>15. d \in Nat \ {0}
  BY <1>5
<1>16. \A j \in 1..d : /\ ValueAfter(n, j) = IF j = 1 THEN Hex(Size(n)[1].n)
                                        ELSE 16 * ValueAfter(n, j - 1) + Hex(Size(n)[j].n)
                       /\ ValueAfter(n, j) \in Nat
  BY <1>9, <1>11, <1>12
<1> QED
  BY <1>7, <1>9, <1>13, <1>14, <1>15, <1>16 DEF d

-----------------------------------------------------------------------------
(* What is on the wire.                                                    *)

Item == [is: {"status", "other", "content-length", "chunked", "end", "byte"}, n: Nat]

\* u is s and then t.
Joins(u, s, t) ==
    /\ Len(u) = Len(s) + Len(t)
    /\ \A i \in 1..Len(s) : u[i] = s[i]
    /\ \A i \in 1..Len(t) : u[Len(s) + i] = t[i]

\* Two sequences in one, item by item.
LEMMA TwoInOne ==
    ASSUME NEW S, NEW s \in Seq(S), NEW t \in Seq(S)
    PROVE  s \o t \in Seq(S) /\ Joins(s \o t, s, t)
<1> DEFINE m == Len(s)
           n == Len(t)
           u == s \o t
<1>1. /\ u \in Seq(S) /\ Len(u) = m + n
      /\ \A i \in 1..(m + n) : u[i] = IF i <= m THEN s[i] ELSE t[i - m]
  BY ConcatProperties
<1>2. m \in Nat /\ n \in Nat
  OBVIOUS
<1> HIDE DEF m, n, u
<1>3. \A i \in 1..m : i \in 1..(m + n) /\ i <= m
  BY <1>2
<1>4. \A i \in 1..n : m + i \in 1..(m + n) /\ ~(m + i <= m) /\ (m + i) - m = i
  BY <1>2
<1>5. (\A i \in 1..m : u[i] = s[i]) /\ \A i \in 1..n : u[m + i] = t[i]
  BY <1>1, <1>3, <1>4
<1> QED
  BY <1>1, <1>5 DEF m, n, u, Joins

\* The lines of a reply are items.
LEMMA ItemsAreItems ==
    /\ \A c \in Nat : Line("byte", c) \in Item /\ Line("byte", c).n = c
    /\ CRLF \in Seq(Item) /\ Len(CRLF) = 2
    /\ CRLF[1] = Line("byte", CR) /\ CRLF[2] = Line("byte", LF)
    /\ \A s \in Seq(0..255) :
           /\ Bytes(s) \in Seq(Item) /\ Len(Bytes(s)) = Len(s)
           /\ \A i \in 1..Len(s) : Bytes(s)[i] = Line("byte", s[i]) /\ s[i] \in 0..255
    /\ \A n \in Nat : n <= LargestInt => Size(n) \in Seq(Item)
<1>1. \A c \in Nat : Line("byte", c) \in Item /\ Line("byte", c).n = c
  BY DEF Line, Item
<1>2. /\ CRLF \in Seq(Item) /\ Len(CRLF) = 2
      /\ CRLF[1] = Line("byte", CR) /\ CRLF[2] = Line("byte", LF)
  BY <1>1 DEF CRLF, CR, LF
<1>3. ASSUME NEW s \in Seq(0..255)
      PROVE  /\ Bytes(s) \in Seq(Item) /\ Len(Bytes(s)) = Len(s)
             /\ \A i \in 1..Len(s) : Bytes(s)[i] = Line("byte", s[i]) /\ s[i] \in 0..255
  <2>1. Bytes(s) = [i \in 1..Len(s) |-> Line("byte", s[i])] /\ Len(s) \in Nat
    BY DEF Bytes
  <2>2. \A i \in 1..Len(s) : s[i] \in 0..255
    BY ElementOfSeq
  <2>3. \A c \in 0..255 : c \in Nat
    OBVIOUS
  <2> QED
    <3>1. \A i \in 1..Len(s) : Line("byte", s[i]) \in Item
      BY <1>1, <2>2, <2>3
    <3> HIDE DEF Bytes
    <3>2. Bytes(s) \in Seq(Item) /\ Len(Bytes(s)) = Len(s)
      BY <2>1, <3>1
    <3>3. \A i \in 1..Len(s) : Bytes(s)[i] = Line("byte", s[i])
      BY <2>1
    <3> QED
      BY <2>2, <3>2, <3>3
<1>4. ASSUME NEW n \in Nat, n <= LargestInt
      PROVE  Size(n) \in Seq(Item)
  <2>1. Size(n) = [j \in 1..Digits(n) |-> Size(n)[j]]
    BY DEF Size
  <2> DEFINE d == Digits(n)
             z == Size(n)
  <2>2. /\ d \in Nat
        /\ \A j \in 1..d : z[j].n \in Nat /\ z[j] = Line("byte", z[j].n)
    BY <1>4, SizeIsHex
  <2>3. z = [j \in 1..d |-> z[j]]
    BY <2>1
  <2> HIDE DEF z, d
  <2>4. ASSUME NEW j \in 1..d
        PROVE  z[j] \in Item
    BY <1>1, <2>2
  <2>5. z \in Seq(Item)
    BY ONLY <2>2, <2>3, <2>4
  <2> QED
    BY <2>5 DEF z
<1> QED
  BY <1>1, <1>2, <1>3, <1>4

\* c is the chunk with the bytes s: its size, a line end, the bytes, a line end.
IsChunk(c, s, d) ==
    /\ c \in Seq(Item) /\ Len(c) = d + Len(s) + 4
    /\ \A j \in 1..d : c[j] = Size(Len(s))[j]
    /\ c[d + 1] = Line("byte", CR) /\ c[d + 2] = Line("byte", LF)
    /\ \A m \in 1..Len(s) : c[d + 2 + m] = Line("byte", s[m])
    /\ c[d + Len(s) + 3] = Line("byte", CR) /\ c[d + Len(s) + 4] = Line("byte", LF)

\* Chunk writes the size of s, a line end, the bytes of s and a line end.
LEMMA ChunkIndex ==
    ASSUME NEW s \in Seq(0..255), Len(s) <= LargestInt
    PROVE  IsChunk(Chunk(s), s, Digits(Len(s)))
<1> DEFINE d == Digits(Len(s))
           n == Len(s)
           a == Size(n)
           b == a \o CRLF
           e == b \o Bytes(s)
           f == e \o CRLF
<1>1. n \in Nat /\ n <= LargestInt
  OBVIOUS
<1>2. a \in Seq(Item) /\ Len(a) = d /\ d \in Nat
  BY <1>1, SizeIsHex, ItemsAreItems
<1>3. f = Chunk(s)
  BY DEF Chunk
<1>4. /\ b \in Seq(Item) /\ Len(b) = d + 2
      /\ \A i \in 1..d : b[i] = a[i]
      /\ \A i \in 1..2 : b[d + i] = CRLF[i]
  <2>1. CRLF \in Seq(Item) /\ Len(CRLF) = 2
    BY ItemsAreItems
  <2>2. b \in Seq(Item) /\ Joins(b, a, CRLF)
    BY <1>2, <2>1, TwoInOne
  <2> HIDE DEF a, b
  <2> QED
    BY <1>2, <2>1, <2>2 DEF Joins
<1>5. /\ e \in Seq(Item) /\ Len(e) = d + 2 + n
      /\ \A i \in 1..(d + 2) : e[i] = b[i]
      /\ \A i \in 1..n : e[d + 2 + i] = Bytes(s)[i]
  <2>1. Bytes(s) \in Seq(Item) /\ Len(Bytes(s)) = n
    BY ItemsAreItems
  <2>2. e \in Seq(Item) /\ Joins(e, b, Bytes(s))
    <3> HIDE DEF b
    <3> QED
      BY <1>4, <2>1, TwoInOne
  <2> HIDE DEF b, e
  <2> QED
    BY <1>4, <2>1, <2>2 DEF Joins
<1>6. /\ f \in Seq(Item) /\ Len(f) = d + 2 + n + 2
      /\ \A i \in 1..(d + 2 + n) : f[i] = e[i]
      /\ \A i \in 1..2 : f[d + 2 + n + i] = CRLF[i]
  <2>1. CRLF \in Seq(Item) /\ Len(CRLF) = 2
    BY ItemsAreItems
  <2>2. f \in Seq(Item) /\ Joins(f, e, CRLF)
    <3> HIDE DEF e
    <3> QED
      BY <1>5, <2>1, TwoInOne
  <2> HIDE DEF e, f
  <2> QED
    BY <1>5, <2>1, <2>2 DEF Joins
<1> HIDE DEF a, b, e, f, d, n
<1>7. /\ \A j \in 1..d : f[j] = a[j]
      /\ f[d + 1] = CRLF[1] /\ f[d + 2] = CRLF[2]
      /\ \A m \in 1..n : f[d + 2 + m] = Bytes(s)[m]
  <2>1. /\ \A j \in 1..d : j \in 1..(d + 2) /\ j \in 1..(d + 2 + n)
        /\ d + 1 \in 1..(d + 2) /\ d + 1 \in 1..(d + 2 + n)
        /\ d + 2 \in 1..(d + 2) /\ d + 2 \in 1..(d + 2 + n)
        /\ \A m \in 1..n : d + 2 + m \in 1..(d + 2 + n)
    BY <1>1, <1>2
  <2> QED
    BY <1>4, <1>5, <1>6, <2>1
<1>8. /\ d + 2 + n + 1 = d + n + 3 /\ d + 2 + n + 2 = d + n + 4
  BY <1>1, <1>2
<1>9. f[d + n + 3] = CRLF[1] /\ f[d + n + 4] = CRLF[2] /\ Len(f) = d + n + 4
  BY <1>6, <1>8
<1>10. \A m \in 1..n : Bytes(s)[m] = Line("byte", s[m])
  BY ItemsAreItems DEF n
<1>11. CRLF[1] = Line("byte", CR) /\ CRLF[2] = Line("byte", LF)
  BY ItemsAreItems
<1>12. IsChunk(f, s, d)
  BY <1>6, <1>7, <1>9, <1>10, <1>11 DEF IsChunk, a, n
<1> QED
  BY <1>3, <1>12 DEF d

\* The chunks of r on the wire; the last chunk, of size 0, is number N(r) + 1.
\* Where each begins, how many bytes of the body are before it, and its size.
EncodedChunks(r) == [i \in DOMAIN r.chunks |-> Chunk(r.chunks[i])]
N(r) == Len(r.chunks)
Place(r, k) == 4 + Starts(EncodedChunks(r))[k - 1]
Held(r, k) == Starts(r.chunks)[k - 1]
SizeOf(r, k) == IF k <= N(r) THEN Len(r.chunks[k]) ELSE 0
\* The items of chunk k before its bytes, apart from the line end.
Width(r, k) == Digits(SizeOf(r, k))

ReplyTypes(r) ==
    /\ r.framing \in {"length", "chunked", "close"}
    /\ r.code \in Nat
    /\ Body(r) \in Seq(0..255) /\ Len(Body(r)) \in Nat
    /\ N(r) \in Nat

\* The chunks partition the body.
ChunksPartition(r) ==
    /\ Held(r, 1) = 0 /\ Held(r, N(r) + 1) = Len(Body(r))
    /\ \A k \in 1..(N(r) + 1) :
           /\ Held(r, k) \in Nat /\ Held(r, k) <= Len(Body(r))
           /\ SizeOf(r, k) \in Nat /\ SizeOf(r, k) <= LargestInt
    /\ SizeOf(r, N(r) + 1) = 0
    /\ \A k \in 1..N(r) :
           /\ r.chunks[k] \in Seq(0..255) /\ SizeOf(r, k) = Len(r.chunks[k])
           /\ SizeOf(r, k) # 0
           /\ Held(r, k + 1) = Held(r, k) + SizeOf(r, k)
           /\ \A m \in 1..SizeOf(r, k) : r.chunks[k][m] = Body(r)[Held(r, k) + m]

\* A reply has a body, and its chunks partition it.
LEMMA ReplyParts ==
    ASSUME NEW r \in Replies
    PROVE  ReplyTypes(r) /\ ChunksPartition(r)
<1>1. /\ r.framing \in {"length", "chunked", "close"} /\ r.code \in Nat
      /\ r.chunks \in Seq(Seq(0..255)) /\ \A i \in DOMAIN r.chunks : r.chunks[i] # <<>>
  BY HttpsAssumption DEF Bodies
<1> DEFINE ss == r.chunks
           n == Len(ss)
           at == Starts(ss)
           B == Body(r)
<1>2. B = Concat(ss)
  BY DEF Body
<1>3. /\ at \in [0..n -> Nat] /\ at[0] = 0
      /\ \A k \in 1..n : at[k] = at[k - 1] + Len(ss[k])
      /\ B \in Seq(0..255) /\ Len(B) = at[n]
      /\ \A k \in 1..n : \A j \in 1..Len(ss[k]) : B[at[k - 1] + j] = ss[k][j]
      /\ \A k \in 0..n : at[k] <= Len(B)
  <2>1. ss \in Seq(Seq(0..255))
    BY <1>1
  <2> HIDE DEF ss
  <2> QED
    BY <1>2, <2>1, ConcatIndex
<1>4. /\ n \in Nat
      /\ \A k \in 1..n : ss[k] \in Seq(0..255) /\ Len(ss[k]) \in Nat /\ ss[k] # <<>>
  <2>1. n \in Nat /\ DOMAIN ss = 1..n
    BY <1>1
  <2>2. \A k \in 1..n : ss[k] \in Seq(0..255)
    BY <1>1, ElementOfSeq
  <2>3. \A k \in 1..n : Len(ss[k]) \in Nat
    BY <2>2, LenProperties
  <2>4. \A k \in 1..n : ss[k] # <<>>
    BY <1>1, <2>1
  <2> QED
    BY <2>1, <2>2, <2>3, <2>4
<1>5. Len(B) <= LargestInt /\ LargestInt \in Nat
  BY LengthAssumption, SMT DEF LargestInt
<1>6. ReplyTypes(r)
  BY <1>1, <1>3, <1>4 DEF ReplyTypes, N
<1>7. /\ N(r) = n /\ \A k \in 1..(n + 1) : Held(r, k) = at[k - 1]
      /\ \A k \in 1..(n + 1) : SizeOf(r, k) = IF k <= n THEN Len(ss[k]) ELSE 0
  BY DEF N, Held, SizeOf
<1> HIDE DEF ss, n, at, B
<1>8. /\ \A k \in 1..(n + 1) : k - 1 \in 0..n
      /\ \A k \in 1..n : /\ k \in 1..(n + 1) /\ k + 1 \in 1..(n + 1) /\ (k + 1) - 1 = k
                         /\ k <= n /\ k \in 0..n
      /\ 1 \in 1..(n + 1) /\ 1 - 1 = 0 /\ n + 1 \in 1..(n + 1) /\ (n + 1) - 1 = n
      /\ ~(n + 1 <= n)
      /\ \A k \in 1..(n + 1) : k <= n => k \in 1..n
  BY <1>4
<1>9. ASSUME NEW k \in 1..n
      PROVE  Len(ss[k]) <= LargestInt
  <2> DEFINE a == at[k] b == at[k - 1] c == Len(ss[k]) e == Len(B)
  <2>1. a \in Nat /\ b \in Nat /\ c \in Nat /\ a = b + c /\ a <= e /\ e \in Nat
    BY <1>3, <1>4, <1>8, LenProperties
  <2> HIDE DEF a, b, c, e
  <2>2. c <= e
    BY <2>1
  <2> QED
    BY <1>5, <2>1, <2>2 DEF c, e
<1>10. /\ Held(r, 1) = 0 /\ Held(r, n + 1) = Len(B)
       /\ SizeOf(r, n + 1) = 0
  BY <1>3, <1>7, <1>8
<1>11. ASSUME NEW k \in 1..(n + 1)
       PROVE  /\ Held(r, k) \in Nat /\ Held(r, k) <= Len(B)
              /\ SizeOf(r, k) \in Nat /\ SizeOf(r, k) <= LargestInt
  <2>1. Held(r, k) \in Nat /\ Held(r, k) <= Len(B)
    <3>1. k - 1 \in 0..n /\ Held(r, k) = at[k - 1]
      BY <1>7, <1>8
    <3>2. at[k - 1] \in Nat /\ at[k - 1] <= Len(B)
      BY <1>3, <3>1
    <3> QED
      BY <3>1, <3>2
  <2>2. SizeOf(r, k) = IF k <= n THEN Len(ss[k]) ELSE 0
    BY <1>7
  <2>3. CASE k <= n
    BY <1>4, <1>8, <1>9, <2>1, <2>2, <2>3
  <2>4. CASE ~(k <= n)
    BY <1>5, <2>1, <2>2, <2>4
  <2> QED
    BY <2>3, <2>4
<1>12. ASSUME NEW k \in 1..n
       PROVE  /\ ss[k] \in Seq(0..255) /\ SizeOf(r, k) = Len(ss[k])
              /\ SizeOf(r, k) # 0
              /\ Held(r, k + 1) = Held(r, k) + SizeOf(r, k)
              /\ \A m \in 1..SizeOf(r, k) : ss[k][m] = B[Held(r, k) + m]
  <2>1. SizeOf(r, k) = Len(ss[k]) /\ Held(r, k) = at[k - 1] /\ Held(r, k + 1) = at[k]
    BY <1>7, <1>8
  <2>2. Len(ss[k]) # 0
    BY <1>4, EmptySeq
  <2> QED
    BY <1>3, <1>4, <2>1, <2>2
<1> QED
  BY <1>6, <1>7, <1>10, <1>11, <1>12 DEF ChunksPartition, ss, B

\* Chunk k of r in w: its size and line end; its bytes and line end; what
\* follows the last chunk.
IsHead(r, w, k) ==
    /\ Place(r, k) \in Nat /\ Width(r, k) \in Nat
    /\ \A j \in 1..Width(r, k) : w[Place(r, k) + j] = Size(SizeOf(r, k))[j]
    /\ w[Place(r, k) + Width(r, k) + 1] = Line("byte", CR)
    /\ w[Place(r, k) + Width(r, k) + 2] = Line("byte", LF)
    /\ Place(r, k) + Width(r, k) + 4 <= Len(w)

IsData(r, w, k) ==
    /\ \A m \in 1..SizeOf(r, k) :
           w[Place(r, k) + Width(r, k) + 2 + m] = Line("byte", Body(r)[Held(r, k) + m])
    /\ w[Place(r, k) + Width(r, k) + SizeOf(r, k) + 3] = Line("byte", CR)
    /\ w[Place(r, k) + Width(r, k) + SizeOf(r, k) + 4] = Line("byte", LF)
    /\ Place(r, k + 1) = Place(r, k) + Width(r, k) + SizeOf(r, k) + 4
    /\ Place(r, k + 1) <= Len(w)

IsEnd(r, w, e) ==
    IF r.trailer THEN w[e + 3] = Line("byte", 88)
    ELSE w[e + 3] = Line("byte", CR) /\ w[e + 4] = Line("byte", LF)

\* The body from item p on.
IsPlain(r, w, p) ==
    /\ Len(w) = p + Len(Body(r))
    /\ \A m \in 1..Len(Body(r)) : w[p + m] = Line("byte", Body(r)[m])

IsChunked(r, w) ==
    /\ Place(r, 1) = 4
    /\ \A k \in 1..(N(r) + 1) : IsHead(r, w, k)
    /\ \A k \in 1..N(r) : IsData(r, w, k)
    /\ IsEnd(r, w, Place(r, N(r) + 1) + Width(r, N(r) + 1))

IsWire(r, w) ==
    /\ w \in Seq(Item)
    /\ w[1] = Line("status", r.code) /\ w[2] = Line("other", 0)
    /\ r.framing = "length" =>
           /\ w[3] = Line("content-length", Len(Body(r))) /\ w[4] = Line("end", 0)
           /\ IsPlain(r, w, 4)
    /\ r.framing = "chunked" =>
           /\ w[3] = Line("chunked", 0) /\ w[4] = Line("end", 0)
           /\ IsChunked(r, w)
    /\ r.framing = "close" => w[3] = Line("end", 0) /\ IsPlain(r, w, 3)
    /\ Len(w) >= 3

\* After a header a, a body without chunks is there byte by byte.
LEMMA PlainWire ==
    ASSUME NEW r \in Replies, NEW a \in Seq(Item)
    PROVE  /\ a \o Bytes(Body(r)) \in Seq(Item)
           /\ IsPlain(r, a \o Bytes(Body(r)), Len(a))
           /\ \A i \in 1..Len(a) : (a \o Bytes(Body(r)))[i] = a[i]
<1> DEFINE B == Body(r)
           w == a \o Bytes(B)
<1>1. B \in Seq(0..255)
  BY ReplyParts DEF ReplyTypes
<1>2. Bytes(B) \in Seq(Item) /\ Len(Bytes(B)) = Len(B)
      /\ \A i \in 1..Len(B) : Bytes(B)[i] = Line("byte", B[i])
  BY <1>1, ItemsAreItems
<1>3. w \in Seq(Item) /\ Joins(w, a, Bytes(B))
  BY <1>2, TwoInOne
<1> HIDE DEF w
<1>4. /\ Len(w) = Len(a) + Len(B)
      /\ \A i \in 1..Len(a) : w[i] = a[i]
      /\ \A i \in 1..Len(B) : w[Len(a) + i] = Line("byte", B[i])
  BY <1>2, <1>3 DEF Joins
<1> QED
  BY <1>3, <1>4 DEF IsPlain, w

\* The two lines with which every reply begins are items.
LEMMA HeaderLines ==
    ASSUME NEW c \in Nat, NEW n \in Nat
    PROVE  LET a == <<Line("status", c), Line("other", 0)>>
           IN  /\ a \in Seq(Item)
               /\ <<Line("content-length", n), Line("end", 0)>> \in Seq(Item)
               /\ <<Line("chunked", 0), Line("end", 0)>> \in Seq(Item)
               /\ <<Line("end", 0)>> \in Seq(Item)
<1>1. /\ Line("status", c) \in Item /\ Line("other", 0) \in Item
      /\ Line("content-length", n) \in Item /\ Line("end", 0) \in Item
      /\ Line("chunked", 0) \in Item
  BY DEF Line, Item
<1> QED
  BY <1>1

\* A reply with its length given, item by item.
LEMMA LengthWire ==
    ASSUME NEW r \in Replies, r.framing = "length"
    PROVE  IsWire(r, OnTheWire(r))
<1> DEFINE B == Body(r)
           a == <<Line("status", r.code), Line("other", 0)>>
           b == <<Line("content-length", Len(B)), Line("end", 0)>>
           t == Bytes(B)
           w == OnTheWire(r)
           c == <<a[1], a[2], b[1], b[2]>>
<1>1. r.code \in Nat /\ B \in Seq(0..255) /\ Len(B) \in Nat
  BY ReplyParts DEF ReplyTypes
<1>2. a \in Seq(Item) /\ b \in Seq(Item)
  BY <1>1, HeaderLines
<1>3. t \in Seq(Item)
  BY <1>1, ItemsAreItems
<1>4. w = a \o (b \o t)
  BY DEF OnTheWire
<1>5. a \o (b \o t) = (a \o b) \o t
  <2> HIDE DEF a, b, t
  <2> QED
    BY <1>2, <1>3, ConcatAssociative
<1>6. a \o b \in Seq(Item) /\ Joins(a \o b, a, b)
  <2> HIDE DEF a, b
  <2> QED
    BY <1>2, TwoInOne
<1>7. Len(a) = 2 /\ Len(b) = 2
  OBVIOUS
<1> DEFINE e == a \o b
<1> HIDE DEF e
<1>8. /\ e \in Seq(Item) /\ Len(e) = 4 /\ w = e \o t
      /\ e[1] = a[1] /\ e[2] = a[2] /\ e[3] = b[1] /\ e[4] = b[2]
  <2>1. /\ 1 \in 1..2 /\ 2 \in 1..2 /\ 2 + 1 = 3 /\ 2 + 2 = 4
    OBVIOUS
  <2> HIDE DEF a, b, t
  <2> QED
    BY <1>4, <1>5, <1>6, <1>7, <2>1 DEF Joins, e
<1>9. w \in Seq(Item) /\ IsPlain(r, w, 4) /\ \A i \in 1..4 : w[i] = e[i]
  <2> DEFINE v == e \o Bytes(Body(r))
  <2>1. e \in Seq(Item)
    BY <1>8
  <2>2. v \in Seq(Item) /\ IsPlain(r, v, Len(e)) /\ \A i \in 1..Len(e) : v[i] = e[i]
    BY <2>1, PlainWire
  <2>3. w = v
    BY <1>8
  <2> HIDE DEF v, w
  <2> QED
    BY <1>8, <2>2, <2>3
<1>10. /\ w[1] = Line("status", r.code) /\ w[2] = Line("other", 0)
       /\ w[3] = Line("content-length", Len(B)) /\ w[4] = Line("end", 0)
  <2>1. a[1] = Line("status", r.code) /\ a[2] = Line("other", 0)
        /\ b[1] = Line("content-length", Len(B)) /\ b[2] = Line("end", 0)
    OBVIOUS
  <2>2. 1 \in 1..4 /\ 2 \in 1..4 /\ 3 \in 1..4 /\ 4 \in 1..4
    OBVIOUS
  <2> HIDE DEF w, a, b
  <2> QED
    BY <1>8, <1>9, <2>1, <2>2
<1>11. Len(w) >= 3
  BY <1>1, <1>9 DEF IsPlain
<1> QED
  <2> HIDE DEF w, B
  <2> QED
    BY <1>9, <1>10, <1>11 DEF IsWire, w, B

\* A reply that ends with the connection, item by item.
LEMMA CloseWire ==
    ASSUME NEW r \in Replies, r.framing = "close"
    PROVE  IsWire(r, OnTheWire(r))
<1> DEFINE B == Body(r)
           a == <<Line("status", r.code), Line("other", 0)>>
           b == <<Line("end", 0)>>
           t == Bytes(B)
           w == OnTheWire(r)
<1>1. r.code \in Nat /\ B \in Seq(0..255) /\ Len(B) \in Nat
  BY ReplyParts DEF ReplyTypes
<1>2. a \in Seq(Item) /\ b \in Seq(Item)
  BY <1>1, HeaderLines
<1>3. t \in Seq(Item)
  BY <1>1, ItemsAreItems
<1>4. w = a \o (b \o t)
  BY DEF OnTheWire
<1>5. a \o (b \o t) = (a \o b) \o t
  <2> HIDE DEF a, b, t
  <2> QED
    BY <1>2, <1>3, ConcatAssociative
<1>6. a \o b \in Seq(Item) /\ Joins(a \o b, a, b)
  <2> HIDE DEF a, b
  <2> QED
    BY <1>2, TwoInOne
<1>7. Len(a) = 2 /\ Len(b) = 1
  OBVIOUS
<1> DEFINE e == a \o b
<1> HIDE DEF e
<1>8. /\ e \in Seq(Item) /\ Len(e) = 3 /\ w = e \o t
      /\ e[1] = a[1] /\ e[2] = a[2] /\ e[3] = b[1]
  <2>1. /\ 1 \in 1..2 /\ 2 \in 1..2 /\ 2 + 1 = 3 /\ 1 \in 1..1
    OBVIOUS
  <2> HIDE DEF a, b, t
  <2> QED
    BY <1>4, <1>5, <1>6, <1>7, <2>1 DEF Joins, e
<1>9. w \in Seq(Item) /\ IsPlain(r, w, 3) /\ \A i \in 1..3 : w[i] = e[i]
  <2> DEFINE v == e \o Bytes(Body(r))
  <2>1. e \in Seq(Item)
    BY <1>8
  <2>2. v \in Seq(Item) /\ IsPlain(r, v, Len(e)) /\ \A i \in 1..Len(e) : v[i] = e[i]
    BY <2>1, PlainWire
  <2>3. w = v
    BY <1>8
  <2> HIDE DEF v, w
  <2> QED
    BY <1>8, <2>2, <2>3
<1>10. /\ w[1] = Line("status", r.code) /\ w[2] = Line("other", 0)
       /\ w[3] = Line("end", 0)
  <2>1. a[1] = Line("status", r.code) /\ a[2] = Line("other", 0)
        /\ b[1] = Line("end", 0)
    OBVIOUS
  <2>2. 1 \in 1..3 /\ 2 \in 1..3 /\ 3 \in 1..3
    OBVIOUS
  <2> HIDE DEF w, a, b
  <2> QED
    BY <1>8, <1>9, <2>1, <2>2
<1>11. Len(w) >= 3
  BY <1>1, <1>9 DEF IsPlain
<1> QED
  <2> HIDE DEF w, B
  <2> QED
    BY <1>9, <1>10, <1>11 DEF IsWire, w, B

\* w is the sequences a, b, c, s, e, t, e one after the other.
Follow(w, a, b, c, s, e, t) ==
    /\ w \in Seq(Item)
    /\ Len(w) = Len(a) + Len(b) + Len(c) + Len(s) + Len(e) + Len(t) + Len(e)
    /\ \A i \in 1..Len(a) : w[i] = a[i]
    /\ \A i \in 1..Len(b) : w[Len(a) + i] = b[i]
    /\ \A i \in 1..Len(c) : w[Len(a) + Len(b) + i] = c[i]
    /\ \A i \in 1..Len(s) : w[Len(a) + Len(b) + Len(c) + i] = s[i]
    /\ \A i \in 1..Len(e) : w[Len(a) + Len(b) + Len(c) + Len(s) + i] = e[i]
    /\ \A i \in 1..Len(t) : w[Len(a) + Len(b) + Len(c) + Len(s) + Len(e) + i] = t[i]
    /\ \A i \in 1..Len(e) :
           w[Len(a) + Len(b) + Len(c) + Len(s) + Len(e) + Len(t) + i] = e[i]

\* The parts of a chunked reply in one sequence, each at its place.
LEMMA SevenInOne ==
    ASSUME NEW a \in Seq(Item), NEW b \in Seq(Item), NEW c \in Seq(Item),
           NEW s \in Seq(Item), NEW e \in Seq(Item), NEW t \in Seq(Item)
    PROVE  Follow(a \o (b \o c \o s \o e \o t \o e), a, b, c, s, e, t)
<1> DEFINE x1 == b \o c
           x2 == x1 \o s
           x3 == x2 \o e
           x4 == x3 \o t
           x5 == x4 \o e
           w == a \o x5
           la == Len(a)  lb == Len(b)  lc == Len(c)
           ls == Len(s)  le == Len(e)  lt == Len(t)
<1>1. la \in Nat /\ lb \in Nat /\ lc \in Nat /\ ls \in Nat /\ le \in Nat /\ lt \in Nat
  OBVIOUS
<1>2. x1 \in Seq(Item) /\ Joins(x1, b, c)
  BY TwoInOne
<1> HIDE DEF x1
<1>3. x2 \in Seq(Item) /\ Joins(x2, x1, s)
  BY <1>2, TwoInOne
<1> HIDE DEF x2
<1>4. x3 \in Seq(Item) /\ Joins(x3, x2, e)
  BY <1>3, TwoInOne
<1> HIDE DEF x3
<1>5. x4 \in Seq(Item) /\ Joins(x4, x3, t)
  BY <1>4, TwoInOne
<1> HIDE DEF x4
<1>6. x5 \in Seq(Item) /\ Joins(x5, x4, e)
  BY <1>5, TwoInOne
<1> HIDE DEF x5
<1>7. w \in Seq(Item) /\ Joins(w, a, x5)
  BY <1>6, TwoInOne
<1> HIDE DEF w, la, lb, lc, ls, le, lt
<1>8. /\ Len(x1) = lb + lc /\ Len(x2) = lb + lc + ls /\ Len(x3) = lb + lc + ls + le
      /\ Len(x4) = lb + lc + ls + le + lt /\ Len(x5) = lb + lc + ls + le + lt + le
      /\ Len(w) = la + lb + lc + ls + le + lt + le
  <2>1. /\ Len(x1) = lb + lc /\ Len(x2) = Len(x1) + ls /\ Len(x3) = Len(x2) + le
        /\ Len(x4) = Len(x3) + lt /\ Len(x5) = Len(x4) + le /\ Len(w) = la + Len(x5)
    BY <1>2, <1>3, <1>4, <1>5, <1>6, <1>7 DEF Joins, la, lb, lc, ls, le, lt
  <2> QED
    BY <1>1, <2>1
<1>9. \A i \in 1..(lb + lc + ls + le + lt + le) : w[la + i] = x5[i]
  BY <1>7, <1>8 DEF Joins, la
<1>10. /\ \A i \in 1..(lb + lc + ls + le + lt) : x5[i] = x4[i]
       /\ \A i \in 1..le : x5[lb + lc + ls + le + lt + i] = e[i]
  BY <1>6, <1>8 DEF Joins, le
<1>11. /\ \A i \in 1..(lb + lc + ls + le) : x4[i] = x3[i]
       /\ \A i \in 1..lt : x4[lb + lc + ls + le + i] = t[i]
  BY <1>5, <1>8 DEF Joins, lt
<1>12. /\ \A i \in 1..(lb + lc + ls) : x3[i] = x2[i]
       /\ \A i \in 1..le : x3[lb + lc + ls + i] = e[i]
  BY <1>4, <1>8 DEF Joins, le
<1>13. /\ \A i \in 1..(lb + lc) : x2[i] = x1[i]
       /\ \A i \in 1..ls : x2[lb + lc + i] = s[i]
  BY <1>3, <1>8 DEF Joins, ls
<1>14. /\ \A i \in 1..lb : x1[i] = b[i]
       /\ \A i \in 1..lc : x1[lb + i] = c[i]
  BY <1>2 DEF Joins, lb, lc
<1>15. \A i \in 1..la : w[i] = a[i]
  BY <1>7 DEF Joins, la
<1>16. \A i \in 1..lb : w[la + i] = b[i]
  <2> SUFFICES ASSUME NEW i \in 1..lb PROVE w[la + i] = b[i]
    OBVIOUS
  <2>1. /\ i \in 1..(lb + lc + ls + le + lt + le) /\ i \in 1..(lb + lc + ls + le + lt)
        /\ i \in 1..(lb + lc + ls + le) /\ i \in 1..(lb + lc + ls) /\ i \in 1..(lb + lc)
    BY <1>1
  <2> QED
    BY <1>9, <1>10, <1>11, <1>12, <1>13, <1>14, <2>1
<1>17. \A i \in 1..lc : w[la + lb + i] = c[i]
  <2> SUFFICES ASSUME NEW i \in 1..lc PROVE w[la + lb + i] = c[i]
    OBVIOUS
  <2> DEFINE j == lb + i
  <2>1. /\ j \in 1..(lb + lc + ls + le + lt + le) /\ j \in 1..(lb + lc + ls + le + lt)
        /\ j \in 1..(lb + lc + ls + le) /\ j \in 1..(lb + lc + ls) /\ j \in 1..(lb + lc)
        /\ la + j = la + lb + i
    BY <1>1
  <2>2. x1[j] = c[i]
    BY <1>14
  <2> HIDE DEF j
  <2> QED
    BY <1>9, <1>10, <1>11, <1>12, <1>13, <2>1, <2>2
<1>18. \A i \in 1..ls : w[la + lb + lc + i] = s[i]
  <2> SUFFICES ASSUME NEW i \in 1..ls PROVE w[la + lb + lc + i] = s[i]
    OBVIOUS
  <2> DEFINE j == lb + lc + i
  <2>1. /\ j \in 1..(lb + lc + ls + le + lt + le) /\ j \in 1..(lb + lc + ls + le + lt)
        /\ j \in 1..(lb + lc + ls + le) /\ j \in 1..(lb + lc + ls)
        /\ la + j = la + lb + lc + i
    BY <1>1
  <2>2. x2[j] = s[i]
    BY <1>13
  <2> HIDE DEF j
  <2> QED
    BY <1>9, <1>10, <1>11, <1>12, <2>1, <2>2
<1>19. \A i \in 1..le : w[la + lb + lc + ls + i] = e[i]
  <2> SUFFICES ASSUME NEW i \in 1..le PROVE w[la + lb + lc + ls + i] = e[i]
    OBVIOUS
  <2> DEFINE j == lb + lc + ls + i
  <2>1. /\ j \in 1..(lb + lc + ls + le + lt + le) /\ j \in 1..(lb + lc + ls + le + lt)
        /\ j \in 1..(lb + lc + ls + le)
        /\ la + j = la + lb + lc + ls + i
    BY <1>1
  <2>2. x3[j] = e[i]
    BY <1>12
  <2> HIDE DEF j
  <2> QED
    BY <1>9, <1>10, <1>11, <2>1, <2>2
<1>20. \A i \in 1..lt : w[la + lb + lc + ls + le + i] = t[i]
  <2> SUFFICES ASSUME NEW i \in 1..lt PROVE w[la + lb + lc + ls + le + i] = t[i]
    OBVIOUS
  <2> DEFINE j == lb + lc + ls + le + i
  <2>1. /\ j \in 1..(lb + lc + ls + le + lt + le) /\ j \in 1..(lb + lc + ls + le + lt)
        /\ la + j = la + lb + lc + ls + le + i
    BY <1>1
  <2>2. x4[j] = t[i]
    BY <1>11
  <2> HIDE DEF j
  <2> QED
    BY <1>9, <1>10, <2>1, <2>2
<1>21. \A i \in 1..le : w[la + lb + lc + ls + le + lt + i] = e[i]
  <2> SUFFICES ASSUME NEW i \in 1..le PROVE w[la + lb + lc + ls + le + lt + i] = e[i]
    OBVIOUS
  <2> DEFINE j == lb + lc + ls + le + lt + i
  <2>1. /\ j \in 1..(lb + lc + ls + le + lt + le)
        /\ la + j = la + lb + lc + ls + le + lt + i
    BY <1>1
  <2>2. x5[j] = e[i]
    BY <1>10
  <2> HIDE DEF j
  <2> QED
    BY <1>9, <2>1, <2>2
<1>22. Follow(w, a, b, c, s, e, t)
  BY <1>7, <1>8, <1>15, <1>16, <1>17, <1>18, <1>19, <1>20, <1>21
     DEF Follow, la, lb, lc, ls, le, lt
<1> QED
  BY <1>22 DEF w, x5, x4, x3, x2, x1

\* A reply in chunks, item by item.
LEMMA ChunkedWire ==
    ASSUME NEW r \in Replies, r.framing = "chunked"
    PROVE  IsWire(r, OnTheWire(r))
<1> DEFINE B == Body(r)
           n == N(r)
           es == EncodedChunks(r)
           at == Starts(es)
           a == <<Line("status", r.code), Line("other", 0)>>
           b == <<Line("chunked", 0), Line("end", 0)>>
           c == Concat(es)
           s == Size(0)
           t == IF r.trailer THEN <<Line("byte", 88)>> \o CRLF ELSE <<>>
           w == OnTheWire(r)
           d == Digits(0)
<1>1. /\ r.code \in Nat /\ B \in Seq(0..255) /\ Len(B) \in Nat /\ n \in Nat
      /\ ChunksPartition(r)
  BY ReplyParts DEF ReplyTypes
<1>2. DOMAIN r.chunks = 1..n
  BY HttpsAssumption DEF N, Bodies
<1>3. ASSUME NEW k \in 1..n
      PROVE  /\ es[k] \in Seq(Item)
             /\ IsChunk(es[k], r.chunks[k], Width(r, k))
             /\ SizeOf(r, k) = Len(r.chunks[k])
             /\ SizeOf(r, k) \in Nat
  <2>1. es[k] = Chunk(r.chunks[k])
    BY <1>2 DEF EncodedChunks
  <2>2. r.chunks[k] \in Seq(0..255) /\ SizeOf(r, k) = Len(r.chunks[k])
    BY <1>1 DEF ChunksPartition
  <2>3. k \in 1..(n + 1)
    BY <1>1
  <2>4. SizeOf(r, k) <= LargestInt /\ SizeOf(r, k) \in Nat
    BY <1>1, <2>3 DEF ChunksPartition
  <2>5. IsChunk(Chunk(r.chunks[k]), r.chunks[k], Digits(Len(r.chunks[k])))
    BY <2>2, <2>4, ChunkIndex
  <2>6. IsChunk(es[k], r.chunks[k], Width(r, k))
    BY <2>1, <2>2, <2>5 DEF Width
  <2> QED
    BY <2>2, <2>4, <2>6 DEF IsChunk
<1>4. es \in Seq(Seq(Item)) /\ Len(es) = n
  <2>1. es = [k \in 1..n |-> Chunk(r.chunks[k])]
    BY <1>2 DEF EncodedChunks
  <2>2. \A k \in 1..n : Chunk(r.chunks[k]) \in Seq(Item)
    BY <1>3, <2>1
  <2>3. n \in Nat
    BY <1>1
  <2> HIDE DEF es, n
  <2>4. \A k \in 1..n : es[k] \in Seq(Item)
    BY ONLY <2>1, <2>2
  <2>5. es \in [1..n -> Seq(Item)]
    BY ONLY <2>1, <2>2
  <2>6. es \in Seq(Seq(Item))
    BY ONLY <2>3, <2>5
  <2>7. Len(es) = n
    BY ONLY <2>1, <2>3
  <2> QED
    BY <2>6, <2>7
<1>5. /\ at \in [0..n -> Nat] /\ at[0] = 0
      /\ \A k \in 1..n : at[k] = at[k - 1] + Len(es[k])
      /\ c \in Seq(Item) /\ Len(c) = at[n]
      /\ \A k \in 1..n : \A j \in 1..Len(es[k]) :
             at[k - 1] + j <= Len(c) /\ c[at[k - 1] + j] = es[k][j]
      /\ \A k \in 0..n : at[k] <= Len(c)
  <2> HIDE DEF es
  <2>1. /\ at \in [0..Len(es) -> Nat] /\ at[0] = 0
        /\ \A k \in 1..Len(es) : at[k] = at[k - 1] + Len(es[k])
        /\ c \in Seq(Item) /\ Len(c) = at[Len(es)]
        /\ \A k \in 1..Len(es) : \A j \in 1..Len(es[k]) :
               at[k - 1] + j <= Len(c) /\ c[at[k - 1] + j] = es[k][j]
        /\ \A k \in 0..Len(es) : at[k] <= Len(c)
    BY <1>4, ConcatIndex
  <2> QED
    BY <1>4, <2>1
<1>6. 0 \in Nat /\ 0 <= LargestInt
  BY SMT DEF LargestInt
<1>7. s \in Seq(Item) /\ Len(s) = d /\ d \in Nat
  BY <1>6, SizeIsHex, ItemsAreItems
<1>8. /\ t \in Seq(Item)
      /\ IF r.trailer THEN Len(t) = 3 /\ t[1] = Line("byte", 88) ELSE Len(t) = 0
  <2>1. CASE r.trailer
    <3>1. <<Line("byte", 88)>> \in Seq(Item) /\ CRLF \in Seq(Item) /\ Len(CRLF) = 2
      BY ItemsAreItems
    <3>2. t \in Seq(Item) /\ Joins(t, <<Line("byte", 88)>>, CRLF)
      BY <2>1, <3>1, TwoInOne
    <3> QED
      BY <2>1, <3>1, <3>2 DEF Joins
  <2>2. CASE ~r.trailer
    BY <2>2
  <2> QED
    BY <2>1, <2>2
<1>9. w = a \o (b \o c \o s \o CRLF \o t \o CRLF)
  BY DEF OnTheWire, EncodedChunks
<1>10. a \in Seq(Item) /\ b \in Seq(Item) /\ Len(a) = 2 /\ Len(b) = 2
       /\ CRLF \in Seq(Item) /\ Len(CRLF) = 2
  BY <1>1, HeaderLines, ItemsAreItems
<1>11. Follow(w, a, b, c, s, CRLF, t)
  <2> HIDE DEF a, b, c, s, t, w
  <2> QED
    BY <1>5, <1>7, <1>8, <1>9, <1>10, SevenInOne
<1>12. /\ a[1] = Line("status", r.code) /\ a[2] = Line("other", 0)
       /\ b[1] = Line("chunked", 0) /\ b[2] = Line("end", 0)
       /\ CRLF[1] = Line("byte", CR) /\ CRLF[2] = Line("byte", LF)
  BY ItemsAreItems
<1>13. n + 1 \in Nat /\ SizeOf(r, n + 1) = 0 /\ Width(r, n + 1) = d /\ Held(r, n + 1) = Len(B)
  BY <1>1 DEF ChunksPartition, Width
<1>14. /\ \A k \in 1..(n + 1) : k - 1 \in 0..n /\ Place(r, k) = 4 + at[k - 1]
       /\ \A k \in 1..n : k \in 1..(n + 1) /\ k + 1 \in 1..(n + 1) /\ (k + 1) - 1 = k /\ k \in 0..n
       /\ 1 \in 1..(n + 1) /\ 1 - 1 = 0 /\ n + 1 \in 1..(n + 1) /\ (n + 1) - 1 = n
       /\ \A k \in 1..(n + 1) : k \in 1..n \/ k = n + 1
  BY <1>1 DEF Place
<1> DEFINE lc == Len(c)
           lt == Len(t)
<1> HIDE DEF a, b, c, s, t, w, at, es, n, B, d, lc, lt
<1>15. lc \in Nat /\ lt \in Nat
  BY <1>5, <1>8 DEF lc, lt
<1>16. /\ w \in Seq(Item) /\ Len(w) = 4 + lc + d + 2 + lt + 2
       /\ w[1] = a[1] /\ w[2] = a[2] /\ w[3] = b[1] /\ w[4] = b[2]
       /\ \A i \in 1..lc : w[4 + i] = c[i]
       /\ \A i \in 1..d : w[4 + lc + i] = s[i]
       /\ \A i \in 1..2 : w[4 + lc + d + i] = CRLF[i]
       /\ \A i \in 1..lt : w[6 + lc + d + i] = t[i]
       /\ \A i \in 1..2 : w[6 + lc + d + lt + i] = CRLF[i]
  <2>1. /\ w \in Seq(Item)
        /\ Len(w) = 2 + 2 + lc + d + 2 + lt + 2
        /\ \A i \in 1..2 : w[i] = a[i]
        /\ \A i \in 1..2 : w[2 + i] = b[i]
        /\ \A i \in 1..lc : w[2 + 2 + i] = c[i]
        /\ \A i \in 1..d : w[2 + 2 + lc + i] = s[i]
        /\ \A i \in 1..2 : w[2 + 2 + lc + d + i] = CRLF[i]
        /\ \A i \in 1..lt : w[2 + 2 + lc + d + 2 + i] = t[i]
        /\ \A i \in 1..2 : w[2 + 2 + lc + d + 2 + lt + i] = CRLF[i]
    BY <1>7, <1>10, <1>11 DEF Follow, lc, lt
  <2>2. 1 \in 1..2 /\ 2 \in 1..2 /\ 2 + 1 = 3 /\ 2 + 2 = 4
    OBVIOUS
  <2>3. /\ \A i \in Int : 2 + 2 + lc + d + i = 4 + lc + d + i
        /\ \A i \in Int : 2 + 2 + lc + d + 2 + i = 6 + lc + d + i
        /\ \A i \in Int : 2 + 2 + lc + d + 2 + lt + i = 6 + lc + d + lt + i
        /\ 2 + 2 + lc + d + 2 + lt + 2 = 4 + lc + d + 2 + lt + 2
    BY <1>7, <1>15
  <2> QED
    BY <2>1, <2>2, <2>3
<1>17. IsHead(r, w, n + 1)
  <2>1. Place(r, n + 1) = 4 + lc
    BY <1>5, <1>14 DEF lc
  <2>2. w[4 + lc + d + 1] = Line("byte", CR) /\ w[4 + lc + d + 2] = Line("byte", LF)
    BY <1>12, <1>16
  <2>3. 4 + lc \in Nat /\ d \in Nat /\ 4 + lc + d + 4 <= Len(w)
    BY <1>7, <1>15, <1>16
  <2>4. \A j \in 1..d : w[4 + lc + j] = Size(0)[j]
    BY <1>16 DEF s
  <2> QED
    BY <1>13, <2>1, <2>2, <2>3, <2>4 DEF IsHead
<1>18. ASSUME NEW k \in 1..n
       PROVE  IsHead(r, w, k) /\ IsData(r, w, k)
  <2> DEFINE p == at[k - 1]
             q == at[k]
             e == es[k]
             g == Width(r, k)
             m == SizeOf(r, k)
             h == Held(r, k)
  <2>1. /\ Place(r, k) = 4 + p /\ Place(r, k + 1) = 4 + q /\ q = p + Len(e) /\ q <= lc
        /\ p \in Nat /\ q \in Nat
    <3>1. k \in 1..(n + 1) /\ k + 1 \in 1..(n + 1) /\ (k + 1) - 1 = k
          /\ k - 1 \in 0..n /\ k \in 0..n
      BY <1>14
    <3>2. Place(r, k) = 4 + p /\ Place(r, k + 1) = 4 + q
      BY <1>14, <3>1
    <3> QED
      BY <1>5, <3>1, <3>2 DEF lc
  <2>2. /\ IsChunk(e, r.chunks[k], g) /\ m = Len(r.chunks[k]) /\ m \in Nat
    BY <1>3
  <2>3. g \in Nat
    <3>1. k \in 1..(n + 1) /\ m \in Nat /\ m <= LargestInt
      BY <1>1, <1>14 DEF ChunksPartition, n
    <3> QED
      BY <3>1, SizeIsHex DEF Width
  <2>4. /\ Len(e) = g + m + 4
        /\ \A j \in 1..g : e[j] = Size(m)[j]
        /\ e[g + 1] = Line("byte", CR) /\ e[g + 2] = Line("byte", LF)
        /\ \A i \in 1..m : e[g + 2 + i] = Line("byte", r.chunks[k][i])
        /\ e[g + m + 3] = Line("byte", CR) /\ e[g + m + 4] = Line("byte", LF)
    BY <2>2 DEF IsChunk
  <2>5. \A i \in 1..m : r.chunks[k][i] = B[h + i]
    BY <1>1 DEF ChunksPartition, n, B
  <2>6. \A j \in 1..Len(e) : p + j <= lc /\ c[p + j] = e[j]
    BY <1>5 DEF lc
  <2> HIDE DEF p, q, e, g, m, h
  <2>7. \A j \in 1..(g + m + 4) : w[4 + p + j] = e[j]
    <3> SUFFICES ASSUME NEW j \in 1..(g + m + 4) PROVE w[4 + p + j] = e[j]
      OBVIOUS
    <3>1. p + j <= lc /\ c[p + j] = e[j]
      BY <2>4, <2>6
    <3>2. p \in Nat /\ lc \in Nat /\ j \in Nat \ {0}
      <4>1. p \in Nat /\ m \in Nat
        BY <2>1, <2>2
      <4>2. g + m + 4 \in Nat
        BY <2>3, <4>1
      <4> QED
        BY <1>15, <4>1, <4>2
    <3>3. p + j \in 1..lc /\ 4 + (p + j) = 4 + p + j
      BY <3>1, <3>2
    <3> QED
      BY <1>16, <3>1, <3>3
  <2>8. /\ \A j \in 1..g : j \in 1..(g + m + 4)
        /\ g + 1 \in 1..(g + m + 4) /\ g + 2 \in 1..(g + m + 4)
        /\ \A i \in 1..m : g + 2 + i \in 1..(g + m + 4) /\ 4 + p + (g + 2 + i) = 4 + p + g + 2 + i
        /\ g + m + 3 \in 1..(g + m + 4) /\ g + m + 4 \in 1..(g + m + 4)
        /\ 4 + p + (g + 1) = 4 + p + g + 1 /\ 4 + p + (g + 2) = 4 + p + g + 2
        /\ 4 + p + (g + m + 3) = 4 + p + g + m + 3 /\ 4 + p + (g + m + 4) = 4 + p + g + m + 4
        /\ 4 + q = 4 + p + g + m + 4 /\ 4 + p + g + 4 <= Len(w) /\ 4 + q <= Len(w)
    <3>1. /\ p \in Nat /\ g \in Nat /\ m \in Nat /\ q = p + (g + m + 4) /\ q <= lc
          /\ lc \in Nat /\ d \in Nat /\ lt \in Nat
      BY <1>7, <1>15, <2>1, <2>2, <2>3, <2>4
    <3>2. Len(w) = 4 + lc + d + 2 + lt + 2
      BY <1>16
    <3>3. 4 + q = 4 + p + g + m + 4 /\ 4 + p + g + 4 <= Len(w) /\ 4 + q <= Len(w)
      BY ONLY <3>1, <3>2
    <3>4. \A i \in 1..m : g + 2 + i \in 1..(g + m + 4) /\ 4 + p + (g + 2 + i) = 4 + p + g + 2 + i
      BY ONLY <3>1
    <3>5. /\ \A j \in 1..g : j \in 1..(g + m + 4)
          /\ g + 1 \in 1..(g + m + 4) /\ g + 2 \in 1..(g + m + 4)
          /\ g + m + 3 \in 1..(g + m + 4) /\ g + m + 4 \in 1..(g + m + 4)
      BY ONLY <3>1
    <3>6. /\ 4 + p + (g + 1) = 4 + p + g + 1 /\ 4 + p + (g + 2) = 4 + p + g + 2
          /\ 4 + p + (g + m + 3) = 4 + p + g + m + 3
          /\ 4 + p + (g + m + 4) = 4 + p + g + m + 4
      BY ONLY <3>1
    <3> QED
      BY <3>3, <3>4, <3>5, <3>6
  <2>9. /\ \A j \in 1..g : w[4 + p + j] = Size(m)[j]
        /\ w[4 + p + g + 1] = Line("byte", CR) /\ w[4 + p + g + 2] = Line("byte", LF)
        /\ \A i \in 1..m : w[4 + p + g + 2 + i] = Line("byte", B[h + i])
        /\ w[4 + p + g + m + 3] = Line("byte", CR) /\ w[4 + p + g + m + 4] = Line("byte", LF)
    BY <2>4, <2>5, <2>7, <2>8
  <2>10. 4 + p \in Nat
    BY <2>1
  <2>11. IsHead(r, w, k)
    BY <2>1, <2>3, <2>8, <2>9, <2>10 DEF IsHead, g, m
  <2>12. IsData(r, w, k)
    BY <2>1, <2>8, <2>9 DEF IsData, g, m, h, B
  <2> QED
    BY <2>11, <2>12
<1>19. IsEnd(r, w, Place(r, n + 1) + Width(r, n + 1))
  <2> DEFINE e == 4 + lc + d
  <2>1. Place(r, n + 1) + Width(r, n + 1) = e /\ e \in Nat
    BY <1>5, <1>7, <1>13, <1>14, <1>15 DEF lc
  <2>2. \A i \in Int : 6 + lc + d + i = e + 2 + i
    BY <1>7, <1>15
  <2>3. CASE r.trailer
    <3>1. lt = 3 /\ t[1] = Line("byte", 88)
      BY <1>8, <2>3 DEF lt
    <3>2. 1 \in 1..lt /\ 6 + lc + d + 1 = e + 3
      BY <1>7, <1>15, <3>1
    <3>3. w[6 + lc + d + 1] = t[1]
      BY <1>16, <3>2
    <3> QED
      BY <2>1, <2>3, <3>1, <3>2, <3>3 DEF IsEnd
  <2>4. CASE ~r.trailer
    <3>1. lt = 0 /\ 6 + lc + d + lt + 1 = e + 3 /\ 6 + lc + d + lt + 2 = e + 4
      BY <1>7, <1>8, <1>15, <2>4 DEF lt
    <3>2. 1 \in 1..2 /\ 2 \in 1..2
      OBVIOUS
    <3>3. w[6 + lc + d + lt + 1] = CRLF[1] /\ w[6 + lc + d + lt + 2] = CRLF[2]
      BY <1>16, <3>2
    <3> QED
      BY <1>12, <2>1, <2>4, <3>1, <3>3 DEF IsEnd
  <2> QED
    BY <2>3, <2>4
<1>20. IsChunked(r, w)
  <2>1. Place(r, 1) = 4
    BY <1>5, <1>14
  <2> QED
    BY <1>14, <1>17, <1>18, <1>19, <2>1 DEF IsChunked, n
<1>21. Len(w) >= 3
  BY <1>7, <1>15, <1>16
<1> QED
  BY <1>12, <1>16, <1>20, <1>21 DEF IsWire, w

\* Where every item of a reply is on the wire.
LEMMA WireHolds ==
    ASSUME NEW r \in Replies
    PROVE  IsWire(r, OnTheWire(r))
BY LengthWire, ChunkedWire, CloseWire, HttpsAssumption

-----------------------------------------------------------------------------
(* Where the parser is after p items.                                      *)

\* It has stored the first b bytes of the body.
HasBody(r, h, b) ==
    /\ b \in Nat /\ b <= Len(Body(r)) /\ Len(h.body) = b
    /\ \A i \in 1..b : h.body[i] = Body(r)[i]

InHeader(r, h, p) ==
    /\ h.state = "header" /\ h.parsestate = 0 /\ h.status = 0 /\ h.body = <<>>
    /\ p \in 0..3 /\ (r.framing = "close" => p # 3)
    /\ p # 0 => h.code = r.code
    /\ h.contentlength = IF p = 3 /\ r.framing = "length" THEN Len(Body(r)) ELSE -1
    /\ h.chunked <=> p = 3 /\ r.framing = "chunked"

InRaw(r, h, p) ==
    /\ r.framing = "length" /\ h.state = "raw_data" /\ h.status = r.code
    /\ p \in Nat /\ HasBody(r, h, p - 4)
    /\ h.contentlength = Len(Body(r)) - (p - 4) /\ h.contentlength > 0

InUnknown(r, h, p) ==
    /\ r.framing = "close" /\ h.state = "unknown_data" /\ h.status = r.code
    /\ p \in Nat /\ HasBody(r, h, p - 3)
    /\ h.contentlength = -1

\* In the size of chunk k, or in the line end after it.
InSize(r, h, p, k) ==
    /\ k \in 1..(N(r) + 1)
    /\ h.state = "chunk_header" /\ HasBody(r, h, Held(r, k))
    /\ \/ p = Place(r, k) /\ h.parsestate = 0 /\ h.contentlength \in Nat
       \/ \E j \in 1..Width(r, k) :
              /\ p = Place(r, k) + j /\ h.parsestate = 1
              /\ h.contentlength = ValueAfter(SizeOf(r, k), j)
       \/ /\ p = Place(r, k) + Width(r, k) + 1 /\ h.parsestate = 2
          /\ h.contentlength = SizeOf(r, k)

\* m bytes of chunk k were read, but not all of them.
InData(r, h, p, k, m) ==
    /\ k \in 1..N(r)
    /\ h.state = "chunk_data" /\ h.parsestate = 3
    /\ m \in 0..(SizeOf(r, k) - 1)
    /\ p = Place(r, k) + Width(r, k) + 2 + m
    /\ h.contentlength = SizeOf(r, k) - m
    /\ HasBody(r, h, Held(r, k) + m)

\* In the line end after chunk k.
InDataEnd(r, h, p, k) ==
    /\ k \in 1..N(r)
    /\ h.state = "chunk_header" /\ h.contentlength = 1
    /\ HasBody(r, h, Held(r, k + 1))
    /\ \/ p = Place(r, k) + Width(r, k) + SizeOf(r, k) + 2 /\ h.parsestate = 3
       \/ p = Place(r, k) + Width(r, k) + SizeOf(r, k) + 3 /\ h.parsestate = 4

\* In the empty line that ends the last chunk.
InEnd(r, h, p) ==
    /\ h.state = "chunk_header" /\ h.contentlength = 0
    /\ HasBody(r, h, Len(Body(r)))
    /\ \/ p = Place(r, N(r) + 1) + Width(r, N(r) + 1) + 2 /\ h.parsestate = 3
       \/ /\ p = Place(r, N(r) + 1) + Width(r, N(r) + 1) + 3 /\ h.parsestate = 4
          /\ ~r.trailer

InChunks(r, h, p) ==
    /\ r.framing = "chunked" /\ h.status = r.code
    /\ \/ \E k \in 1..(N(r) + 1) : InSize(r, h, p, k)
       \/ \E k \in 1..N(r) : \E m \in 0..(SizeOf(r, k) - 1) : InData(r, h, p, k, m)
       \/ \E k \in 1..N(r) : InDataEnd(r, h, p, k)
       \/ InEnd(r, h, p)

At(r, h, p) ==
    /\ h \in Http
    /\ InHeader(r, h, p) \/ InRaw(r, h, p) \/ InUnknown(r, h, p) \/ InChunks(r, h, p)

\* The parser is done.
Over(r, h) ==
    /\ h \in Http
    /\ \/ h.state = "error"
       \/ h.state = "close" /\ h.status = r.code /\ h.body = Body(r)

\* The parser is at item p, or done.
Onward(r, h, p) == At(r, h, p) \/ Over(r, h)

Ended ==
    \/ http.status = reply.code /\ http.body = Body(reply)
    \/ /\ peer = "eof" /\ cut /\ ~Framed
       /\ http.status = reply.code
       /\ http.body = SubSeq(Body(reply), 1, Len(http.body))
    \/ peer = "eof" /\ cut /\ http.status = 0 /\ http.body = <<>>

\* n items of the reply w were read.
HasRead(w, n) ==
    /\ wire = SubSeq(w, n + 1, n + Len(wire)) /\ n + Len(wire) <= Len(w)
    /\ IF peer = "open" THEN n + Len(wire) = Len(w) /\ cut = FALSE
       ELSE cut = (n + Len(wire) < Len(w))
    /\ client \in {"none", "connecting", "reading"} => At(reply, http, n)

DownloadInv ==
    /\ reply \in Replies /\ wire \in Seq(Item)
    /\ peer \in Peers /\ client \in Clients /\ http \in Http
    /\ client = "returned" => Ended
    /\ \E n \in 0..Len(OnTheWire(reply)) : HasRead(OnTheWire(reply), n)

-----------------------------------------------------------------------------
(* One round of the parser.                                                *)

\* Before the first item the parser expects the header.
LEMMA InitAt ==
    ASSUME NEW r \in Replies
    PROVE  At(r, http_init, 0)
<1>1. http_init \in Http
  BY DEF http_init, Http
<1>2. InHeader(r, http_init, 0)
  BY DEF http_init, InHeader
<1> QED
  BY <1>1, <1>2 DEF At

\* What follows the header.
LEMMA AfterHeaderStep ==
    ASSUME NEW r \in Replies, NEW h \in Http, NEW p \in Nat, InHeader(r, h, p),
           IF r.framing = "close" THEN p = 2 ELSE p = 3
    PROVE  Onward(r, AfterHeader([h EXCEPT !.status = h.code]), p + 1)
<1> DEFINE g == [h EXCEPT !.status = h.code]
           x == AfterHeader(g)
           B == Body(r)
<1>1. ReplyTypes(r) /\ ChunksPartition(r) /\ IsWire(r, OnTheWire(r))
  BY ReplyParts, WireHolds
<1>2. B \in Seq(0..255) /\ Len(B) \in Nat /\ r.code \in Nat
  BY <1>1 DEF ReplyTypes
<1>3. /\ g \in Http /\ g.state = "header" /\ g.parsestate = 0 /\ g.status = r.code
      /\ g.body = <<>> /\ g.contentlength = h.contentlength /\ g.chunked = h.chunked
  BY DEF InHeader, Http
<1> HIDE DEF g
<1>4. ASSUME NEW y, y.body = <<>>
      PROVE  HasBody(r, y, 0)
  BY <1>2, <1>4 DEF HasBody
<1>5. CASE r.framing = "chunked"
  <2>1. x = [g EXCEPT !.state = "chunk_header", !.contentlength = 0]
    BY <1>3, <1>5 DEF AfterHeader, InHeader
  <2> HIDE DEF x
  <2>2. /\ x \in Http /\ x.state = "chunk_header" /\ x.parsestate = 0
        /\ x.status = r.code /\ x.body = <<>> /\ x.contentlength = 0
    <3>1. x = [[g EXCEPT !.state = "chunk_header"] EXCEPT !.contentlength = 0]
      BY <1>3, <2>1 DEF Http
    <3> DEFINE y == [g EXCEPT !.state = "chunk_header"]
    <3>2. /\ y \in Http /\ y.state = "chunk_header" /\ y.parsestate = 0
          /\ y.status = r.code /\ y.body = <<>>
      BY <1>3 DEF Http
    <3> HIDE DEF y
    <3>3. x = [y EXCEPT !.contentlength = 0]
      BY <3>1 DEF y
    <3>4. y \in Http /\ 0 \in Int
      BY <3>2
    <3>5. /\ x \in Http /\ x.contentlength = 0 /\ x.state = y.state
          /\ x.parsestate = y.parsestate /\ x.status = y.status /\ x.body = y.body
      BY ONLY <3>3, <3>4 DEF Http
    <3> QED
      BY <3>2, <3>5
  <2>3. Place(r, 1) = 4 /\ Held(r, 1) = 0 /\ p + 1 = 4 /\ 1 \in 1..(N(r) + 1)
    BY <1>1, <1>5 DEF IsWire, IsChunked, ChunksPartition, ReplyTypes
  <2>4. HasBody(r, x, 0)
    BY <1>4, <2>2
  <2>5. InSize(r, x, p + 1, 1)
    BY <2>2, <2>3, <2>4 DEF InSize
  <2>6. InChunks(r, x, p + 1)
    BY <1>5, <2>2, <2>3, <2>5 DEF InChunks
  <2>7. Onward(r, x, p + 1)
    BY <2>2, <2>6 DEF At, Onward
  <2> QED
    BY <2>7 DEF x, g
<1>6. CASE r.framing = "length"
  <2>1. x = [g EXCEPT !.state = CASE g.contentlength = 0  -> "close"
                                  [] g.contentlength > 0  -> "raw_data"
                                  [] g.contentlength = -1 -> "unknown_data"
                                  [] OTHER                -> "error"]
    BY <1>3, <1>6 DEF AfterHeader, InHeader
  <2>2. g.contentlength = Len(B) /\ p + 1 = 4
    BY <1>3, <1>6 DEF InHeader
  <2>3. CASE Len(B) = 0
    <3>1. x = [g EXCEPT !.state = "close"]
      BY <2>1, <2>2, <2>3
    <3> HIDE DEF x
    <3>2. x \in Http /\ x.state = "close" /\ x.status = r.code /\ x.body = <<>>
      BY <1>3, <3>1 DEF Http
    <3>3. B = <<>>
      BY <1>2, <2>3, EmptySeq
    <3>4. Onward(r, x, p + 1)
      BY <3>2, <3>3 DEF Over, Onward
    <3> QED
      BY <3>4 DEF x, g
  <2>4. CASE Len(B) > 0
    <3>1. x = [g EXCEPT !.state = "raw_data"]
      BY <1>2, <2>1, <2>2, <2>4
    <3> HIDE DEF x
    <3>2. /\ x \in Http /\ x.state = "raw_data" /\ x.status = r.code /\ x.body = <<>>
          /\ x.contentlength = Len(B)
      BY <1>3, <2>2, <3>1 DEF Http
    <3>3. HasBody(r, x, 0)
      BY <1>4, <3>2
    <3>4. InRaw(r, x, 4)
      BY <1>2, <1>6, <2>4, <3>2, <3>3 DEF InRaw
    <3>5. Onward(r, x, p + 1)
      BY <2>2, <3>2, <3>4 DEF At, Onward
    <3> QED
      BY <3>5 DEF x, g
  <2> QED
    BY <1>2, <2>3, <2>4
<1>7. CASE r.framing = "close"
  <2>1. g.contentlength = -1 /\ p + 1 = 3 /\ ~g.chunked
    BY <1>3, <1>7 DEF InHeader
  <2>2. x = [g EXCEPT !.state = "unknown_data"]
    BY <2>1 DEF AfterHeader
  <2> HIDE DEF x
  <2>3. /\ x \in Http /\ x.state = "unknown_data" /\ x.status = r.code /\ x.body = <<>>
        /\ x.contentlength = -1
    BY <1>3, <2>1, <2>2 DEF Http
  <2>4. HasBody(r, x, 0)
    BY <1>4, <2>3
  <2>5. InUnknown(r, x, 3)
    BY <1>7, <2>3, <2>4 DEF InUnknown
  <2>6. Onward(r, x, p + 1)
    BY <2>1, <2>3, <2>5 DEF At, Onward
  <2> QED
    BY <2>6 DEF x, g
<1> QED
  BY <1>1, <1>5, <1>6, <1>7 DEF ReplyTypes

\* A line of the header.
LEMMA HeaderStep ==
    ASSUME NEW r \in Replies, NEW h \in Http, NEW p \in Nat, InHeader(r, h, p)
    PROVE  Onward(r, Header(h, OnTheWire(r)[p + 1]), p + 1)
<1> DEFINE w == OnTheWire(r)
           c == w[p + 1]
           x == Header(h, c)
<1>1. ReplyTypes(r) /\ IsWire(r, w)
  BY ReplyParts, WireHolds
<1> HIDE DEF w
<1>2. p \in 0..3 /\ h.state = "header" /\ h.parsestate = 0 /\ h.status = 0 /\ h.body = <<>>
  BY DEF InHeader
<1>3. CASE p = 0
  <2>1. c = Line("status", r.code)
    BY <1>1, <1>3 DEF IsWire
  <2>2. x = [h EXCEPT !.code = r.code]
    BY <2>1 DEF Header, Line
  <2> HIDE DEF x
  <2>3. x \in Http /\ InHeader(r, x, 1)
    BY <1>1, <1>3, <2>2 DEF ReplyTypes, Http, InHeader
  <2> QED
    BY <1>3, <2>3 DEF At, Onward, x, w
<1>4. CASE p = 1
  <2>1. c = Line("other", 0)
    BY <1>1, <1>4 DEF IsWire
  <2>2. x = h
    BY <2>1 DEF Header, Line
  <2> HIDE DEF x
  <2>3. x \in Http /\ InHeader(r, x, 2)
    BY <1>4, <2>2 DEF InHeader
  <2> QED
    BY <1>4, <2>3 DEF At, Onward, x, w
<1>5. CASE p = 2 /\ r.framing = "length"
  <2>1. c = Line("content-length", Len(Body(r)))
    BY <1>1, <1>5 DEF IsWire
  <2>2. x = [h EXCEPT !.contentlength = Len(Body(r))]
    BY <2>1 DEF Header, Line
  <2> HIDE DEF x
  <2>3. x \in Http /\ InHeader(r, x, 3)
    BY <1>1, <1>5, <2>2 DEF ReplyTypes, Http, InHeader
  <2> QED
    BY <1>5, <2>3 DEF At, Onward, x, w
<1>6. CASE p = 2 /\ r.framing = "chunked"
  <2>1. c = Line("chunked", 0)
    BY <1>1, <1>6 DEF IsWire
  <2>2. x = [h EXCEPT !.chunked = TRUE]
    BY <2>1 DEF Header, Line
  <2> HIDE DEF x
  <2>3. /\ x \in Http /\ x.state = "header" /\ x.parsestate = 0 /\ x.status = 0
        /\ x.body = <<>> /\ x.chunked = TRUE /\ x.code = h.code
        /\ x.contentlength = h.contentlength
    BY <1>2, <2>2 DEF Http
  <2>4. InHeader(r, x, 3)
    BY <1>6, <2>3 DEF InHeader
  <2> QED
    BY <1>6, <2>3, <2>4 DEF At, Onward, x, w
<1>7. CASE p = 3 \/ (p = 2 /\ r.framing = "close")
  <2>1. IF r.framing = "close" THEN p = 2 ELSE p = 3
    BY <1>7 DEF InHeader
  <2>2. c = Line("end", 0)
    BY <1>1, <2>1 DEF IsWire, ReplyTypes
  <2>3. x = AfterHeader([h EXCEPT !.status = h.code])
    BY <2>2 DEF Header, Line
  <2> QED
    BY <2>1, <2>3, AfterHeaderStep DEF w
<1> QED
  BY <1>1, <1>2, <1>3, <1>4, <1>5, <1>6, <1>7 DEF ReplyTypes

\* x is h with another state of the table, size and state.
Becomes(x, h, s, size, state) ==
    /\ x \in Http /\ x.parsestate = s /\ x.contentlength = size /\ x.state = state
    /\ x.status = h.status /\ x.body = h.body

\* The table http_chunk_state, row by row.
LEMMA ChunkTable ==
    ASSUME NEW h \in Http, h.state = "chunk_header", NEW c \in Nat
    PROVE  LET x == ChunkHeader(h, c)
               s == h.parsestate
               size == h.contentlength
           IN  /\ s = 0 /\ Hex(c) \in Nat => Becomes(x, h, 1, Hex(c), "chunk_header")
               /\ s = 1 /\ Hex(c) \in Nat =>
                      Becomes(x, h, 1, 16 * size + Hex(c), "chunk_header")
               /\ s = 1 /\ c = CR => Becomes(x, h, 2, size, "chunk_header")
               /\ s = 2 /\ c = LF /\ size = 0 => Becomes(x, h, 3, 0, "chunk_header")
               /\ s = 2 /\ c = LF /\ size > 0 => Becomes(x, h, 3, size, "chunk_data")
               /\ s = 3 /\ c = CR => Becomes(x, h, 4, size, "chunk_header")
               /\ s = 4 /\ c = LF /\ size = 0 => Becomes(x, h, 0, 0, "close")
               /\ s = 4 /\ c = LF /\ size = 1 => Becomes(x, h, 0, 1, "chunk_header")
               /\ s = 3 /\ c = 88 => Becomes(x, h, 1, -1, "error")
<1> DEFINE s == h.parsestate
           size == h.contentlength
           x == ChunkHeader(h, c)
           q == http_parse_chunked(s, size, c)
           st == IF q.more THEN h.state
                 ELSE CASE q.size = -1 -> "error"
                        [] q.size = 0  -> "close"
                        [] OTHER       -> "chunk_data"
<1>1. s \in 0..4 /\ size \in Int
  BY DEF Http
<1>2. x = [h EXCEPT !.parsestate = q.s, !.contentlength = q.size, !.state = st]
  BY DEF ChunkHeader
<1>3. ASSUME NEW a \in 0..4, NEW b \in Int,
             NEW t \in {"chunk_header", "chunk_data", "close", "error"},
             q.s = a, q.size = b, st = t
      PROVE  Becomes(x, h, a, b, t)
  <2> DEFINE y == [h EXCEPT !.parsestate = a]
             z == [y EXCEPT !.contentlength = b]
             u == [z EXCEPT !.state = t]
  <2>1. y \in Http /\ y.parsestate = a /\ y.status = h.status /\ y.body = h.body
    BY DEF Http
  <2>2. x = u
    <3> HIDE DEF x, q, st
    <3>1. x = [h EXCEPT !.parsestate = a, !.contentlength = b, !.state = t]
      BY <1>2, <1>3
    <3> QED
      BY <3>1 DEF Http
  <2> HIDE DEF y
  <2>3. z \in Http /\ z.parsestate = a /\ z.contentlength = b /\ z.status = h.status
        /\ z.body = h.body
    BY <2>1 DEF Http
  <2> HIDE DEF z
  <2>4. u \in Http /\ u.parsestate = a /\ u.contentlength = b /\ u.status = h.status
        /\ u.body = h.body /\ u.state = t
    BY <2>3 DEF Http
  <2> QED
    BY <2>2, <2>4 DEF Becomes
<1>4. /\ ~IsHex(CR) /\ ~IsHex(LF) /\ ~IsHex(88) /\ CR # LF
      /\ CR # 88 /\ CR = 13 /\ LF = 10
  BY DEF IsHex, Hex, CR, LF
<1>5. Hex(c) \in Nat => IsHex(c)
  BY DEF IsHex
<1>6. q = CASE s = 0 /\ IsHex(c) -> [s |-> 1, size |-> Hex(c), more |-> TRUE]
      [] s = 1 /\ IsHex(c) -> [s |-> 1, size |-> 16 * size + Hex(c), more |-> TRUE]
      [] s = 1 /\ c = CR   -> [s |-> 2, size |-> size, more |-> TRUE]
      [] s = 2 /\ c = LF   -> [s |-> 3, size |-> size, more |-> size = 0]
      [] s = 3 /\ c = CR   -> [s |-> 4, size |-> size, more |-> TRUE]
      [] s = 4 /\ c = LF   -> [s |-> 0, size |-> size, more |-> size # 0]
      [] OTHER             -> [s |-> 1, size |-> -1, more |-> FALSE]
  BY DEF http_parse_chunked
<1> HIDE DEF s, size, x, q
<1>7. CASE s = 0 /\ Hex(c) \in Nat
  <2>1. q = [s |-> 1, size |-> Hex(c), more |-> TRUE]
    BY <1>5, <1>6, <1>7
  <2>2. Becomes(x, h, 1, Hex(c), "chunk_header")
    BY <1>3, <1>7, <2>1
  <2> QED
    BY <1>7, <2>2 DEF s, size, x
<1>8. CASE s = 1 /\ Hex(c) \in Nat
  <2>1. q = [s |-> 1, size |-> 16 * size + Hex(c), more |-> TRUE]
    BY <1>4, <1>5, <1>6, <1>8
  <2>2. 16 * size + Hex(c) \in Int
    BY <1>1, <1>8
  <2>3. Becomes(x, h, 1, 16 * size + Hex(c), "chunk_header")
    BY <1>3, <2>1, <2>2
  <2>4. c # CR
    BY <1>4, <1>5, <1>8
  <2> QED
    BY <1>8, <2>3, <2>4 DEF s, size, x
<1>9. CASE s = 1 /\ c = CR
  <2>1. q = [s |-> 2, size |-> size, more |-> TRUE]
    BY <1>4, <1>6, <1>9
  <2>2. Becomes(x, h, 2, size, "chunk_header")
    BY <1>1, <1>3, <2>1
  <2>3. Hex(c) \notin Nat
    BY <1>4, <1>5, <1>9
  <2> QED
    BY <1>9, <2>2, <2>3 DEF s, size, x
<1>10. CASE s = 2 /\ c = LF
  <2>1. q = [s |-> 3, size |-> size, more |-> size = 0]
    BY <1>4, <1>6, <1>10
  <2>2. CASE size = 0
    <3>1. q.s = 3 /\ q.size = 0 /\ q.more
      BY <2>1, <2>2
    <3>2. Becomes(x, h, 3, 0, "chunk_header")
      BY <1>3, <3>1
    <3> QED
      BY <1>10, <2>2, <3>2 DEF s, size, x
  <2>3. CASE size > 0
    <3>3. size # -1 /\ size # 0
      BY <1>1, <2>3
    <3>4. (size = 0) = FALSE
      BY <3>3
    <3>5. q = [s |-> 3, size |-> size, more |-> FALSE]
      BY <2>1, <3>4
    <3>1. q.s = 3 /\ q.size = size /\ ~q.more /\ size # -1 /\ size # 0
      BY <3>3, <3>5
    <3>2. Becomes(x, h, 3, size, "chunk_data")
      BY <1>1, <1>3, <3>1
    <3> QED
      BY <1>10, <2>3, <3>1, <3>2 DEF s, size, x
  <2>4. CASE ~(size = 0 \/ size > 0)
    BY <1>10, <2>4 DEF s, size, x
  <2> QED
    BY <2>2, <2>3, <2>4
<1>11. CASE s = 3 /\ c = CR
  <2>1. q = [s |-> 4, size |-> size, more |-> TRUE]
    BY <1>4, <1>6, <1>11
  <2>2. Becomes(x, h, 4, size, "chunk_header")
    BY <1>1, <1>3, <2>1
  <2> QED
    BY <1>4, <1>11, <2>2 DEF s, size, x
<1>12. CASE s = 4 /\ c = LF
  <2>1. q = [s |-> 0, size |-> size, more |-> size # 0]
    BY <1>4, <1>6, <1>12
  <2>2. CASE size = 0
    <3>1. q.s = 0 /\ q.size = 0 /\ ~q.more
      BY <2>1, <2>2
    <3>2. Becomes(x, h, 0, 0, "close")
      BY <1>3, <3>1
    <3> QED
      BY <1>12, <2>2, <3>2 DEF s, size, x
  <2>3. CASE size = 1
    <3>3. (size # 0) = TRUE
      BY <2>3
    <3>4. q = [s |-> 0, size |-> 1, more |-> TRUE]
      BY <2>1, <2>3, <3>3
    <3>1. q.s = 0 /\ q.size = 1 /\ q.more
      BY <3>4
    <3>2. Becomes(x, h, 0, 1, "chunk_header")
      BY <1>3, <3>1
    <3> QED
      BY <1>12, <2>3, <3>2 DEF s, size, x
  <2>4. CASE ~(size = 0 \/ size = 1)
    BY <1>12, <2>4 DEF s, size, x
  <2> QED
    BY <2>2, <2>3, <2>4
<1>13. CASE s = 3 /\ c = 88
  <2>1. q = [s |-> 1, size |-> -1, more |-> FALSE]
    BY <1>4, <1>6, <1>13
  <2>2. q.s = 1 /\ q.size = -1 /\ ~q.more /\ -1 \in Int
    BY <2>1
  <2>3. Becomes(x, h, 1, -1, "error")
    BY <1>3, <2>2
  <2> QED
    BY <1>4, <1>13, <2>3 DEF s, size, x
<1>14. CASE ~(\/ s = 0 /\ Hex(c) \in Nat
              \/ s = 1 /\ Hex(c) \in Nat
              \/ s = 1 /\ c = CR
              \/ s = 2 /\ c = LF
              \/ s = 3 /\ c = CR
              \/ s = 4 /\ c = LF
              \/ s = 3 /\ c = 88)
  BY <1>14 DEF s, size, x
<1> QED
  BY <1>7, <1>8, <1>9, <1>10, <1>11, <1>12, <1>13, <1>14

\* What is stored depends on the body only.
LEMMA SameBody ==
    ASSUME NEW r, NEW h, NEW x, x.body = h.body, NEW b, HasBody(r, h, b)
    PROVE  HasBody(r, x, b)
BY DEF HasBody

\* The parts of a chunked reply, in one place.
LEMMA ChunkParts ==
    ASSUME NEW r \in Replies, r.framing = "chunked", NEW k \in 1..(N(r) + 1)
    PROVE  /\ IsHead(r, OnTheWire(r), k)
           /\ N(r) \in Nat /\ Len(Body(r)) \in Nat
           /\ SizeOf(r, k) \in Nat /\ SizeOf(r, k) <= LargestInt
           /\ Held(r, k) \in Nat
           /\ k \in 1..N(r) => /\ IsData(r, OnTheWire(r), k) /\ SizeOf(r, k) # 0
                               /\ Held(r, k + 1) = Held(r, k) + SizeOf(r, k)
                               /\ Held(r, k + 1) \in Nat /\ Held(r, k + 1) <= Len(Body(r))
           /\ k \notin 1..N(r) => /\ k = N(r) + 1 /\ SizeOf(r, k) = 0
                                  /\ Held(r, k) = Len(Body(r))
           /\ IsEnd(r, OnTheWire(r), Place(r, N(r) + 1) + Width(r, N(r) + 1))
<1>1. ReplyTypes(r) /\ ChunksPartition(r) /\ IsWire(r, OnTheWire(r))
  BY ReplyParts, WireHolds
<1>2. IsChunked(r, OnTheWire(r))
  BY <1>1 DEF IsWire
<1>3. N(r) \in Nat /\ Len(Body(r)) \in Nat
  BY <1>1 DEF ReplyTypes
<1>4. k \in 1..N(r) => k + 1 \in 1..(N(r) + 1)
  BY <1>3
<1>5. k \notin 1..N(r) => k = N(r) + 1
  BY <1>3
<1> QED
  BY <1>1, <1>2, <1>3, <1>4, <1>5 DEF IsChunked, ChunksPartition

\* A byte of the size of a chunk, or of the line end after it.
LEMMA SizeStep ==
    ASSUME NEW r \in Replies, r.framing = "chunked", NEW h \in Http, h.status = r.code,
           NEW p \in Nat, NEW k \in 1..(N(r) + 1), InSize(r, h, p, k)
    PROVE  Onward(r, ChunkHeader(h, OnTheWire(r)[p + 1].n), p + 1)
<1> DEFINE w == OnTheWire(r)
           P == Place(r, k)
           D == Width(r, k)
           S == SizeOf(r, k)
           H == Held(r, k)
           c == w[p + 1].n
           x == ChunkHeader(h, c)
<1>1. /\ P \in Nat /\ D \in Nat
      /\ \A j \in 1..D : w[P + j] = Size(S)[j]
      /\ w[P + D + 1] = Line("byte", CR)
      /\ w[P + D + 2] = Line("byte", LF)
      /\ S \in Nat /\ S <= LargestInt /\ H \in Nat
  BY ChunkParts DEF IsHead
<1>2. /\ D \in Nat \ {0}
      /\ \A j \in 1..D : Size(S)[j].n \in Nat /\ Hex(Size(S)[j].n) \in Nat
      /\ \A j \in 1..D : /\ ValueAfter(S, j) = IF j = 1 THEN Hex(Size(S)[1].n)
                                          ELSE 16 * ValueAfter(S, j - 1) + Hex(Size(S)[j].n)
                         /\ ValueAfter(S, j) \in Nat
      /\ ValueAfter(S, D) = S
  BY <1>1, SizeIsHex DEF Width
<1>3. h.state = "chunk_header" /\ HasBody(r, h, H)
  BY DEF InSize
<1>4. /\ CR \in Nat /\ LF \in Nat
      /\ Line("byte", CR).n = CR /\ Line("byte", LF).n = LF
  BY DEF CR, LF, Line
<1>5. ASSUME NEW b \in Int, x \in Http, x.state = "chunk_header", x.status = h.status,
             x.body = h.body, InSize(r, x, p + 1, k)
      PROVE  Onward(r, x, p + 1)
  BY <1>5 DEF Onward, At, InChunks
<1> HIDE DEF P, D, S, H, c, w
<1>6. CASE p = P /\ h.parsestate = 0
  <2>1. 1 \in 1..D
    BY <1>2
  <2>2. c = Size(S)[1].n
    BY <1>1, <1>6, <2>1 DEF c
  <2>3. c \in Nat /\ Hex(c) \in Nat /\ ValueAfter(S, 1) = Hex(c)
    BY <1>2, <2>1, <2>2
  <2>4. Becomes(x, h, 1, Hex(c), "chunk_header")
    BY <1>3, <1>6, <2>3, ChunkTable
  <2> HIDE DEF x
  <2>5. /\ x \in Http /\ x.parsestate = 1 /\ x.contentlength = ValueAfter(S, 1)
        /\ x.state = "chunk_header" /\ x.status = h.status /\ x.body = h.body
    BY <2>3, <2>4 DEF Becomes
  <2>6. HasBody(r, x, H)
    BY <1>3, <2>5, SameBody
  <2>7. InSize(r, x, p + 1, k)
    BY <1>6, <2>1, <2>5, <2>6 DEF InSize, P, D, S, H
  <2>8. Onward(r, x, p + 1)
    BY <1>5, <2>5, <2>7
  <2> QED
    BY <2>8 DEF x, c, w
<1>7. ASSUME NEW j \in 1..D, p = P + j, h.parsestate = 1, h.contentlength = ValueAfter(S, j)
      PROVE  Onward(r, x, p + 1)
  <2>1. CASE j = D
    <3>1. c = CR /\ h.contentlength = S
      BY <1>1, <1>2, <1>4, <1>7, <2>1 DEF c
    <3>2. Becomes(x, h, 2, S, "chunk_header")
      BY <1>3, <1>4, <1>7, <3>1, ChunkTable
    <3> HIDE DEF x
    <3>3. /\ x \in Http /\ x.parsestate = 2 /\ x.contentlength = S
          /\ x.state = "chunk_header" /\ x.status = h.status /\ x.body = h.body
      BY <3>2 DEF Becomes
    <3>4. HasBody(r, x, H)
      BY <1>3, <3>3, SameBody
    <3>5. p + 1 = P + D + 1
      BY <1>7, <2>1
    <3>6. InSize(r, x, p + 1, k)
      BY <3>3, <3>4, <3>5 DEF InSize, P, D, S, H
    <3> QED
      BY <1>5, <3>3, <3>6
  <2>2. CASE j # D
    <3>1. j + 1 \in 1..D /\ P + (j + 1) = p + 1 /\ j + 1 # 1 /\ (j + 1) - 1 = j
      BY <1>1, <1>7, <2>2
    <3>2. c = Size(S)[j + 1].n
      BY <1>1, <3>1 DEF c
    <3>3. c \in Nat /\ Hex(c) \in Nat /\ ValueAfter(S, j + 1) = 16 * ValueAfter(S, j) + Hex(c)
      BY <1>2, <3>1, <3>2
    <3>4. Becomes(x, h, 1, 16 * h.contentlength + Hex(c), "chunk_header")
      BY <1>3, <1>7, <3>3, ChunkTable
    <3> HIDE DEF x
    <3>5. /\ x \in Http /\ x.parsestate = 1 /\ x.contentlength = ValueAfter(S, j + 1)
          /\ x.state = "chunk_header" /\ x.status = h.status /\ x.body = h.body
      BY <1>7, <3>3, <3>4 DEF Becomes
    <3>6. HasBody(r, x, H)
      BY <1>3, <3>5, SameBody
    <3>7. InSize(r, x, p + 1, k)
      BY <3>1, <3>5, <3>6 DEF InSize, P, D, S, H
    <3> QED
      BY <1>5, <3>5, <3>7
  <2> QED
    BY <2>1, <2>2
<1>8. CASE p = P + D + 1 /\ h.parsestate = 2 /\ h.contentlength = S
  <2>1. c = LF
    <3>1. p + 1 = P + D + 2
      BY <1>1, <1>8
    <3> QED
      BY <1>1, <1>4, <3>1 DEF c
  <2>2. CASE k \in 1..N(r)
    <3>1. S > 0 /\ S # 0
      BY <1>1, <2>2, ChunkParts DEF S
    <3>2. Becomes(x, h, 3, S, "chunk_data")
      BY <1>3, <1>4, <1>8, <2>1, <3>1, ChunkTable
    <3> HIDE DEF x
    <3>3. /\ x \in Http /\ x.parsestate = 3 /\ x.contentlength = S - 0
          /\ x.state = "chunk_data" /\ x.status = h.status /\ x.body = h.body
      BY <1>1, <3>2 DEF Becomes
    <3>4. HasBody(r, x, H + 0)
      <4>1. H + 0 = H
        BY <1>1
      <4> QED
        BY <1>3, <3>3, <4>1, SameBody
    <3>5. 0 \in 0..(S - 1) /\ p + 1 = P + D + 2 + 0
      BY <1>1, <1>8, <3>1
    <3>6. InData(r, x, p + 1, k, 0)
      BY <2>2, <3>3, <3>4, <3>5 DEF InData, P, D, S, H
    <3>7. InChunks(r, x, p + 1)
      BY <2>2, <3>3, <3>5, <3>6 DEF InChunks, S
    <3>8. Onward(r, x, p + 1)
      BY <3>3, <3>7 DEF Onward, At
    <3> QED
      BY <3>8 DEF x, c, w
  <2>3. CASE k \notin 1..N(r)
    <3>1. k = N(r) + 1 /\ S = 0 /\ H = Len(Body(r))
      BY <2>3, ChunkParts DEF S, H
    <3>2. Becomes(x, h, 3, 0, "chunk_header")
      BY <1>3, <1>4, <1>8, <2>1, <3>1, ChunkTable
    <3> HIDE DEF x
    <3>3. /\ x \in Http /\ x.parsestate = 3 /\ x.contentlength = 0
          /\ x.state = "chunk_header" /\ x.status = h.status /\ x.body = h.body
      BY <3>2 DEF Becomes
    <3>4. HasBody(r, x, Len(Body(r)))
      BY <1>3, <3>1, <3>3, SameBody
    <3>5. p + 1 = P + D + 2
      BY <1>1, <1>8
    <3>6. InEnd(r, x, p + 1)
      BY <3>1, <3>3, <3>4, <3>5 DEF InEnd, P, D
    <3>7. InChunks(r, x, p + 1)
      BY <3>3, <3>6 DEF InChunks
    <3>8. Onward(r, x, p + 1)
      BY <3>3, <3>7 DEF Onward, At
    <3> QED
      BY <3>8 DEF x, c, w
  <2> QED
    BY <2>2, <2>3
<1>9. \/ p = P /\ h.parsestate = 0
      \/ \E j \in 1..D : p = P + j /\ h.parsestate = 1 /\ h.contentlength = ValueAfter(S, j)
      \/ p = P + D + 1 /\ h.parsestate = 2 /\ h.contentlength = S
  BY DEF InSize, P, D, S
<1>10. Onward(r, x, p + 1)
  <2> HIDE DEF x
  <2>1. Onward(r, ChunkHeader(h, OnTheWire(r)[p + 1].n), p + 1) <=> Onward(r, x, p + 1)
    BY DEF x, c, w
  <2> QED
    BY <1>6, <1>7, <1>8, <1>9, <2>1
<1> QED
  BY <1>10 DEF x, c, w

\* A byte of the line end after a chunk.
LEMMA DataEndStep ==
    ASSUME NEW r \in Replies, r.framing = "chunked", NEW h \in Http, h.status = r.code,
           NEW p \in Nat, NEW k \in 1..N(r), InDataEnd(r, h, p, k)
    PROVE  Onward(r, ChunkHeader(h, OnTheWire(r)[p + 1].n), p + 1)
<1> DEFINE w == OnTheWire(r)
           q == Place(r, k) + Width(r, k) + SizeOf(r, k)
           c == w[p + 1].n
           x == ChunkHeader(h, c)
<1>1. k \in 1..(N(r) + 1) /\ k + 1 \in 1..(N(r) + 1)
  BY ReplyParts DEF ReplyTypes
<1>2. /\ w[q + 3] = Line("byte", CR) /\ w[q + 4] = Line("byte", LF)
      /\ Place(r, k + 1) = q + 4 /\ q \in Nat
  <2> DEFINE P == Place(r, k) D == Width(r, k) S == SizeOf(r, k)
  <2>1. IsHead(r, w, k) /\ IsData(r, w, k) /\ S \in Nat
    BY <1>1, ChunkParts
  <2>2. P \in Nat /\ D \in Nat
    BY <2>1 DEF IsHead
  <2>3. /\ w[P + D + S + 3] = Line("byte", CR) /\ w[P + D + S + 4] = Line("byte", LF)
        /\ Place(r, k + 1) = P + D + S + 4
    BY <2>1 DEF IsData
  <2> HIDE DEF P, D, S, w
  <2>4. P + D + S \in Nat
    BY <2>1, <2>2
  <2> QED
    BY <2>3, <2>4 DEF P, D, S
<1>3. /\ h.state = "chunk_header" /\ HasBody(r, h, Held(r, k + 1)) /\ h.contentlength = 1
      /\ (p = q + 2 /\ h.parsestate = 3) \/ (p = q + 3 /\ h.parsestate = 4)
  BY DEF InDataEnd
<1>4. /\ CR \in Nat /\ LF \in Nat
      /\ Line("byte", CR).n = CR /\ Line("byte", LF).n = LF
  BY DEF CR, LF, Line
<1> HIDE DEF q, c, w
<1>5. CASE p = q + 2 /\ h.parsestate = 3
  <2>1. c = CR
    <3>1. p + 1 = q + 3
      BY <1>2, <1>5
    <3> QED
      BY <1>2, <1>4, <3>1 DEF c
  <2>2. Becomes(x, h, 4, 1, "chunk_header")
    BY <1>3, <1>4, <1>5, <2>1, ChunkTable
  <2> HIDE DEF x
  <2>3. /\ x \in Http /\ x.parsestate = 4 /\ x.contentlength = 1
        /\ x.state = "chunk_header" /\ x.status = h.status /\ x.body = h.body
    BY <2>2 DEF Becomes
  <2>4. HasBody(r, x, Held(r, k + 1))
    BY <1>3, <2>3, SameBody
  <2>5. p + 1 = q + 3
    BY <1>2, <1>5
  <2>6. InDataEnd(r, x, p + 1, k)
    BY <2>3, <2>4, <2>5 DEF InDataEnd, q
  <2>7. InChunks(r, x, p + 1)
    BY <2>3, <2>6 DEF InChunks
  <2>8. Onward(r, x, p + 1)
    BY <2>3, <2>7 DEF Onward, At
  <2> QED
    BY <2>8 DEF x, c, w
<1>6. CASE p = q + 3 /\ h.parsestate = 4
  <2>1. c = LF
    <3>1. p + 1 = q + 4
      BY <1>2, <1>6
    <3> QED
      BY <1>2, <1>4, <3>1 DEF c
  <2>2. Becomes(x, h, 0, 1, "chunk_header")
    BY <1>3, <1>4, <1>6, <2>1, ChunkTable
  <2> HIDE DEF x
  <2>3. /\ x \in Http /\ x.parsestate = 0 /\ x.contentlength \in Nat
        /\ x.state = "chunk_header" /\ x.status = h.status /\ x.body = h.body
    BY <2>2 DEF Becomes
  <2>4. HasBody(r, x, Held(r, k + 1))
    BY <1>3, <2>3, SameBody
  <2>5. p + 1 = Place(r, k + 1)
    BY <1>2, <1>6
  <2>6. InSize(r, x, p + 1, k + 1)
    BY <1>1, <2>3, <2>4, <2>5 DEF InSize
  <2>7. InChunks(r, x, p + 1)
    BY <1>1, <2>3, <2>6 DEF InChunks
  <2>8. Onward(r, x, p + 1)
    BY <2>3, <2>7 DEF Onward, At
  <2> QED
    BY <2>8 DEF x, c, w
<1> QED
  BY <1>3, <1>5, <1>6

\* A byte of the line that ends the last chunk.  With a field in its place
\* the parser gives up.
LEMMA EndStep ==
    ASSUME NEW r \in Replies, r.framing = "chunked", NEW h \in Http, h.status = r.code,
           NEW p \in Nat, InEnd(r, h, p)
    PROVE  Onward(r, ChunkHeader(h, OnTheWire(r)[p + 1].n), p + 1)
<1> DEFINE w == OnTheWire(r)
           q == Place(r, N(r) + 1) + Width(r, N(r) + 1)
           c == w[p + 1].n
           x == ChunkHeader(h, c)
           B == Body(r)
<1>1. N(r) + 1 \in 1..(N(r) + 1) /\ B \in Seq(0..255)
  BY ReplyParts DEF ReplyTypes
<1>2. IsEnd(r, w, q) /\ q \in Nat
  <2>1. IsHead(r, w, N(r) + 1) /\ IsEnd(r, w, q)
    BY <1>1, ChunkParts
  <2>2. Place(r, N(r) + 1) \in Nat /\ Width(r, N(r) + 1) \in Nat
    BY <2>1 DEF IsHead
  <2> QED
    BY <2>1, <2>2
<1>3. /\ h.state = "chunk_header" /\ HasBody(r, h, Len(B)) /\ h.contentlength = 0
      /\ (p = q + 2 /\ h.parsestate = 3) \/ (p = q + 3 /\ h.parsestate = 4 /\ ~r.trailer)
  BY DEF InEnd
<1>4. /\ CR \in Nat /\ LF \in Nat /\ Line("byte", 88).n = 88
      /\ Line("byte", CR).n = CR /\ Line("byte", LF).n = LF
  BY DEF CR, LF, Line
<1> HIDE DEF q, c, w, B
<1>5. CASE p = q + 2 /\ h.parsestate = 3 /\ r.trailer
  <2>1. c = 88
    <3>1. p + 1 = q + 3
      BY <1>2, <1>5
    <3> QED
      BY <1>2, <1>4, <1>5, <3>1 DEF c, IsEnd
  <2>2. Becomes(x, h, 1, -1, "error")
    BY <1>3, <1>5, <2>1, ChunkTable
  <2> HIDE DEF x
  <2>3. Onward(r, x, p + 1)
    BY <2>2 DEF Becomes, Onward, Over
  <2> QED
    BY <2>3 DEF x, c, w
<1>6. CASE p = q + 2 /\ h.parsestate = 3 /\ ~r.trailer
  <2>1. c = CR
    <3>1. p + 1 = q + 3
      BY <1>2, <1>6
    <3> QED
      BY <1>2, <1>4, <1>6, <3>1 DEF c, IsEnd
  <2>2. Becomes(x, h, 4, 0, "chunk_header")
    BY <1>3, <1>4, <1>6, <2>1, ChunkTable
  <2> HIDE DEF x
  <2>3. /\ x \in Http /\ x.parsestate = 4 /\ x.contentlength = 0
        /\ x.state = "chunk_header" /\ x.status = h.status /\ x.body = h.body
    BY <2>2 DEF Becomes
  <2>4. HasBody(r, x, Len(B))
    BY <1>3, <2>3, SameBody
  <2>5. p + 1 = q + 3
    BY <1>2, <1>6
  <2>6. InEnd(r, x, p + 1)
    BY <1>6, <2>3, <2>4, <2>5 DEF InEnd, q, B
  <2>7. InChunks(r, x, p + 1)
    BY <2>3, <2>6 DEF InChunks
  <2>8. Onward(r, x, p + 1)
    BY <2>3, <2>7 DEF Onward, At
  <2> QED
    BY <2>8 DEF x, c, w
<1>7. CASE p = q + 3 /\ h.parsestate = 4 /\ ~r.trailer
  <2>1. c = LF
    <3>1. p + 1 = q + 4
      BY <1>2, <1>7
    <3> QED
      BY <1>2, <1>4, <1>7, <3>1 DEF c, IsEnd
  <2>2. Becomes(x, h, 0, 0, "close")
    BY <1>3, <1>4, <1>7, <2>1, ChunkTable
  <2> HIDE DEF x
  <2>3. /\ x \in Http /\ x.state = "close" /\ x.status = h.status /\ x.body = h.body
    BY <2>2 DEF Becomes
  <2>4. HasBody(r, x, Len(B))
    BY <1>3, <2>3, SameBody
  <2>5. x.body = B
    <3>1. x.body \in Seq(0..255)
      BY <2>3 DEF Http
    <3>2. Len(x.body) = Len(B) /\ \A i \in 1..Len(x.body) : x.body[i] = B[i]
      BY <2>4 DEF HasBody, B
    <3> QED
      BY <1>1, <3>1, <3>2, SeqEqual
  <2>6. Onward(r, x, p + 1)
    BY <2>3, <2>5 DEF Onward, Over, B
  <2> QED
    BY <2>6 DEF x, c, w
<1> QED
  BY <1>3, <1>5, <1>6, <1>7

\* d is a part of w, from item p + 1 on.
SliceOf(d, w, p) ==
    /\ d \in Seq(Item) /\ p + Len(d) <= Len(w)
    /\ \A i \in 1..Len(d) : d[i] = w[p + i]

\* The parser's state with the bytes d stored.
Taken(h, d) == [h EXCEPT !.body = @ \o [i \in DOMAIN d |-> d[i].n]]

\* With the next bytes of the body stored, the parser has that much more of it.
LEMMA TakenHasBody ==
    ASSUME NEW r \in Replies, NEW h \in Http, NEW b \in Nat, HasBody(r, h, b),
           NEW d \in Seq(Item), b + Len(d) <= Len(Body(r)),
           \A i \in 1..Len(d) : d[i] = Line("byte", Body(r)[b + i])
    PROVE  /\ Taken(h, d) \in Http
           /\ HasBody(r, Taken(h, d), b + Len(d))
           /\ Taken(h, d).state = h.state /\ Taken(h, d).status = h.status
           /\ Taken(h, d).contentlength = h.contentlength
           /\ Taken(h, d).parsestate = h.parsestate
<1> DEFINE B == Body(r)
           m == Len(d)
           e == [i \in DOMAIN d |-> d[i].n]
           u == h.body \o e
<1>1. B \in Seq(0..255) /\ Len(B) \in Nat
  BY ReplyParts DEF ReplyTypes
<1>2. m \in Nat /\ DOMAIN d = 1..m
  BY LenProperties
<1> HIDE DEF B, m
<1>3. \A i \in 1..m : b + i \in 1..Len(B)
  BY <1>1, <1>2 DEF B, m
<1>4. \A i \in 1..m : B[b + i] \in 0..255
  BY <1>1, <1>3, ElementOfSeq
<1>5. \A i \in 1..m : d[i].n = B[b + i]
  BY <1>2 DEF Line, B, m
<1>6. e = [i \in 1..m |-> B[b + i]]
  BY <1>2, <1>5
<1>7. e \in Seq(0..255) /\ Len(e) = m /\ \A i \in 1..m : e[i] = B[b + i]
  <2> HIDE DEF e
  <2> QED
    BY <1>2, <1>4, <1>6
<1>8. h.body \in Seq(0..255) /\ Len(h.body) = b /\ \A i \in 1..b : h.body[i] = B[i]
  BY DEF HasBody, Http, B
<1> HIDE DEF e
<1>9. u \in Seq(0..255) /\ Joins(u, h.body, e)
  BY <1>7, <1>8, TwoInOne
<1> HIDE DEF u
<1>10. /\ Len(u) = b + m /\ \A i \in 1..b : u[i] = B[i]
       /\ \A i \in 1..m : u[b + i] = B[b + i]
  BY <1>7, <1>8, <1>9 DEF Joins
<1>11. \A i \in 1..(b + m) : u[i] = B[i]
  <2> SUFFICES ASSUME NEW i \in 1..(b + m) PROVE u[i] = B[i]
    OBVIOUS
  <2>1. CASE i \in 1..b
    BY <1>10, <2>1
  <2>2. CASE i \notin 1..b
    <3>1. i - b \in 1..m /\ b + (i - b) = i
      BY <1>2, <2>2
    <3> QED
      BY <1>10, <3>1
  <2> QED
    BY <2>1, <2>2
<1> DEFINE y == [h EXCEPT !.body = u]
<1>12. /\ y \in Http /\ y.body = u /\ y.state = h.state /\ y.status = h.status
       /\ y.contentlength = h.contentlength /\ y.parsestate = h.parsestate
  BY <1>9 DEF Http
<1>13. Taken(h, d) = y
  BY DEF Taken, u, e
<1> HIDE DEF y
<1>14. b + m \in Nat
  BY <1>2
<1>15. HasBody(r, y, b + m)
  BY <1>10, <1>11, <1>12, <1>14 DEF HasBody, B, m
<1> QED
  BY <1>12, <1>13, <1>15 DEF m

\* What is stored in full is the body.
LEMMA WholeBody ==
    ASSUME NEW r \in Replies, NEW h \in Http, HasBody(r, h, Len(Body(r)))
    PROVE  h.body = Body(r)
<1>1. h.body \in Seq(0..255) /\ Body(r) \in Seq(0..255)
  BY ReplyParts DEF Http, ReplyTypes
<1> QED
  BY <1>1, SeqEqual DEF HasBody

\* Bytes of a body whose length was given.
LEMMA RawStep ==
    ASSUME NEW r \in Replies, NEW h \in Http, NEW p \in Nat, InRaw(r, h, p),
           NEW d, SliceOf(d, OnTheWire(r), p), d # <<>>, Len(d) <= h.contentlength
    PROVE  Onward(r, Block(h, d), p + Len(d))
<1> DEFINE B == Body(r)
           m == Len(d)
           y == Taken(h, d)
           x == Block(h, d)
<1>1. ReplyTypes(r) /\ IsPlain(r, OnTheWire(r), 4)
  BY ReplyParts, WireHolds DEF InRaw, IsWire
<1>2. d \in Seq(Item) /\ m \in Nat \ {0} /\ \A i \in 1..m : d[i] = OnTheWire(r)[p + i]
  BY EmptySeq DEF SliceOf
<1>3. /\ h.state = "raw_data" /\ h.status = r.code /\ HasBody(r, h, p - 4)
      /\ h.contentlength = Len(B) - (p - 4) /\ p - 4 \in Nat
  BY DEF InRaw, HasBody
<1>4. Len(B) \in Nat
  BY <1>1 DEF ReplyTypes
<1> HIDE DEF B, m
<1>5. (p - 4) + m <= Len(B) /\ m <= h.contentlength
  BY <1>2, <1>3, <1>4 DEF m
<1>6. \A i \in 1..m : d[i] = Line("byte", B[(p - 4) + i])
  <2> SUFFICES ASSUME NEW i \in 1..m PROVE d[i] = Line("byte", B[(p - 4) + i])
    OBVIOUS
  <2>1. (p - 4) + i \in 1..Len(B) /\ 4 + ((p - 4) + i) = p + i
    BY <1>2, <1>3, <1>4, <1>5
  <2> QED
    BY <1>1, <1>2, <2>1 DEF IsPlain, B
<1>7. /\ y \in Http /\ HasBody(r, y, (p - 4) + m)
      /\ y.state = h.state /\ y.status = h.status
      /\ y.contentlength = h.contentlength
  BY <1>2, <1>3, <1>5, <1>6, TakenHasBody DEF B, m
<1> DEFINE left == h.contentlength - m
           z == [y EXCEPT !.contentlength = left]
           v == [z EXCEPT !.state = "close"]
<1>8. x = IF left = 0 THEN v ELSE z
  <2>1. x = [y EXCEPT !.contentlength = left, !.state = IF left = 0 THEN "close" ELSE @]
    BY <1>3 DEF Block, Taken, m
  <2> HIDE DEF y, x, left
  <2> QED
    BY <1>7, <2>1 DEF Http
<1>9. left \in Nat
  BY <1>2, <1>3, <1>4, <1>5
<1> HIDE DEF y, x, left
<1>10. /\ z \in Http /\ z.body = y.body /\ z.state = "raw_data" /\ z.status = r.code
       /\ z.contentlength = left
  <2>1. y \in Http /\ left \in Int
    BY <1>7, <1>9
  <2>2. /\ z \in Http /\ z.body = y.body /\ z.state = y.state /\ z.status = y.status
        /\ z.contentlength = left
    BY <2>1 DEF Http
  <2> QED
    BY <1>3, <1>7, <2>2
<1> HIDE DEF z
<1>11. CASE left = 0
  <2>1. v \in Http /\ v.body = y.body /\ v.state = "close" /\ v.status = r.code
    BY <1>10 DEF Http
  <2> HIDE DEF v
  <2>2. (p - 4) + m = Len(B)
    BY <1>2, <1>3, <1>4, <1>11 DEF left
  <2>3. HasBody(r, v, Len(B))
    BY <1>7, <2>1, <2>2, SameBody
  <2>4. v.body = Body(r)
    BY <2>1, <2>3, WholeBody DEF B
  <2>5. Onward(r, v, p + m)
    BY <2>1, <2>4 DEF Onward, Over
  <2> QED
    BY <1>8, <1>11, <2>5 DEF x, m
<1>12. CASE left # 0
  <2>1. (p + m) - 4 = (p - 4) + m /\ p + m \in Nat /\ left = Len(B) - ((p - 4) + m) /\ left > 0
    <3> DEFINE b == Len(B)
               c == h.contentlength
    <3>1. /\ p \in Nat /\ m \in Nat /\ b \in Nat /\ p - 4 \in Nat
          /\ c = b - (p - 4) /\ left = c - m /\ left \in Nat /\ left # 0
      BY <1>2, <1>3, <1>4, <1>9, <1>12 DEF left
    <3> HIDE DEF b, c
    <3>2. (p + m) - 4 = (p - 4) + m /\ p + m \in Nat /\ left = b - ((p - 4) + m) /\ left > 0
      BY ONLY <3>1
    <3> QED
      BY <3>2 DEF b
  <2>2. HasBody(r, z, (p + m) - 4)
    BY <1>7, <1>10, <2>1, SameBody
  <2>3. InRaw(r, z, p + m)
    BY <1>10, <2>1, <2>2 DEF InRaw, B
  <2>4. Onward(r, z, p + m)
    BY <1>10, <2>3 DEF Onward, At
  <2> QED
    BY <1>8, <1>12, <2>4 DEF x, m
<1> QED
  BY <1>11, <1>12

\* Bytes of a body whose end is the end of the connection.
LEMMA UnknownStep ==
    ASSUME NEW r \in Replies, NEW h \in Http, NEW p \in Nat, InUnknown(r, h, p),
           NEW d, SliceOf(d, OnTheWire(r), p), d # <<>>
    PROVE  Onward(r, Block(h, d), p + Len(d))
<1> DEFINE B == Body(r)
           m == Len(d)
           x == Block(h, d)
           w == OnTheWire(r)
<1>1. ReplyTypes(r) /\ IsPlain(r, w, 3)
  BY ReplyParts, WireHolds DEF InUnknown, IsWire
<1>2. /\ d \in Seq(Item) /\ m \in Nat \ {0} /\ p + m <= Len(w)
      /\ \A i \in 1..m : d[i] = w[p + i]
  BY EmptySeq DEF SliceOf
<1>3. /\ h.state = "unknown_data" /\ h.status = r.code /\ HasBody(r, h, p - 3)
      /\ h.contentlength = -1 /\ p - 3 \in Nat /\ r.framing = "close"
  BY DEF InUnknown, HasBody
<1>4. Len(B) \in Nat /\ Len(w) = 3 + Len(B)
  BY <1>1 DEF ReplyTypes, IsPlain
<1> HIDE DEF B, m, w
<1>5. (p - 3) + m <= Len(B) /\ (p + m) - 3 = (p - 3) + m
  BY <1>2, <1>3, <1>4
<1>6. \A i \in 1..m : d[i] = Line("byte", B[(p - 3) + i])
  <2> SUFFICES ASSUME NEW i \in 1..m PROVE d[i] = Line("byte", B[(p - 3) + i])
    OBVIOUS
  <2>1. (p - 3) + i \in 1..Len(B) /\ 3 + ((p - 3) + i) = p + i
    BY <1>2, <1>3, <1>4, <1>5
  <2> QED
    BY <1>1, <1>2, <2>1 DEF IsPlain, B
<1>7. x = Taken(h, d)
  BY <1>3 DEF Block, Taken
<1> HIDE DEF x
<1>8. /\ x \in Http /\ HasBody(r, x, (p - 3) + m)
      /\ x.state = h.state /\ x.status = h.status
      /\ x.contentlength = h.contentlength
  BY <1>2, <1>3, <1>5, <1>6, <1>7, TakenHasBody DEF B, m
<1>9. p + m \in Nat
  BY <1>2
<1>10. InUnknown(r, x, p + m)
  BY <1>3, <1>5, <1>8, <1>9 DEF InUnknown
<1>11. Onward(r, x, p + m)
  BY <1>8, <1>10 DEF Onward, At
<1> QED
  BY <1>11 DEF x, m

\* Bytes of a chunk.
LEMMA DataStep ==
    ASSUME NEW r \in Replies, r.framing = "chunked", NEW h \in Http, h.status = r.code,
           NEW p \in Nat, NEW k \in 1..N(r), NEW i0 \in 0..(SizeOf(r, k) - 1),
           InData(r, h, p, k, i0),
           NEW d, SliceOf(d, OnTheWire(r), p), d # <<>>, Len(d) <= h.contentlength
    PROVE  Onward(r, Block(h, d), p + Len(d))
<1> DEFINE B == Body(r)
           m == Len(d)
           y == Taken(h, d)
           x == Block(h, d)
           w == OnTheWire(r)
           P == Place(r, k)
           D == Width(r, k)
           S == SizeOf(r, k)
           H == Held(r, k)
<1>1. k \in 1..(N(r) + 1)
  BY ReplyParts DEF ReplyTypes
<1>2. /\ IsHead(r, w, k) /\ IsData(r, w, k) /\ S \in Nat /\ H \in Nat /\ Len(B) \in Nat
      /\ Held(r, k + 1) = H + S /\ H + S <= Len(B)
  BY <1>1, ChunkParts
<1>3. P \in Nat /\ D \in Nat /\ \A i \in 1..S : w[P + D + 2 + i] = Line("byte", B[H + i])
  BY <1>2 DEF IsHead, IsData
<1>4. /\ d \in Seq(Item) /\ m \in Nat \ {0} /\ \A i \in 1..m : d[i] = w[p + i]
  BY EmptySeq DEF SliceOf
<1>5. /\ h.state = "chunk_data" /\ HasBody(r, h, H + i0)
      /\ h.contentlength = S - i0 /\ p = P + D + 2 + i0 /\ h.parsestate = 3
      /\ m <= S - i0
  BY DEF InData
<1> HIDE DEF B, m, w, P, D, S, H
<1>6. i0 \in Nat /\ i0 + m <= S /\ (H + i0) + m <= Len(B) /\ H + i0 \in Nat
  <2> DEFINE b == Len(B)
  <2>1. /\ S \in Nat /\ H \in Nat /\ b \in Nat /\ H + S <= b /\ m \in Nat /\ m <= S - i0
    BY <1>2, <1>4, <1>5
  <2>2. i0 \in Nat
    BY <2>1 DEF S
  <2> HIDE DEF b
  <2>3. i0 + m <= S /\ (H + i0) + m <= b /\ H + i0 \in Nat
    BY ONLY <2>1, <2>2
  <2> QED
    BY <2>2, <2>3 DEF b
<1>7. \A i \in 1..m : d[i] = Line("byte", B[(H + i0) + i])
  <2> SUFFICES ASSUME NEW i \in 1..m PROVE d[i] = Line("byte", B[(H + i0) + i])
    OBVIOUS
  <2>1. i0 + i \in 1..S /\ P + D + 2 + (i0 + i) = p + i /\ H + (i0 + i) = (H + i0) + i
    BY <1>2, <1>3, <1>4, <1>5, <1>6
  <2> QED
    BY <1>3, <1>4, <2>1
<1>8. /\ y \in Http /\ HasBody(r, y, (H + i0) + m)
      /\ y.state = h.state /\ y.status = h.status
      /\ y.contentlength = h.contentlength /\ y.parsestate = h.parsestate
  <2> DEFINE b == H + i0
  <2>1. b \in Nat /\ HasBody(r, h, b) /\ d \in Seq(Item) /\ b + m <= Len(B)
        /\ \A i \in 1..m : d[i] = Line("byte", B[b + i])
    BY <1>4, <1>5, <1>6, <1>7
  <2> HIDE DEF b
  <2>2. /\ y \in Http /\ HasBody(r, y, b + m)
        /\ y.state = h.state /\ y.status = h.status
        /\ y.contentlength = h.contentlength /\ y.parsestate = h.parsestate
    BY <2>1, TakenHasBody DEF B, m
  <2> QED
    BY <2>2 DEF b
<1> DEFINE left == h.contentlength - m
           z == [y EXCEPT !.contentlength = left]
           u == [y EXCEPT !.state = "chunk_header"]
           v == [u EXCEPT !.contentlength = 1]
<1>9. x = IF left = 0 THEN [y EXCEPT !.state = "chunk_header", !.contentlength = 1] ELSE z
  BY <1>5 DEF Block, Taken, m
<1>10. left \in Nat /\ left = S - (i0 + m)
  <2> DEFINE c == h.contentlength
  <2>1. /\ S \in Nat /\ i0 \in Nat /\ m \in Nat /\ i0 + m <= S
        /\ c = S - i0 /\ left = c - m
    BY <1>2, <1>4, <1>5, <1>6
  <2> HIDE DEF c, left
  <2> QED
    BY ONLY <2>1
<1> HIDE DEF y, x, left
<1>11. CASE left = 0
  <2>1. x = v
    BY <1>8, <1>9, <1>11 DEF Http
  <2>2. /\ u \in Http /\ u.body = y.body /\ u.state = "chunk_header" /\ u.status = y.status
        /\ u.parsestate = y.parsestate
    BY <1>8 DEF Http
  <2> HIDE DEF u
  <2>3. /\ v \in Http /\ v.body = y.body /\ v.state = "chunk_header" /\ v.status = y.status
        /\ v.contentlength = 1 /\ v.parsestate = y.parsestate
    <3>1. 1 \in Int
      OBVIOUS
    <3>2. /\ v \in Http /\ v.body = u.body /\ v.state = u.state /\ v.status = u.status
          /\ v.contentlength = 1 /\ v.parsestate = u.parsestate
      BY ONLY <2>2, <3>1 DEF Http
    <3> QED
      BY <2>2, <3>2
  <2> HIDE DEF v
  <2>4. (H + i0) + m = Held(r, k + 1) /\ p + m = P + D + S + 2
    <3>1. i0 + m = S
      <4>1. S - (i0 + m) = 0
        BY <1>10, <1>11
      <4>2. S \in Nat /\ i0 \in Nat /\ m \in Nat
        BY <1>2, <1>4, <1>6
      <4>3. S \in Nat /\ i0 + m \in Nat /\ S - (i0 + m) = 0
        BY ONLY <4>1, <4>2
      <4> QED
        BY ONLY <4>3
    <3>2. (H + i0) + m = H + (i0 + m) /\ p + m = P + D + 2 + (i0 + m)
      BY <1>2, <1>3, <1>4, <1>5, <1>6
    <3>3. P + D + 2 + S = P + D + S + 2
      BY <1>2, <1>3
    <3> QED
      BY <1>2, <3>1, <3>2, <3>3
  <2>5. HasBody(r, v, Held(r, k + 1))
    BY <1>8, <2>3, <2>4, SameBody
  <2>6. InDataEnd(r, v, p + m, k)
    BY <1>5, <1>8, <2>3, <2>4, <2>5 DEF InDataEnd, P, D, S
  <2>7. InChunks(r, v, p + m)
    BY <1>8, <2>3, <2>6 DEF InChunks
  <2>8. Onward(r, v, p + m)
    BY <2>3, <2>7 DEF Onward, At
  <2> QED
    BY <2>1, <2>8 DEF x, m
<1>12. CASE left # 0
  <2>1. y \in Http /\ left \in Int
    BY <1>8, <1>10
  <2>2. /\ z \in Http /\ z.body = y.body /\ z.state = y.state /\ z.status = y.status
        /\ z.contentlength = left /\ z.parsestate = y.parsestate
    BY <2>1 DEF Http
  <2>3. x = z
    BY <1>9, <1>12
  <2> HIDE DEF z
  <2>4. /\ H + (i0 + m) = (H + i0) + m /\ p + m = P + D + 2 + (i0 + m)
        /\ i0 + m \in 0..(S - 1)
    BY <1>2, <1>3, <1>4, <1>5, <1>6, <1>10, <1>12
  <2>5. HasBody(r, z, H + (i0 + m))
    BY <1>8, <2>2, <2>4, SameBody
  <2>6. InData(r, z, p + m, k, i0 + m)
    BY <1>5, <1>8, <1>10, <2>2, <2>4, <2>5 DEF InData, P, D, S, H
  <2>7. InChunks(r, z, p + m)
    BY <1>8, <2>2, <2>4, <2>6 DEF InChunks, S
  <2>8. Onward(r, z, p + m)
    BY <2>2, <2>7 DEF Onward, At
  <2> QED
    BY <2>3, <2>8 DEF x, m
<1> QED
  BY <1>11, <1>12

\* What is left of a part of w is a part of w.
LEMMA RestIsSlice ==
    ASSUME NEW w, NEW p \in Nat, NEW d, SliceOf(d, w, p), NEW m \in 0..Len(d)
    PROVE  /\ SliceOf(SubSeq(d, m + 1, Len(d)), w, p + m)
           /\ Len(SubSeq(d, m + 1, Len(d))) = Len(d) - m
           /\ SliceOf(SubSeq(d, 1, m), w, p)
           /\ Len(SubSeq(d, 1, m)) = m
<1> DEFINE n == Len(d)
           s == SubSeq(d, m + 1, n)
           t == SubSeq(d, 1, m)
<1>1. d \in Seq(Item) /\ n \in Nat /\ p + n <= Len(w) /\ \A i \in 1..n : d[i] = w[p + i]
  BY DEF SliceOf
<1>2. \A i \in (m + 1)..n : d[i] \in Item
  BY <1>1, ElementOfSeq
<1>3. /\ s \in Seq(Item) /\ Len(s) = IF m + 1 <= n THEN n - (m + 1) + 1 ELSE 0
      /\ \A i \in 1..(n - (m + 1) + 1) : s[i] = d[m + 1 + i - 1]
  BY <1>1, <1>2, SubSeqProperties
<1>4. \A i \in 1..m : d[i] \in Item
  BY <1>1, ElementOfSeq
<1>5. /\ t \in Seq(Item) /\ Len(t) = IF 1 <= m THEN m - 1 + 1 ELSE 0
      /\ \A i \in 1..(m - 1 + 1) : t[i] = d[1 + i - 1]
  BY <1>1, <1>4, SubSeqProperties
<1> HIDE DEF n, s, t
<1>6. m \in Nat /\ m <= n
  BY <1>1 DEF n
<1>7. Len(s) = n - m /\ Len(t) = m
  <2> DEFINE x == Len(s) y == Len(t)
  <2>1. x = IF m + 1 <= n THEN n - (m + 1) + 1 ELSE 0
    BY <1>3
  <2>2. y = IF 1 <= m THEN m - 1 + 1 ELSE 0
    BY <1>5
  <2>3. n \in Nat
    BY <1>1
  <2> HIDE DEF x, y
  <2>4. x = n - m /\ y = m
    BY <1>6, <2>1, <2>2, <2>3
  <2> QED
    BY <2>4 DEF x, y
<1>8. \A i \in 1..Len(s) : s[i] = w[(p + m) + i]
  <2> SUFFICES ASSUME NEW i \in 1..Len(s) PROVE s[i] = w[(p + m) + i]
    OBVIOUS
  <2>1. i \in 1..(n - (m + 1) + 1) /\ m + 1 + i - 1 = m + i /\ m + i \in 1..n
        /\ p + (m + i) = (p + m) + i
    BY <1>1, <1>6, <1>7
  <2> QED
    BY <1>1, <1>3, <2>1
<1>9. \A i \in 1..Len(t) : t[i] = w[p + i]
  <2> SUFFICES ASSUME NEW i \in 1..Len(t) PROVE t[i] = w[p + i]
    OBVIOUS
  <2>1. i \in 1..(m - 1 + 1) /\ 1 + i - 1 = i /\ i \in 1..n
    BY <1>1, <1>6, <1>7
  <2> QED
    BY <1>1, <1>5, <2>1
<1>10. (p + m) + Len(s) <= Len(w) /\ p + Len(t) <= Len(w)
  <2> DEFINE l == Len(w)
  <2>1. p + m + (n - m) = p + n
    BY <1>1, <1>6
  <2>2. p + m <= p + n
    BY <1>1, <1>6
  <2>3. Len(w) \in Int \/ p + m = p + n
    BY <1>1
  <2> QED
    BY <1>1, <1>7, <2>1, <2>2, <2>3
<1> QED
  BY <1>3, <1>5, <1>7, <1>8, <1>9, <1>10 DEF SliceOf, s, t, n

\* y is what a round makes of the record d, with the parser at item p.
Moves(r, d, y, p) ==
    \E n \in 1..Len(d) :
        /\ y.data = SubSeq(d, n + 1, Len(d))
        /\ Onward(r, y.http, p + n)

\* A round that takes n items, if there are states of the parser to go to.
LEMMA PassMoves ==
    ASSUME NEW r, NEW h, NEW d, NEW p \in Nat, d # <<>>, NeedMore(h),
           NEW n \in 1..Len(d), BlockSize(h, Len(d)) = n,
           NEW x, Onward(r, x, p + n),
           x = CASE h.state = "header" -> Header(h, d[1])
                 [] h.state = "chunk_header" -> ChunkHeader(h, d[1].n)
                 [] OTHER -> Block(h, SubSeq(d, 1, n))
    PROVE  Moves(r, d, Pass([http |-> h, data |-> d]), p)
<1> DEFINE y == Pass([http |-> h, data |-> d])
<1>1. y = [http |-> x, data |-> SubSeq(d, n + 1, Len(d))]
  BY DEF Pass
<1>2. y.http = x /\ y.data = SubSeq(d, n + 1, Len(d))
  BY <1>1
<1> HIDE DEF y
<1>3. Moves(r, d, y, p)
  BY <1>2 DEF Moves
<1> QED
  BY <1>3 DEF y

\* A round of the loop of http_data: the parser, at item p of the reply, takes
\* one of the items that follow or more, and is then behind them.
LEMMA PassStep ==
    ASSUME NEW r \in Replies, NEW h \in Http, NEW p \in Nat, At(r, h, p),
           NEW d, SliceOf(d, OnTheWire(r), p), d # <<>>
    PROVE  Moves(r, d, Pass([http |-> h, data |-> d]), p)
<1> DEFINE w == OnTheWire(r)
<1>1. d \in Seq(Item) /\ Len(d) \in Nat \ {0} /\ d[1] = w[p + 1]
  <2>1. d \in Seq(Item) /\ Len(d) \in Nat \ {0}
    BY EmptySeq DEF SliceOf
  <2> QED
    BY <2>1 DEF SliceOf
<1>2. CASE InHeader(r, h, p)
  <2> DEFINE x == Header(h, d[1])
  <2>1. h.state = "header"
    BY <1>2 DEF InHeader
  <2>2. Onward(r, x, p + 1)
    BY <1>1, <1>2, HeaderStep
  <2>3. NeedMore(h) /\ BlockSize(h, Len(d)) = 1 /\ 1 \in 1..Len(d)
    BY <1>1, <2>1 DEF NeedMore, BlockSize
  <2>4. x = CASE h.state = "header" -> Header(h, d[1])
              [] h.state = "chunk_header" -> ChunkHeader(h, d[1].n)
              [] OTHER -> Block(h, SubSeq(d, 1, 1))
    BY <2>1
  <2> HIDE DEF x
  <2> QED
    BY <2>2, <2>3, <2>4, PassMoves
<1>3. ASSUME h.state = "chunk_header", Onward(r, ChunkHeader(h, w[p + 1].n), p + 1)
      PROVE  Moves(r, d, Pass([http |-> h, data |-> d]), p)
  <2> DEFINE x == ChunkHeader(h, d[1].n)
  <2>2. Onward(r, x, p + 1)
    BY <1>1, <1>3
  <2>3. NeedMore(h) /\ BlockSize(h, Len(d)) = 1 /\ 1 \in 1..Len(d)
    BY <1>1, <1>3 DEF NeedMore, BlockSize
  <2>4. x = CASE h.state = "header" -> Header(h, d[1])
              [] h.state = "chunk_header" -> ChunkHeader(h, d[1].n)
              [] OTHER -> Block(h, SubSeq(d, 1, 1))
    BY <1>3
  <2> HIDE DEF x
  <2> QED
    BY <2>2, <2>3, <2>4, PassMoves
<1>4. ASSUME h.state \in {"chunk_data", "raw_data", "unknown_data"},
             NEW n \in 1..Len(d), BlockSize(h, Len(d)) = n,
             Onward(r, Block(h, SubSeq(d, 1, n)), p + n)
      PROVE  Moves(r, d, Pass([http |-> h, data |-> d]), p)
  <2> DEFINE x == Block(h, SubSeq(d, 1, n))
  <2>3. NeedMore(h)
    BY <1>4 DEF NeedMore
  <2>4. x = CASE h.state = "header" -> Header(h, d[1])
              [] h.state = "chunk_header" -> ChunkHeader(h, d[1].n)
              [] OTHER -> Block(h, SubSeq(d, 1, n))
    BY <1>4
  <2>5. Onward(r, x, p + n)
    BY <1>4
  <2> HIDE DEF x
  <2> QED
    BY <1>4, <2>3, <2>4, <2>5, PassMoves
<1>5. ASSUME h.state \in {"chunk_data", "raw_data"}, h.contentlength > 0
      PROVE  \E n \in 1..Len(d) : /\ BlockSize(h, Len(d)) = n /\ n <= h.contentlength
                                  /\ Len(SubSeq(d, 1, n)) = n
                                  /\ SubSeq(d, 1, n) # <<>>
                                  /\ SliceOf(SubSeq(d, 1, n), w, p)
  <2> DEFINE n == Min(Len(d), h.contentlength)
  <2>1. h.contentlength \in Int
    BY DEF Http
  <2>2. n \in 1..Len(d) /\ n <= h.contentlength
    BY <1>1, <1>5, <2>1 DEF Min
  <2>3. BlockSize(h, Len(d)) = n
    BY <1>5 DEF BlockSize
  <2> HIDE DEF n, w
  <2>4. n \in 0..Len(d) /\ n # 0
    BY <1>1, <2>2
  <2>5. Len(SubSeq(d, 1, n)) = n /\ SliceOf(SubSeq(d, 1, n), w, p)
    BY <2>4, RestIsSlice DEF w
  <2>6. SubSeq(d, 1, n) # <<>>
    BY <2>4, <2>5, EmptySeq
  <2> QED
    BY <2>2, <2>3, <2>5, <2>6
<1>6. CASE InRaw(r, h, p)
  <2>1. h.state = "raw_data" /\ h.contentlength > 0
    BY <1>6 DEF InRaw
  <2>2. PICK n \in 1..Len(d) : /\ BlockSize(h, Len(d)) = n /\ n <= h.contentlength
                               /\ Len(SubSeq(d, 1, n)) = n /\ SubSeq(d, 1, n) # <<>>
                               /\ SliceOf(SubSeq(d, 1, n), w, p)
    BY <1>5, <2>1
  <2>3. Onward(r, Block(h, SubSeq(d, 1, n)), p + n)
    <3> DEFINE s == SubSeq(d, 1, n)
    <3> HIDE DEF s
    <3>1. SliceOf(s, OnTheWire(r), p) /\ s # <<>> /\ Len(s) <= h.contentlength /\ Len(s) = n
      BY <2>2 DEF s
    <3>2. Onward(r, Block(h, s), p + Len(s))
      BY <1>6, <3>1, RawStep
    <3> QED
      BY <3>1, <3>2 DEF s
  <2> QED
    BY <1>4, <2>1, <2>2, <2>3
<1>7. CASE InUnknown(r, h, p)
  <2>1. h.state = "unknown_data"
    BY <1>7 DEF InUnknown
  <2>2. BlockSize(h, Len(d)) = Len(d) /\ Len(d) \in 1..Len(d) /\ Len(d) \in 0..Len(d)
    BY <1>1, <2>1 DEF BlockSize
  <2> DEFINE n == Len(d)
             s == SubSeq(d, 1, n)
  <2> HIDE DEF n, s
  <2>3. SliceOf(s, OnTheWire(r), p) /\ Len(s) = n /\ n # 0
    BY <1>1, <2>2, RestIsSlice DEF n, s
  <2>4. s # <<>>
    BY <2>3, EmptySeq
  <2>5. Onward(r, Block(h, s), p + n)
    BY <1>7, <2>3, <2>4, UnknownStep
  <2> QED
    BY <1>4, <2>1, <2>2, <2>5 DEF n, s
<1>8. CASE InChunks(r, h, p)
  <2>1. r.framing = "chunked" /\ h.status = r.code
    BY <1>8 DEF InChunks
  <2>2. CASE \E k \in 1..(N(r) + 1) : InSize(r, h, p, k)
    <3>1. PICK k \in 1..(N(r) + 1) : InSize(r, h, p, k)
      BY <2>2
    <3>2. h.state = "chunk_header"
      BY <3>1 DEF InSize
    <3>3. Onward(r, ChunkHeader(h, w[p + 1].n), p + 1)
      BY <2>1, <3>1, SizeStep
    <3> QED
      BY <1>3, <3>2, <3>3
  <2>3. CASE \E k \in 1..N(r) : \E m \in 0..(SizeOf(r, k) - 1) : InData(r, h, p, k, m)
    <3>1. PICK k \in 1..N(r) : \E m \in 0..(SizeOf(r, k) - 1) : InData(r, h, p, k, m)
      BY <2>3
    <3>2. PICK m \in 0..(SizeOf(r, k) - 1) : InData(r, h, p, k, m)
      BY <3>1
    <3>3. h.state = "chunk_data" /\ h.contentlength > 0
      <4>1. /\ h.contentlength = SizeOf(r, k) - m /\ m \in 0..(SizeOf(r, k) - 1)
            /\ h.state = "chunk_data"
        BY <3>2 DEF InData
      <4>2. k \in 1..(N(r) + 1)
        BY ReplyParts DEF ReplyTypes
      <4>3. SizeOf(r, k) \in Nat
        BY <2>1, <4>2, ChunkParts
      <4> QED
        BY <4>1, <4>3
    <3>4. PICK n \in 1..Len(d) : /\ BlockSize(h, Len(d)) = n /\ n <= h.contentlength
                                 /\ Len(SubSeq(d, 1, n)) = n /\ SubSeq(d, 1, n) # <<>>
                                 /\ SliceOf(SubSeq(d, 1, n), w, p)
      BY <1>5, <3>3
    <3>5. Onward(r, Block(h, SubSeq(d, 1, n)), p + n)
      <4> DEFINE s == SubSeq(d, 1, n)
      <4> HIDE DEF s
      <4>1. SliceOf(s, OnTheWire(r), p) /\ s # <<>> /\ Len(s) <= h.contentlength /\ Len(s) = n
        BY <3>4 DEF s
      <4>2. Onward(r, Block(h, s), p + Len(s))
        BY <2>1, <3>2, <4>1, DataStep
      <4> QED
        BY <4>1, <4>2 DEF s
    <3> QED
      BY <1>4, <3>3, <3>4, <3>5
  <2>4. CASE \E k \in 1..N(r) : InDataEnd(r, h, p, k)
    <3>1. PICK k \in 1..N(r) : InDataEnd(r, h, p, k)
      BY <2>4
    <3>2. h.state = "chunk_header"
      BY <3>1 DEF InDataEnd
    <3>3. Onward(r, ChunkHeader(h, w[p + 1].n), p + 1)
      BY <2>1, <3>1, DataEndStep
    <3> QED
      BY <1>3, <3>2, <3>3
  <2>5. CASE InEnd(r, h, p)
    <3>1. h.state = "chunk_header"
      BY <2>5 DEF InEnd
    <3>2. Onward(r, ChunkHeader(h, w[p + 1].n), p + 1)
      BY <2>1, <2>5, EndStep
    <3> QED
      BY <1>3, <3>1, <3>2
  <2> QED
    BY <1>8, <2>2, <2>3, <2>4, <2>5 DEF InChunks
<1> QED
  BY <1>2, <1>6, <1>7, <1>8 DEF At

\* With a record that ends at item e, and y between two rounds, the parser is
\* where the rest of the record begins, or done.
Between(r, e, y) ==
    /\ y \in [http : Http, data : Seq(Item)]
    /\ \/ Over(r, y.http)
       \/ \E q \in Nat : /\ At(r, y.http, q) /\ SliceOf(y.data, OnTheWire(r), q)
                         /\ q + Len(y.data) = e

\* Of a record of n items, n - i at most are left.
Left(r, n, i, y) == Over(r, y.http) \/ Len(y.data) + i <= n

\* A round keeps the parser between the rounds, and takes at least one item if
\* there is one to take.
LEMMA PassKeeps ==
    ASSUME NEW r \in Replies, NEW e, NEW y, Between(r, e, y)
    PROVE  /\ Between(r, e, Pass(y))
           /\ \A n \in Nat : \A i \in 0..(n - 1) :
                  Left(r, n, i, y) => Left(r, n, i + 1, Pass(y))
<1>1. y \in [http : Http, data : Seq(Item)] /\ y.http \in Http /\ y.data \in Seq(Item)
  BY DEF Between
<1>2. CASE Over(r, y.http)
  <2>1. Pass(y) = y
    BY <1>2 DEF Pass, Over, NeedMore
  <2> QED
    BY <1>2, <2>1 DEF Left
<1>3. CASE ~Over(r, y.http) /\ y.data = <<>>
  <2>1. Pass(y) = y
    BY <1>3 DEF Pass
  <2>2. Len(y.data) = 0
    BY <1>3, EmptySeq
  <2>3. \A n \in Nat : \A i \in 0..(n - 1) : Left(r, n, i + 1, y)
    BY <2>2 DEF Left
  <2> QED
    BY <2>1, <2>3
<1>4. CASE ~Over(r, y.http) /\ y.data # <<>>
  <2>1. PICK q \in Nat : /\ At(r, y.http, q) /\ SliceOf(y.data, OnTheWire(r), q)
                         /\ q + Len(y.data) = e
    BY <1>4 DEF Between
  <2> DEFINE z == Pass(y)
             h == y.http
             d == y.data
  <2>2. y = [http |-> h, data |-> d]
    BY <1>1
  <2> HIDE DEF h, d
  <2>3. Moves(r, d, z, q)
    <3>1. h \in Http /\ At(r, h, q) /\ SliceOf(d, OnTheWire(r), q) /\ d # <<>>
      BY <1>1, <1>4, <2>1 DEF h, d
    <3>2. Moves(r, d, Pass([http |-> h, data |-> d]), q)
      BY <3>1, PassStep
    <3> QED
      BY <2>2, <3>2
  <2>4. z \in [http : Http, data : Seq(Item)]
    <3>0. PICK n \in 1..Len(d) : z.data = SubSeq(d, n + 1, Len(d)) /\ Onward(r, z.http, q + n)
      BY <2>3 DEF Moves
    <3>1. z.http \in Http
      BY <3>0 DEF Onward, At, Over
    <3>2. n \in 0..Len(d) /\ SliceOf(d, OnTheWire(r), q)
      BY <2>1, <1>1 DEF d
    <3>3. SliceOf(SubSeq(d, n + 1, Len(d)), OnTheWire(r), q + n)
      BY <3>2, RestIsSlice
    <3>4. z.data \in Seq(Item)
      BY <3>0, <3>3 DEF SliceOf
    <3>5. z = [http |-> z.http, data |-> z.data]
      <4>1. Pass(y) = y \/ \E a, b : Pass(y) = [http |-> a, data |-> b]
        BY DEF Pass
      <4> QED
        BY <2>2, <4>1
    <3> QED
      BY <3>1, <3>4, <3>5
  <2> HIDE DEF z
  <2>5. PICK n \in 1..Len(d) : z.data = SubSeq(d, n + 1, Len(d)) /\ Onward(r, z.http, q + n)
    BY <2>3 DEF Moves
  <2>6. /\ n \in 0..Len(d) /\ n \in Nat /\ n >= 1 /\ Len(d) \in Nat
        /\ SliceOf(d, OnTheWire(r), q) /\ q + Len(d) = e /\ d \in Seq(Item)
    BY <2>1, <1>1 DEF d
  <2>7. SliceOf(z.data, OnTheWire(r), q + n) /\ Len(z.data) = Len(d) - n
    BY <2>5, <2>6, RestIsSlice
  <2>8. q + n \in Nat /\ (q + n) + Len(z.data) = e
    BY <2>6, <2>7
  <2>9. Between(r, e, z)
    BY <2>4, <2>5, <2>7, <2>8 DEF Between, Onward
  <2>10. ASSUME NEW m \in Nat, NEW i \in 0..(m - 1), Left(r, m, i, y)
         PROVE  Left(r, m, i + 1, z)
    <3>1. Len(d) + i <= m
      BY <1>4, <2>10 DEF Left, d
    <3>2. Len(z.data) + (i + 1) <= m
      BY <2>6, <2>7, <3>1
    <3> QED
      BY <3>2 DEF Left
  <2> QED
    BY <2>9, <2>10 DEF z
<1> QED
  BY <1>2, <1>3, <1>4

\* http_data takes a whole record: the parser, at item p of the reply, is behind
\* the record after it, or done.
LEMMA Rounds ==
    ASSUME NEW r \in Replies, NEW h \in Http, NEW p \in Nat, At(r, h, p),
           NEW d, SliceOf(d, OnTheWire(r), p)
    PROVE  Onward(r, http_data(h, d), p + Len(d))
<1> DEFINE e == p + Len(d)
           y0 == [http |-> h, data |-> d]
           S == {y \in [http : Http, data : Seq(Item)] : Between(r, e, y)}
           G == [x \in S \X Nat |-> Pass(x[1])]
           L == Len(d)
           Rec(f) == [i \in 0..L |-> IF i = 0 THEN y0 ELSE Pass(f[i - 1])]
<1>1. d \in Seq(Item) /\ L \in Nat
  BY DEF SliceOf
<1>2. y0 \in S /\ y0.http = h /\ y0.data = d
  BY <1>1 DEF Between
<1>3. ASSUME NEW y \in S
      PROVE  Pass(y) \in S
  <2>1. Between(r, e, y)
    OBVIOUS
  <2> HIDE DEF e
  <2>2. Between(r, e, Pass(y))
    BY <2>1, PassKeeps
  <2> QED
    BY <2>2 DEF Between
<1>4. G \in [S \X Nat -> S]
  <2>1. ASSUME NEW x \in S \X Nat
        PROVE  Pass(x[1]) \in S
    <3>1. x[1] \in S
      OBVIOUS
    <3> HIDE DEF S
    <3> QED
      BY <1>3, <3>1
  <2> HIDE DEF S
  <2> QED
    BY <2>1
<1>5. PICK f : Recursive(f, S, y0, G, L)
  <2> HIDE DEF G, S, y0, L
  <2> QED
    BY <1>1, <1>2, <1>4, Recursion
<1>6. /\ f \in [0..L -> S] /\ f[0] = y0
      /\ \A i \in 1..L : f[i] = Pass(f[i - 1])
  <2>1. f \in [0..L -> S] /\ f[0] = y0 /\ \A i \in 1..L : f[i] = G[<<f[i - 1], i>>]
    BY <1>5 DEF Recursive
  <2> HIDE DEF S, y0, L
  <2>2. ASSUME NEW i \in 1..L
        PROVE  f[i] = Pass(f[i - 1])
    <3>1. i - 1 \in 0..L /\ i \in Nat
      BY <1>1
    <3>2. f[i - 1] \in S
      BY <2>1, <3>1
    <3>3. <<f[i - 1], i>> \in S \X Nat
      BY <3>1, <3>2
    <3>4. G[<<f[i - 1], i>>] = Pass(f[i - 1])
      BY <3>3
    <3> HIDE DEF G
    <3> QED
      BY <2>1, <3>4
  <2> QED
    BY <2>1, <2>2
<1> HIDE DEF S, G, y0
<1>7. f = Rec(f)
  <2> HIDE DEF L
  <2> QED
    BY <1>6
<1> DEFINE J == CHOOSE g : g = Rec(g)
<1>8. http_data(h, d) = J[L].http
  BY DEF http_data, y0
<1>9. J = Rec(J)
  <2> HIDE DEF Rec
  <2> QED
    BY <1>7
<1> HIDE DEF J, L
<1>10. /\ J[0] = y0
       /\ \A i \in 1..L : J[i] = Pass(J[i - 1])
  <2>1. 0 \in 0..L /\ \A i \in 1..L : i \in 0..L /\ i # 0
    BY <1>1
  <2>2. ASSUME NEW i \in 0..L
        PROVE  J[i] = IF i = 0 THEN y0 ELSE Pass(J[i - 1])
    BY <1>9
  <2> QED
    BY <2>1, <2>2
<1> DEFINE T == {i \in Nat : i <= L => Between(r, e, J[i]) /\ Left(r, L, i, J[i])}
<1> HIDE DEF e
<1>11. 0 \in T
  <2>1. Between(r, e, y0)
    BY <1>2 DEF S
  <2>2. Left(r, L, 0, y0)
    <3>1. L + 0 <= L
      BY <1>1
    <3> QED
      BY <1>2, <3>1 DEF Left, L
  <2> QED
    BY <1>10, <2>1, <2>2
<1>12. ASSUME NEW i \in Nat, i \in T
       PROVE  i + 1 \in T
  <2>1. SUFFICES ASSUME i + 1 <= L
                 PROVE  Between(r, e, J[i + 1]) /\ Left(r, L, i + 1, J[i + 1])
    OBVIOUS
  <2>2. /\ i + 1 \in 1..L /\ i \in 0..(L - 1)
        /\ Between(r, e, J[i]) /\ Left(r, L, i, J[i]) /\ (i + 1) - 1 = i
    BY <1>1, <1>12, <2>1
  <2>3. J[i + 1] = Pass(J[i])
    BY <1>10, <2>2, Zenon
  <2>4. Between(r, e, Pass(J[i])) /\ Left(r, L, i + 1, Pass(J[i]))
    BY <1>1, <2>2, PassKeeps
  <2> QED
    BY <2>3, <2>4
<1>13. L \in T
  <2> HIDE DEF T
  <2>1. \A i \in Nat : i \in T
    BY <1>11, <1>12, Induction
  <2> QED
    BY <1>1, <2>1
<1>14. Between(r, e, J[L]) /\ Left(r, L, L, J[L])
  BY <1>1, <1>13
<1> DEFINE z == J[L]
<1>15. Between(r, e, z) /\ Left(r, L, L, z)
  BY <1>14
<1> HIDE DEF z, T
<1>16. CASE Over(r, z.http)
  BY <1>8, <1>16 DEF Onward, z
<1>17. CASE ~Over(r, z.http)
  <2>1. PICK q \in Nat : /\ At(r, z.http, q) /\ SliceOf(z.data, OnTheWire(r), q)
                         /\ q + Len(z.data) = e
    BY <1>15, <1>17 DEF Between
  <2>2. Len(z.data) + L <= L /\ Len(z.data) \in Nat
    BY <1>15, <1>17, <2>1 DEF Left, SliceOf
  <2>3. q = e
    BY <1>1, <2>1, <2>2
  <2> QED
    BY <1>8, <2>1, <2>3 DEF Onward, z, e
<1> QED
  BY <1>16, <1>17

-----------------------------------------------------------------------------
(* The download.                                                           *)

\* A part of w that is a slice is the subsequence, and the other way round.
LEMMA SliceIsSub ==
    ASSUME NEW w \in Seq(Item), NEW p \in Nat, NEW d \in Seq(Item)
    PROVE  SliceOf(d, w, p) <=> /\ d = SubSeq(w, p + 1, p + Len(d))
                                /\ p + Len(d) <= Len(w)
<1> DEFINE n == Len(d)
           l == Len(w)
           s == SubSeq(w, p + 1, p + n)
<1>1. n \in Nat /\ l \in Nat
  OBVIOUS
<1>2. SUFFICES ASSUME p + n <= l
               PROVE  (\A i \in 1..n : d[i] = w[p + i]) <=> d = s
  BY DEF SliceOf
<1>3. /\ s \in Seq(Item) /\ Len(s) = n /\ \A i \in 1..n : s[i] = w[p + i]
  <2>1. \A i \in (p + 1)..(p + n) : w[i] \in Item
    <3>1. \A i \in (p + 1)..(p + n) : i \in 1..l
      BY <1>1, <1>2
    <3> QED
      BY <3>1, ElementOfSeq
  <2>2. /\ s \in Seq(Item)
        /\ Len(s) = IF p + 1 <= p + n THEN (p + n) - (p + 1) + 1 ELSE 0
        /\ \A i \in 1..((p + n) - (p + 1) + 1) : s[i] = w[(p + 1) + i - 1]
    <3> HIDE DEF n
    <3>1. p + 1 \in Int /\ p + n \in Int
      BY <1>1
    <3> QED
      BY <2>1, <3>1, SubSeqProperties
  <2> HIDE DEF s, n
  <2>3. (p + n) - (p + 1) + 1 = n /\ (p + 1 <= p + n <=> 1 <= n)
    BY <1>1
  <2>4. Len(s) = n
    BY <1>1, <2>2, <2>3
  <2>5. \A i \in 1..n : (p + 1) + i - 1 = p + i
    OBVIOUS
  <2> QED
    BY <2>2, <2>3, <2>4, <2>5
<1> HIDE DEF s
<1>4. ASSUME \A i \in 1..n : d[i] = w[p + i]
      PROVE  d = s
  <2>1. \A i \in 1..Len(d) : d[i] = s[i]
    BY <1>3, <1>4
  <2> QED
    BY <1>3, <2>1, SeqEqual
<1> QED
  BY <1>3, <1>4

\* Behind item n there is more to parse, unless the parser is done.
LEMMA AtNeedsMore ==
    ASSUME NEW r, NEW h, NEW n, At(r, h, n)
    PROVE  NeedMore(h)
BY DEF At, InHeader, InRaw, InUnknown, InChunks, InSize, InData, InDataEnd, InEnd, NeedMore

\* A parser that is done needs no more.
LEMMA OverNeedsNoMore ==
    ASSUME NEW r, NEW h, Over(r, h)
    PROVE  ~NeedMore(h)
BY DEF Over, NeedMore

\* Without a length the parser is in the header or in a body of unknown length.
LEMMA NoLength ==
    ASSUME NEW r \in Replies, NEW h, NEW n \in Nat, At(r, h, n), h.contentlength = -1
    PROVE  \/ InHeader(r, h, n) /\ n < Len(OnTheWire(r))
           \/ InUnknown(r, h, n)
<1> DEFINE w == OnTheWire(r)
<1>1. ReplyTypes(r) /\ IsWire(r, w)
  BY ReplyParts, WireHolds
<1>2. Len(w) \in Nat /\ Len(w) >= 3 /\ Len(Body(r)) \in Nat
  BY <1>1 DEF IsWire, ReplyTypes
<1> HIDE DEF w
<1>3. CASE InHeader(r, h, n)
  <2>1. n \in 0..3
    BY <1>3 DEF InHeader
  <2>2. CASE n # 3
    BY <1>2, <1>3, <2>1, <2>2 DEF w
  <2>3. CASE n = 3
    <3>1. r.framing = "chunked"
      BY <1>1, <1>2, <1>3, <2>3 DEF InHeader, ReplyTypes
    <3>2. IsHead(r, w, 1) /\ Place(r, 1) = 4
      <4>1. 1 \in 1..(N(r) + 1)
        BY <1>1 DEF ReplyTypes
      <4> QED
        BY <1>1, <3>1, <4>1 DEF IsWire, IsChunked
    <3>3. 4 + Width(r, 1) + 4 <= Len(w) /\ Width(r, 1) \in Nat
      BY <3>2 DEF IsHead
    <3>4. 3 < Len(w)
      BY <1>2, <3>3
    <3> QED
      BY <1>3, <2>3, <3>4 DEF w
  <2> QED
    BY <2>2, <2>3
<1>4. ~InRaw(r, h, n)
  BY DEF InRaw
<1>5. CASE InChunks(r, h, n)
  <2>0. r.framing = "chunked"
    BY <1>5 DEF InChunks
  <2>1. ASSUME NEW k \in 1..(N(r) + 1), InSize(r, h, n, k) PROVE FALSE
    <3>1. SizeOf(r, k) \in Nat /\ SizeOf(r, k) <= LargestInt
      BY <2>0, ChunkParts
    <3>2. \A j \in 1..Width(r, k) : ValueAfter(SizeOf(r, k), j) \in Nat
      BY <3>1, SizeIsHex DEF Width
    <3>3. h.contentlength \in Nat
      BY <2>1, <3>1, <3>2 DEF InSize
    <3> QED
      BY <3>3
  <2>2. ASSUME NEW k \in 1..N(r), NEW m \in 0..(SizeOf(r, k) - 1), InData(r, h, n, k, m)
        PROVE  FALSE
    <3>1. k \in 1..(N(r) + 1)
      BY <1>1 DEF ReplyTypes
    <3>2. SizeOf(r, k) \in Nat
      BY <2>0, <3>1, ChunkParts
    <3>3. h.contentlength = SizeOf(r, k) - m
      BY <2>2 DEF InData
    <3> QED
      BY <3>2, <3>3
  <2>3. ASSUME NEW k \in 1..N(r), InDataEnd(r, h, n, k) PROVE FALSE
    BY <2>3 DEF InDataEnd
  <2>4. ~InEnd(r, h, n)
    BY DEF InEnd
  <2> QED
    BY <1>5, <2>1, <2>2, <2>3, <2>4 DEF InChunks
<1> QED
  BY <1>3, <1>4, <1>5 DEF At, w

\* Before the request nothing was read.
LEMMA DownloadInit ==
    ASSUME NEW r \in Replies, HttpInit(r)
    PROVE  DownloadInv
<1> DEFINE w == OnTheWire(r)
<1>1. w \in Seq(Item) /\ Len(w) \in Nat
  BY WireHolds DEF IsWire
<1>2. reply = r /\ wire = w /\ peer = "open" /\ cut = FALSE /\ client = "none" /\ http = http_init
  BY DEF HttpInit
<1>3. At(r, http_init, 0)
  BY InitAt
<1>4. http \in Http
  BY <1>2, <1>3 DEF At
<1> HIDE DEF w
<1>5. SliceOf(w, w, 0)
  BY <1>1 DEF SliceOf
<1>6. wire = SubSeq(w, 0 + 1, 0 + Len(wire)) /\ 0 + Len(wire) <= Len(w) /\ 0 + Len(wire) = Len(w)
  BY <1>1, <1>2, <1>5, SliceIsSub
<1>7. HasRead(w, 0)
  BY <1>2, <1>3, <1>6 DEF HasRead
<1>8. 0 \in 0..Len(w)
  BY <1>1
<1> QED
  BY <1>1, <1>2, <1>4, <1>7, <1>8 DEF DownloadInv, Peers, Clients, w

\* What a step has to show of the items read.
LEMMA NowRead ==
    ASSUME NEW w \in Seq(Item), wire' \in Seq(Item), NEW n \in Nat,
           SliceOf(wire', w, n),
           IF peer' = "open" THEN n + Len(wire') = Len(w) /\ cut' = FALSE
           ELSE cut' = (n + Len(wire') < Len(w)),
           client' \in {"none", "connecting", "reading"} => At(reply', http', n)
    PROVE  n \in 0..Len(w) /\ HasRead(w, n)'
<1>1. wire' = SubSeq(w, n + 1, n + Len(wire')) /\ n + Len(wire') <= Len(w)
  BY SliceIsSub
<1>2. n \in 0..Len(w)
  <2>1. Len(w) \in Nat /\ Len(wire') \in Nat
    OBVIOUS
  <2> QED
    BY <1>1, <2>1
<1> QED
  BY <1>1, <1>2 DEF HasRead

\* An end of file when the parser knows no length ends the loop with the reply,
\* a part of it without its length, or nothing.
LEMMA EofEnds ==
    ASSUME reply \in Replies, peer = "eof", NEW n \in Nat,
           At(reply, http, n), http.contentlength = -1,
           cut = (n < Len(OnTheWire(reply)))
    PROVE  Ended
<1> DEFINE w == OnTheWire(reply)
           B == Body(reply)
<1>1. ReplyTypes(reply) /\ IsWire(reply, w)
  BY ReplyParts, WireHolds
<1>2. CASE InHeader(reply, http, n) /\ n < Len(w)
  BY <1>2 DEF InHeader, Ended
<1>3. CASE InUnknown(reply, http, n)
  <2>1. /\ reply.framing = "close" /\ http.status = reply.code
        /\ HasBody(reply, http, n - 3) /\ http \in Http
    BY <1>3 DEF InUnknown, At
  <2>2. Len(w) = 3 + Len(B) /\ Len(B) \in Nat /\ B \in Seq(0..255)
    BY <1>1, <2>1 DEF IsWire, IsPlain, ReplyTypes
  <2>3. CASE n = Len(w)
    <3>1. n - 3 = Len(B)
      BY <2>2, <2>3
    <3>2. http.body = B
      BY <2>1, <3>1, WholeBody
    <3> QED
      BY <2>1, <3>2 DEF Ended
  <2>4. CASE n # Len(w)
    <3> DEFINE b == n - 3
               u == http.body
    <3>1. b \in Nat /\ b <= Len(B) /\ Len(u) = b /\ \A i \in 1..b : u[i] = B[i]
      BY <2>1 DEF HasBody
    <3>2. u \in Seq(0..255)
      BY <2>1 DEF Http
    <3>3. n < Len(w)
      BY <2>2, <2>4, <3>1
    <3> HIDE DEF b, B, u, w
    <3>4. \A i \in 1..b : B[i] \in 0..255
      <4>1. \A i \in 1..b : i \in 1..Len(B)
        BY <2>2, <3>1
      <4>2. B \in Seq(0..255)
        BY <2>2 DEF B
      <4> QED
        BY <4>1, <4>2, ElementOfSeq
    <3> DEFINE s == SubSeq(B, 1, b)
    <3>5. s \in Seq(0..255) /\ Len(s) = b /\ \A i \in 1..b : s[i] = B[i]
      <4>1. 1 \in Int /\ b \in Int
        BY <3>1
      <4>2. /\ s \in Seq(0..255) /\ Len(s) = IF 1 <= b THEN b - 1 + 1 ELSE 0
            /\ \A i \in 1..(b - 1 + 1) : s[i] = B[1 + i - 1]
        BY <2>2, <3>4, <4>1, SubSeqProperties
      <4> HIDE DEF s
      <4> QED
        BY <3>1, <4>2
    <3> HIDE DEF s
    <3>6. u = s
      BY <3>1, <3>2, <3>5, SeqEqual
    <3>7. http.body = SubSeq(B, 1, Len(http.body))
      BY <3>1, <3>6 DEF s, u
    <3> QED
      BY <2>1, <3>3, <3>7 DEF Ended, Framed, B, w
  <2> QED
    BY <2>3, <2>4
<1> QED
  BY <1>2, <1>3, NoLength

\* What DownloadInv says, with the reply and its items as constants.
LEMMA DownloadParts ==
    ASSUME DownloadInv
    PROVE  \E n \in 0..Len(OnTheWire(reply)) :
               /\ HasRead(OnTheWire(reply), n) /\ SliceOf(wire, OnTheWire(reply), n)
               /\ OnTheWire(reply) \in Seq(Item)
<1> DEFINE w == OnTheWire(reply)
<1>1. w \in Seq(Item) /\ wire \in Seq(Item)
  BY WireHolds DEF IsWire, DownloadInv
<1>2. PICK n \in 0..Len(w) : HasRead(w, n)
  BY DEF DownloadInv
<1> HIDE DEF w
<1>3. wire = SubSeq(w, n + 1, n + Len(wire)) /\ n + Len(wire) <= Len(w)
  BY <1>2 DEF HasRead
<1>4. SliceOf(wire, w, n)
  BY <1>1, <1>3, SliceIsSub
<1> QED
  BY <1>1, <1>2, <1>4 DEF w

\* A step that leaves what was read.
LEMMA SameRead ==
    ASSUME DownloadInv, UNCHANGED <<reply, wire, peer, cut, http>>, client' \in Clients,
           client' = "returned" => Ended,
           client' \in {"none", "connecting", "reading"} =>
               client \in {"none", "connecting", "reading"}
    PROVE  DownloadInv'
<1> DEFINE w == OnTheWire(reply)
<1>1. PICK n \in 0..Len(w) : HasRead(w, n)
  BY DEF DownloadInv
<1>2. w' = w
  OBVIOUS
<1>3. PICK c : c = w
  OBVIOUS
<1> HIDE DEF w
<1>4. HasRead(c, n)'
  BY <1>1, <1>3 DEF HasRead
<1>5. Ended' <=> Ended
  BY DEF Ended, Framed
<1> QED
  BY <1>1, <1>2, <1>3, <1>4, <1>5 DEF DownloadInv, w

\* The connection breaks or the site falls silent: what was read is as it was, and
\* what was lost is noted.
LEMMA StopKeeps ==
    ASSUME DownloadInv, NEW k \in 0..Len(wire), NEW how \in Peers \ {"open"},
           client = "reading", peer' = how, Stop(k)
    PROVE  DownloadInv'
<1>1. PICK n \in 0..Len(OnTheWire(reply)) :
          /\ HasRead(OnTheWire(reply), n) /\ SliceOf(wire, OnTheWire(reply), n)
          /\ OnTheWire(reply) \in Seq(Item)
  BY DownloadParts
<1>2. PICK w : w = OnTheWire(reply)
  OBVIOUS
<1>3. /\ client = "reading" /\ peer' = how /\ wire' = SubSeq(wire, 1, k)
      /\ cut' = (cut \/ k < Len(wire)) /\ reply' = reply /\ client' = client /\ http' = http
  BY DEF Stop
<1>4. /\ At(reply, http, n) /\ w \in Seq(Item)
      /\ SliceOf(wire, w, n) /\ n \in Nat /\ wire \in Seq(Item)
  BY <1>1, <1>2, <1>3 DEF HasRead, SliceOf
<1>5. SliceOf(wire', w, n) /\ Len(wire') = k
  BY <1>3, <1>4, RestIsSlice
<1>6. wire' \in Seq(Item) /\ how # "open" /\ how \in Peers
  BY <1>5 DEF SliceOf
<1>7. cut' = (n + Len(wire') < Len(w))
  <2>1. k \in Nat /\ Len(wire) \in Nat /\ Len(w) \in Nat /\ k <= Len(wire)
    BY <1>4
  <2>2. n + Len(wire) <= Len(w) /\ cut = (n + Len(wire) < Len(w))
    <3>1. CASE peer = "open"
      <4>1. n + Len(wire) = Len(w) /\ cut = FALSE
        BY <1>1, <1>2, <3>1 DEF HasRead
      <4>2. ~(n + Len(wire) < Len(w)) /\ n + Len(wire) <= Len(w)
        BY <2>1, <4>1
      <4> QED
        <5>1. (n + Len(wire) < Len(w)) = FALSE
          BY <4>2
        <5> QED
          BY <4>1, <4>2, <5>1, Zenon
    <3>2. CASE peer # "open"
      BY <1>1, <1>2, <3>2 DEF HasRead
    <3> QED
      BY <3>1, <3>2
  <2>3. (n + k < Len(w)) = (n + Len(wire) < Len(w) \/ k < Len(wire))
    <3> DEFINE a == Len(wire)
               b == Len(w)
    <3> HIDE DEF a, b
    <3>1. a \in Nat /\ b \in Nat /\ k \in Nat /\ n \in Nat /\ k <= a /\ n + a <= b
      BY <1>4, <2>1, <2>2 DEF a, b
    <3>2. (n + k < b) = (n + a < b \/ k < a)
      BY ONLY <3>1
    <3> QED
      BY <3>2 DEF a, b
  <2> QED
    BY <1>3, <1>5, <2>2, <2>3
<1>8. At(reply', http', n)
  BY <1>3, <1>4
<1>9. n \in 0..Len(w) /\ HasRead(w, n)'
  BY <1>3, <1>4, <1>5, <1>6, <1>7, <1>8, NowRead
<1>10. OnTheWire(reply)' = w
  BY <1>2, <1>3
<1> QED
  BY <1>3, <1>6, <1>9, <1>10 DEF DownloadInv

\* A record of any size is read.
LEMMA ReadKeeps ==
    ASSUME DownloadInv, NEW k \in 0..Len(wire), Read(k)
    PROVE  DownloadInv'
<1>1. PICK n \in 0..Len(OnTheWire(reply)) :
          /\ HasRead(OnTheWire(reply), n) /\ SliceOf(wire, OnTheWire(reply), n)
          /\ OnTheWire(reply) \in Seq(Item)
  BY DownloadParts
<1>2. PICK w : w = OnTheWire(reply)
  OBVIOUS
<1>3. /\ client = "reading" /\ peer' = peer /\ wire' = SubSeq(wire, k + 1, Len(wire))
      /\ cut' = cut /\ reply' = reply /\ http' = http_data(http, SubSeq(wire, 1, k))
      /\ client' = IF NeedMore(http') THEN client ELSE Returned(http')
  BY DEF Read
<1>4. /\ At(reply, http, n) /\ w \in Seq(Item) /\ reply \in Replies /\ http \in Http
      /\ SliceOf(wire, w, n) /\ n \in Nat /\ wire \in Seq(Item) /\ k \in Nat /\ k <= Len(wire)
  BY <1>1, <1>2, <1>3 DEF HasRead, SliceOf, DownloadInv
<1>5. /\ SliceOf(wire', w, n + k) /\ Len(wire') = Len(wire) - k
      /\ SliceOf(SubSeq(wire, 1, k), w, n) /\ Len(SubSeq(wire, 1, k)) = k
  BY <1>3, <1>4, RestIsSlice
<1> DEFINE d == SubSeq(wire, 1, k)
<1>6. Onward(reply, http', n + k)
  <2>1. SliceOf(d, OnTheWire(reply), n) /\ Len(d) = k
    BY <1>2, <1>5
  <2> HIDE DEF d
  <2>2. Onward(reply, http_data(http, d), n + Len(d))
    BY <1>4, <2>1, Rounds
  <2> QED
    BY <1>3, <2>1, <2>2 DEF d
<1>7. wire' \in Seq(Item) /\ n + k \in Nat
  BY <1>4, <1>5 DEF SliceOf
<1>8. (n + k) + Len(wire') = n + Len(wire)
  <2>1. Len(wire) \in Nat
    BY <1>4
  <2> QED
    BY <1>4, <1>5, <2>1
<1>9. IF peer' = "open" THEN (n + k) + Len(wire') = Len(w) /\ cut' = FALSE
      ELSE cut' = ((n + k) + Len(wire') < Len(w))
  BY <1>1, <1>2, <1>3, <1>8 DEF HasRead
<1>10. CASE At(reply, http', n + k)
  <2>1. NeedMore(http') /\ http' \in Http
    BY <1>10, AtNeedsMore DEF At
  <2>2. client' = "reading"
    BY <1>3, <2>1
  <2>3. n + k \in 0..Len(w) /\ HasRead(w, n + k)'
    BY <1>3, <1>4, <1>5, <1>7, <1>9, <1>10, NowRead
  <2>4. OnTheWire(reply)' = w
    BY <1>2, <1>3
  <2> QED
    BY <1>3, <1>7, <2>1, <2>2, <2>3, <2>4 DEF DownloadInv, Clients
<1>11. CASE Over(reply, http')
  <2>1. ~NeedMore(http') /\ http' \in Http
    BY <1>11, OverNeedsNoMore DEF Over
  <2>2. client' = IF http'.state = "error" THEN "threw" ELSE "returned"
    BY <1>3, <2>1 DEF Returned
  <2>3. client' = "returned" => Ended'
    BY <1>3, <1>11, <2>2 DEF Over, Ended
  <2>4. n + k \in 0..Len(w) /\ HasRead(w, n + k)'
    BY <1>3, <1>4, <1>5, <1>7, <1>9, <2>2, NowRead
  <2>5. OnTheWire(reply)' = w
    BY <1>2, <1>3
  <2> QED
    BY <1>3, <1>7, <2>1, <2>2, <2>3, <2>4, <2>5 DEF DownloadInv, Clients
<1> QED
  BY <1>6, <1>10, <1>11 DEF Onward

\* Every step of a download preserves the invariant.
LEMMA DownloadKeeps ==
    ASSUME DownloadInv, Download
    PROVE  DownloadInv'
<1>1. CASE NewClient
  BY <1>1, SameRead DEF NewClient, Clients
<1>2. CASE Connect
  BY <1>2, SameRead DEF Connect, Clients
<1>3. ASSUME NEW k \in 0..Len(wire), NEW how \in Closed, Close(k, how)
      PROVE  DownloadInv'
  BY <1>3, StopKeeps DEF Close, Closed, Peers
<1>7. ASSUME NEW k \in 0..Len(wire), FallSilent(k)
      PROVE  DownloadInv'
  <2>1. "silent" \in Peers \ {"open"}
    BY DEF Peers
  <2> QED
    BY <1>7, <2>1, StopKeeps DEF FallSilent
<1>4. ASSUME NEW k \in 1..Min(Len(wire), BUFFER), Read(k)
      PROVE  DownloadInv'
  <2>1. wire \in Seq(Item)
    BY DEF DownloadInv
  <2>2. k \in 0..Len(wire)
    BY <1>4, <2>1, HttpsAssumption DEF Min
  <2> QED
    BY <1>4, <2>2, ReadKeeps
<1>5. CASE ReadEof
  <2>1. PICK n \in 0..Len(OnTheWire(reply)) :
            /\ HasRead(OnTheWire(reply), n) /\ SliceOf(wire, OnTheWire(reply), n)
            /\ OnTheWire(reply) \in Seq(Item)
    BY DownloadParts
  <2>2. /\ client = "reading" /\ wire = <<>> /\ peer = "eof" /\ http.contentlength = -1
        /\ client' = Returned(http) /\ UNCHANGED <<reply, wire, peer, cut, http>>
    BY <1>5 DEF ReadEof
  <2>3. Len(wire) = 0 /\ n \in Nat
    BY <2>2
  <2>4. At(reply, http, n) /\ cut = (n < Len(OnTheWire(reply)))
    <3>1. n + Len(wire) = n
      BY <2>3
    <3> QED
      BY <2>1, <2>2, <3>1 DEF HasRead
  <2>5. reply \in Replies
    BY DEF DownloadInv
  <2>6. Ended
    BY <2>2, <2>3, <2>4, <2>5, EofEnds
  <2> QED
    BY <2>2, <2>6, SameRead DEF Returned, Clients
<1>6. CASE ReadFails
  BY <1>6, SameRead DEF ReadFails, Clients
<1> QED
  BY <1>1, <1>2, <1>3, <1>4, <1>5, <1>6, <1>7 DEF Download, Reading

\* The invariant is about the variables of the download only.
LEMMA DownloadStutter ==
    ASSUME DownloadInv, UNCHANGED httpVars
    PROVE  DownloadInv'
BY SameRead DEF httpVars, DownloadInv

\* The invariant says of a response that it is what was sent.
LEMMA DownloadIsRight ==
    ASSUME DownloadInv
    PROVE  ReturnsWhatWasSent
<1>1. HttpTypeOK
  <2>1. PICK n \in 0..Len(OnTheWire(reply)) : HasRead(OnTheWire(reply), n)
    BY DEF DownloadInv
  <2>2. wire = SubSeq(OnTheWire(reply), n + 1, n + Len(wire))
    BY <2>1 DEF HasRead
  <2>3. cut \in BOOLEAN
    <3>1. (n + Len(wire) < Len(OnTheWire(reply))) \in BOOLEAN
      <4> DEFINE a == n + Len(wire)
                 b == Len(OnTheWire(reply))
      <4>1. a \in Int /\ b \in Int
        BY DownloadParts, LenProperties DEF DownloadInv
      <4> HIDE DEF a, b
      <4>2. (a < b) = TRUE \/ (a < b) = FALSE
        BY <4>1
      <4> QED
        BY <4>2, Zenon DEF a, b
    <3>2. cut = FALSE \/ cut = (n + Len(wire) < Len(OnTheWire(reply)))
      BY <2>1, Zenon DEF HasRead
    <3> QED
      BY <3>1, <3>2, Zenon
  <2> QED
    BY <2>2, <2>3 DEF DownloadInv, HttpTypeOK
<1>2. client = "returned" => Ended
  BY DEF DownloadInv
<1> QED
  BY <1>1, <1>2 DEF ReturnsWhatWasSent, Ended

-----------------------------------------------------------------------------
(* The answer to a request.                                                *)

\* The page may be blamed for the request, if it says p.
MayBlame(p) ==
    /\ client = "returned" /\ request.type # "BITCOIN_FEE"
    /\ \/ Whole /\ p = "not found"
       \/ /\ Whole /\ p = "other JSON"
          /\ request.type \in FlightTypes \cup {"FINANCE_INFO"}
       \/ /\ request.type \in {"STEAM_EX", "COINMARKET", "WEATHER"}
          /\ ~(Whole /\ p = "fact")

\* A response without an error may hold d.
MayHold(p, d) ==
    \/ d = "fact" /\ Whole /\ p = "fact"
    \/ request.type = "WOLFRAM"
    \/ /\ request.type = "BITCOIN_FEE" /\ d = "unset" /\ client = "returned"
       /\ http.status # 200 \/ ~Whole \/ p # "fact"
    \/ /\ Whole /\ p = "not departed"
       /\ \/ request.type = "FLIGHT_INS" /\ d = "unset"
          \/ request.type = "FLIGHT_INS_ENC" /\ d = "zero"
    \/ request.type = "STEAM_EX" /\ d = "zero" /\ Whole /\ p \in {"not found", "other JSON"}
    \/ request.type = "COINMARKET" /\ cut /\ ~Framed

Datas == {"none", "fact", "zero", "part", "unset", "text", "stray"}

\* What a scraper may return.
Allowed(p, x) ==
    \/ x = Return("exception") \/ x = Return("crash")
    \/ x = Return("WEB_ERROR") \/ x = Return("UNKNOWN_ERROR")
    \/ x = Return("INVALID_PARAMS") /\ MayBlame(p)
    \/ \E d \in Datas : x = Store(d) /\ MayHold(p, d)

Final == {"returned", "threw", "no client"}

\* Each scraper keeps to that, whatever page the download left.
LEMMA ScraperAllowed ==
    ASSUME DownloadInv, client \in Final, NeedsSite, request \in [type : Types, valid : BOOLEAN],
           NEW p \in Pages, p = "not departed" => request.type \in FlightTypes,
           NEW x \in Scrape(p)
    PROVE  Allowed(p, x)
<1>1. client = "returned" => \/ http.body = Body(reply)
                             \/ http.body = <<>>
                             \/ cut /\ ~Framed
  BY DEF DownloadInv, Ended
<1>2. /\ Content(p) = "empty" <=> http.body = <<>>
      /\ Content(p) = "cut" <=> http.body # <<>> /\ http.body # Body(reply)
      /\ Whole => Content(p) = p
      /\ ~Whole => Content(p) \in {"empty", "cut"}
  BY DEF Content, Whole, Pages
<1>3. request.type \in Types \ {"UPS_TRACKING", "unknown type"}
  BY DEF NeedsSite
<1> DEFINE c == Content(p)
<1> HIDE DEF c
<1>4. /\ c \in Pages \cup {"empty", "cut"}
      /\ c \in Pages => c = p /\ Whole
      /\ c \notin Pages => ~Whole
      /\ c = "cut" /\ client = "returned" => cut /\ ~Framed
  BY <1>1, <1>2 DEF c, Whole, Pages
<1>5. CASE request.type = "BITCOIN_FEE"
  <2>1. x \in BitcoinFees(p)
    BY <1>5 DEF Scrape, FlightTypes
  <2>2. CASE client # "returned"
    BY <2>1, <2>2 DEF BitcoinFees, Allowed
  <2>3. CASE client = "returned" /\ http.status = 200 /\ c = "fact"
    BY <1>4, <2>1, <2>3 DEF BitcoinFees, Allowed, MayHold, Datas, Pages, c
  <2>4. CASE client = "returned" /\ ~(http.status = 200 /\ c = "fact")
    <3>1. x = Store("unset")
      BY <2>1, <2>4 DEF BitcoinFees, c
    <3>2. http.status # 200 \/ ~Whole \/ p # "fact"
      <4>1. Whole => c = p
        BY <1>2 DEF c
      <4> QED
        BY <2>4, <4>1
    <3>3. MayHold(p, "unset")
      BY <1>5, <2>4, <3>2 DEF MayHold
    <3> QED
      BY <3>1, <3>3 DEF Allowed, Datas
  <2> QED
    BY <2>2, <2>3, <2>4
<1>6. CASE request.type \in FlightTypes
  <2>1. x \in Flight(p)
    BY <1>6 DEF Scrape, FlightTypes
  <2>2. CASE client # "returned"
    BY <2>1, <2>2 DEF Flight, NoPage, Allowed
  <2>3. CASE client = "returned" /\ c \in NotJSON
    BY <2>1, <2>3 DEF Flight, NotJSON, Allowed, c
  <2>4. CASE client = "returned" /\ c = "not found"
    BY <1>4, <1>6, <2>1, <2>4 DEF Flight, NotJSON, Allowed, MayBlame, Pages, FlightTypes, c
  <2>5. CASE client = "returned" /\ c = "other JSON"
    <3>1. MayBlame(p)
      BY <1>4, <1>6, <2>5 DEF MayBlame, Pages, FlightTypes
    <3>2. x \in {Return("INVALID_PARAMS"), Return("WEB_ERROR"), Return("UNKNOWN_ERROR"),
                 Return("crash")}
      BY <2>1, <2>5 DEF Flight, NotJSON, c
    <3> QED
      BY <3>1, <3>2 DEF Allowed
  <2>6. CASE client = "returned" /\ c = "fact"
    BY <1>4, <2>1, <2>6 DEF Flight, NotJSON, Allowed, MayHold, Datas, Pages, c
  <2>7. CASE client = "returned" /\ c = "not departed"
    <3>1. x = Store(IF request.type = "FLIGHT_INS" THEN "unset" ELSE "zero")
      BY <2>1, <2>7 DEF Flight, NotJSON, c
    <3>2. Whole /\ p = "not departed"
      BY <1>4, <2>7 DEF Pages
    <3>3. CASE request.type = "FLIGHT_INS"
      <4>1. x = Store("unset") /\ MayHold(p, "unset")
        BY <3>1, <3>2, <3>3 DEF MayHold
      <4> QED
        BY <4>1 DEF Allowed, Datas
    <3>4. CASE request.type = "FLIGHT_INS_ENC"
      <4>1. x = Store("zero") /\ MayHold(p, "zero")
        BY <3>1, <3>2, <3>4 DEF MayHold
      <4> QED
        BY <4>1 DEF Allowed, Datas
    <3> QED
      BY <1>6, <3>3, <3>4 DEF FlightTypes
  <2> QED
    BY <1>4, <2>2, <2>3, <2>4, <2>5, <2>6, <2>7 DEF NotJSON, Pages
<1>7. CASE request.type = "STEAM_EX"
  <2>1. x \in Steam(p)
    BY <1>7 DEF Scrape, FlightTypes
  <2>2. CASE client # "returned"
    BY <2>1, <2>2 DEF Steam, NoPage, Allowed
  <2>3. CASE client = "returned" /\ c \in NotJSON
    <3>1. ~(Whole /\ p = "fact")
      BY <1>2, <2>3 DEF NotJSON, c
    <3> QED
      BY <1>7, <2>1, <2>3, <3>1 DEF Steam, NotJSON, Allowed, MayBlame, c
  <2>4. CASE client = "returned" /\ c = "fact"
    BY <1>4, <2>1, <2>4 DEF Steam, NotJSON, Allowed, MayHold, Datas, Pages, c
  <2>5. CASE client = "returned" /\ c \in {"not found", "other JSON"}
    <3>1. x = Store("zero") \/ (x = Return("INVALID_PARAMS") /\ c = "other JSON")
      <4>1. CASE c = "not found"
        <5>1. x \in {Store("zero")}
          BY <2>1, <2>5, <4>1 DEF Steam, NotJSON, c
        <5> QED
          BY <5>1
      <4>2. CASE c = "other JSON"
        <5>1. x \in {Store("zero"), Return("INVALID_PARAMS")}
          BY <2>1, <2>5, <4>2 DEF Steam, NotJSON, c
        <5> QED
          BY <4>2, <5>1
      <4> QED
        BY <2>5, <4>1, <4>2
    <3>2. MayHold(p, "zero")
      BY <1>4, <1>7, <2>5 DEF MayHold, Pages
    <3>3. c = "other JSON" => MayBlame(p)
      BY <1>4, <1>7, <2>5 DEF MayBlame, Pages
    <3> QED
      BY <3>1, <3>2, <3>3 DEF Allowed, Datas
  <2>6. c # "not departed"
    BY <1>4, <1>7 DEF Pages, FlightTypes
  <2> QED
    BY <1>4, <2>2, <2>3, <2>4, <2>5, <2>6 DEF NotJSON, Pages
<1>8. CASE request.type = "FINANCE_INFO"
  <2>1. x \in YahooYQLStock(p)
    BY <1>8 DEF Scrape, FlightTypes
  <2>2. CASE client # "returned"
    BY <2>1, <2>2 DEF YahooYQLStock, NoPage, Allowed
  <2>3. CASE client = "returned" /\ c = "fact"
    BY <1>4, <2>1, <2>3 DEF YahooYQLStock, Allowed, MayHold, Datas, Pages, c
  <2>4. CASE client = "returned" /\ c = "not found"
    BY <1>4, <1>8, <2>1, <2>4 DEF YahooYQLStock, Allowed, MayBlame, Pages, c
  <2>5. CASE client = "returned" /\ c = "other JSON"
    <3>1. MayBlame(p)
      BY <1>4, <1>8, <2>5 DEF MayBlame, Pages
    <3>2. x \in {Return("INVALID_PARAMS"), Return("WEB_ERROR")}
      BY <2>1, <2>5 DEF YahooYQLStock, c
    <3> QED
      BY <3>1, <3>2 DEF Allowed
  <2>6. CASE client = "returned" /\ c \notin {"fact", "not found", "other JSON"}
    BY <2>1, <2>6 DEF YahooYQLStock, Allowed, c
  <2> QED
    BY <2>2, <2>3, <2>4, <2>5, <2>6
<1>9. CASE request.type = "COINMARKET"
  <2>1. x \in CoinMarket(p)
    BY <1>9 DEF Scrape, FlightTypes
  <2>2. CASE client # "returned"
    BY <2>1, <2>2 DEF CoinMarket, Allowed
  <2>3. CASE client = "returned" /\ c = "fact"
    BY <1>4, <2>1, <2>3 DEF CoinMarket, Allowed, MayHold, Datas, Pages, c
  <2>4. CASE client = "returned" /\ c # "fact"
    <3>1. MayBlame(p)
      BY <1>2, <1>9, <2>4 DEF MayBlame, c
    <3>2. CASE c = "cut"
      <4>1. MayHold(p, "fact") /\ MayHold(p, "part")
        BY <1>4, <1>9, <2>4, <3>2 DEF MayHold
      <4>2. x \in {Store("fact"), Store("part"), Return("INVALID_PARAMS"), Return("crash")}
        BY <2>1, <2>4, <3>2 DEF CoinMarket, c
      <4> QED
        BY <3>1, <4>1, <4>2 DEF Allowed, Datas
    <3>3. CASE c # "cut"
      BY <2>1, <2>4, <3>1, <3>3 DEF CoinMarket, Allowed, c
    <3> QED
      BY <3>2, <3>3
  <2> QED
    BY <2>2, <2>3, <2>4
<1>10. CASE request.type = "WEATHER"
  <2>1. x \in Weather(p)
    BY <1>10 DEF Scrape, FlightTypes
  <2>2. CASE client # "returned"
    BY <2>1, <2>2 DEF Weather, NoPage, Allowed
  <2>3. CASE client = "returned" /\ c \in NotJSON
    <3>1. ~(Whole /\ p = "fact")
      BY <1>2, <2>3 DEF NotJSON, c
    <3> QED
      BY <1>10, <2>1, <2>3, <3>1 DEF Weather, NotJSON, Allowed, MayBlame, c
  <2>4. CASE client = "returned" /\ c \in {"not found", "other JSON"}
    <3>1. MayBlame(p)
      BY <1>4, <1>10, <2>4 DEF MayBlame, Pages
    <3>2. x \in {Return("INVALID_PARAMS"), Return("WEB_ERROR"), Return("exception"),
                 Return("crash")}
      BY <2>1, <2>4 DEF Weather, NotJSON, c
    <3> QED
      BY <3>1, <3>2 DEF Allowed
  <2>5. CASE client = "returned" /\ c = "fact"
    BY <1>4, <2>1, <2>5 DEF Weather, NotJSON, Allowed, MayHold, Datas, Pages, c
  <2>6. c # "not departed"
    BY <1>4, <1>10 DEF Pages, FlightTypes
  <2> QED
    BY <1>4, <2>2, <2>3, <2>4, <2>5, <2>6 DEF NotJSON, Pages
<1>11. CASE request.type = "WOLFRAM"
  <2>1. x \in Wolfram(p)
    BY <1>11 DEF Scrape, FlightTypes
  <2>2. MayHold(p, "stray") /\ MayHold(p, "text")
    BY <1>11 DEF MayHold
  <2> QED
    BY <2>1, <2>2 DEF Wolfram, Allowed, Datas
<1> QED
  BY <1>3, <1>5, <1>6, <1>7, <1>8, <1>9, <1>10, <1>11 DEF Types, FlightTypes

\* a is an answer that the page may lead to, if it says p.
Justified(p, a) ==
    /\ a \in Answers
    /\ a.is = "transaction" /\ a.error = 1 => MayBlame(p)
    /\ a.is = "transaction" /\ a.error = 0 => MayHold(p, a.data)

\* An answer says what the scraper found.
LEMMA ResponseJustified ==
    ASSUME NEW p, NEW x, Allowed(p, x), NEW a \in Respond(x)
    PROVE  Justified(p, a)
<1>1. Datas = {"none", "fact", "zero", "part", "unset", "text", "stray"}
  BY DEF Datas
<1>2. CASE x = Return("exception")
  <2>1. a = [is |-> "no transaction", error |-> 0, data |-> "none"]
    BY <1>2 DEF Respond, Return, NoAnswer
  <2>2. a \in Answers /\ a.is = "no transaction"
    <3>1. [is |-> "no transaction", error |-> 0, data |-> "none"] \in Answers
      <4>1. 0 \in 0..3
        OBVIOUS
      <4> QED
        BY <4>1, Zenon DEF Answers
    <3> QED
      BY <2>1, <3>1
  <2> QED
    BY <2>2 DEF Justified
<1>3. CASE x = Return("crash")
  <2>1. a = [is |-> "crash", error |-> 0, data |-> "none"]
    BY <1>3 DEF Respond, Return, NoAnswer
  <2> QED
    BY <2>1 DEF Justified, Answers
<1>4. CASE x = Return("WEB_ERROR")
  <2>1. a = [is |-> "transaction", error |-> 3, data |-> "none"]
    BY <1>4 DEF Respond, Return, ErrorFlag
  <2> QED
    BY <2>1 DEF Justified, Answers
<1>5. CASE x = Return("UNKNOWN_ERROR")
  <2>1. a \in {[is |-> "transaction", error |-> 3, data |-> "none"],
               [is |-> "transaction", error |-> 2, data |-> "none"]}
    BY <1>5 DEF Respond, Return, ErrorFlag
  <2>2. a \in Answers /\ a.error \in {2, 3}
    <3>1. [is |-> "transaction", error |-> 3, data |-> "none"] \in Answers
      BY DEF Answers
    <3>2. [is |-> "transaction", error |-> 2, data |-> "none"] \in Answers
      BY DEF Answers
    <3> QED
      BY <2>1, <3>1, <3>2
  <2> QED
    BY <2>2 DEF Justified
<1>6. CASE x = Return("INVALID_PARAMS") /\ MayBlame(p)
  <2>1. a = [is |-> "transaction", error |-> 1, data |-> "none"]
    BY <1>6 DEF Respond, Return, ErrorFlag
  <2> QED
    BY <1>6, <2>1 DEF Justified, Answers
<1>7. ASSUME NEW d \in Datas, x = Store(d), MayHold(p, d)
      PROVE  Justified(p, a)
  <2>1. \/ a = [is |-> "transaction", error |-> 0, data |-> d]
        \/ a = [is |-> "crash", error |-> 0, data |-> "none"]
    BY <1>7 DEF Respond, Store, ErrorFlag, NoAnswer
  <2>2. CASE a = [is |-> "transaction", error |-> 0, data |-> d]
    <3>1. a.error = 0 /\ a.data = d
      BY <2>2
    <3>2. a \in Answers
      BY <1>1, <2>2 DEF Answers
    <3> QED
      BY <1>7, <3>1, <3>2 DEF Justified
  <2>3. CASE a = [is |-> "crash", error |-> 0, data |-> "none"]
    <3>1. a \in Answers /\ a.is = "crash"
      BY <2>3 DEF Answers
    <3> QED
      BY <3>1 DEF Justified
  <2> QED
    BY <2>1, <2>2, <2>3
<1> QED
  BY <1>2, <1>3, <1>4, <1>5, <1>6, <1>7 DEF Allowed

\* The invariant: the download's, that only a request that needs a site makes
\* a client, and that nothing of the download changes after the answer.
RequestInv ==
    /\ DownloadInv
    /\ TypeOK
    /\ client # "none" => NeedsSite
    /\ answer # NoAnswer => ~NeedsSite \/ client \in Final
    /\ BlamedForCause
    /\ NoErrorMeansFact

\* The invariant holds before the request.
LEMMA RequestInit ==
    ASSUME Init
    PROVE  RequestInv
<1>1. PICK r \in Replies : HttpInit(r)
  BY DEF Init
<1>2. DownloadInv
  BY <1>1, DownloadInit
<1>3. /\ client = "none" /\ page = "none" /\ answer = NoAnswer
      /\ request \in [type : Types, valid : BOOLEAN]
  BY <1>1 DEF HttpInit, Init
<1>4. TypeOK
  BY <1>3 DEF TypeOK, NoAnswer, Answers
<1> QED
  BY <1>2, <1>3, <1>4 DEF RequestInv, BlamedForCause, NoErrorMeansFact, NoAnswer

\* A request without a site is refused, and never gets the flag 0.
LEMMA RefuseKeeps ==
    ASSUME RequestInv, Refuse
    PROVE  RequestInv'
<1>1. /\ answer' \in {[is |-> "transaction", data |-> "none", error |-> 2],
                      [is |-> "transaction", data |-> "none", error |-> 1]}
      /\ request.type = "UPS_TRACKING" => answer'.error = 2
      /\ UNCHANGED <<httpVars, request, page>> /\ ~NeedsSite
  BY DEF Refuse
<1>2. DownloadInv'
  BY <1>1, DownloadStutter DEF RequestInv
<1>3. TypeOK'
  <2>1. answer' \in Answers
    <3>1. [is |-> "transaction", data |-> "none", error |-> 2] \in Answers
      BY DEF Answers
    <3>2. [is |-> "transaction", data |-> "none", error |-> 1] \in Answers
      BY DEF Answers
    <3> QED
      BY <1>1, <3>1, <3>2
  <2> QED
    BY <1>1, <2>1 DEF RequestInv, TypeOK
<1>4. NeedsSite' <=> NeedsSite
  BY <1>1 DEF NeedsSite
<1>5. client' = client
  BY <1>1 DEF httpVars
<1>6. answer'.error = 1 => ~request.valid \/ request.type = "unknown type"
  <2>1. answer'.error = 1 => request.type # "UPS_TRACKING"
    BY <1>1
  <2>2. ~NeedsSite
    BY <1>1
  <2> QED
    BY <2>1, <2>2, Zenon DEF NeedsSite
<1>7. answer'.error # 0
  BY <1>1
<1>8. BlamedForCause'
  BY <1>1, <1>3, <1>6 DEF BlamedForCause
<1>9. NoErrorMeansFact'
  BY <1>7 DEF NoErrorMeansFact
<1> QED
  BY <1>1, <1>2, <1>3, <1>4, <1>5, <1>8, <1>9 DEF RequestInv

\* The download moves only before the answer.
LEMMA FetchKeeps ==
    ASSUME RequestInv, Fetch
    PROVE  RequestInv'
<1>1. NeedsSite /\ Download /\ UNCHANGED <<request, page, answer>>
  BY DEF Fetch
<1>2. DownloadInv'
  BY <1>1, DownloadKeeps DEF RequestInv
<1>3. client \notin Final
  BY <1>1 DEF Download, Reading, NewClient, Connect, Close, FallSilent, Read, ReadEof,
              ReadFails, Final
<1>4. answer = NoAnswer
  BY <1>1, <1>3 DEF RequestInv
<1>5. TypeOK'
  BY <1>1 DEF RequestInv, TypeOK
<1>6. NeedsSite'
  BY <1>1 DEF NeedsSite
<1> QED
  BY <1>1, <1>2, <1>4, <1>5, <1>6 DEF RequestInv, BlamedForCause, NoErrorMeansFact, NoAnswer

\* The scraper answers from what the download left.
LEMMA FinishKeeps ==
    ASSUME RequestInv, NEW p \in Pages, Finish(p)
    PROVE  RequestInv'
<1>1. /\ client \in Final /\ page' = p /\ UNCHANGED <<httpVars, request>>
      /\ p = "not departed" => request.type \in FlightTypes
      /\ \E x \in Scrape(p) : answer' \in Respond(x)
  BY DEF Finish, Final
<1>2. DownloadInv /\ TypeOK /\ NeedsSite
  BY <1>1 DEF RequestInv, Final
<1>3. PICK x \in Scrape(p) : answer' \in Respond(x)
  BY <1>1
<1>4. Allowed(p, x)
  BY <1>1, <1>2, ScraperAllowed DEF TypeOK
<1>5. Justified(p, answer')
  BY <1>3, <1>4, ResponseJustified
<1>6. DownloadInv'
  BY <1>1, <1>2, DownloadStutter
<1>7. TypeOK'
  BY <1>1, <1>2, <1>5 DEF TypeOK, Justified
<1>8. /\ client' = client /\ http' = http /\ reply' = reply /\ cut' = cut /\ request' = request
  BY <1>1 DEF httpVars
<1>9. Whole' <=> Whole
  BY <1>8 DEF Whole
<1>10. (Framed' <=> Framed) /\ (NeedsSite' <=> NeedsSite)
  BY <1>8 DEF Framed, NeedsSite
<1>11. BlamedForCause'
  BY <1>1, <1>5, <1>7, <1>8, <1>9 DEF BlamedForCause, Justified, MayBlame
<1>12. NoErrorMeansFact'
  BY <1>1, <1>5, <1>8, <1>9, <1>10 DEF NoErrorMeansFact, Justified, MayHold
<1> QED
  BY <1>1, <1>6, <1>7, <1>2, <1>8, <1>10, <1>11, <1>12 DEF RequestInv

\* The inductive invariant of a request and its download.
THEOREM RequestInvariant == Spec => []RequestInv
<1>1. Init => RequestInv
  BY RequestInit
<1>2. RequestInv /\ [Next]_vars => RequestInv'
  <2> SUFFICES ASSUME RequestInv, [Next]_vars PROVE RequestInv'
    OBVIOUS
  <2>1. CASE Refuse
    BY <2>1, RefuseKeeps
  <2>2. CASE Fetch
    BY <2>2, FetchKeeps
  <2>3. ASSUME NEW p \in Pages, Finish(p) PROVE RequestInv'
    BY <2>3, FinishKeeps
  <2>4. CASE UNCHANGED vars
    <3>1. DownloadInv'
      BY <2>4, DownloadStutter DEF RequestInv, vars
    <3>2. /\ client' = client /\ http' = http /\ reply' = reply /\ cut' = cut
          /\ request' = request /\ page' = page /\ answer' = answer
      BY <2>4 DEF vars, httpVars
    <3> QED
      BY <3>1, <3>2 DEF RequestInv, TypeOK, NeedsSite, BlamedForCause, NoErrorMeansFact,
                        Whole, Framed
  <2> QED
    BY <2>1, <2>2, <2>3, <2>4 DEF Next
<1> QED
  BY <1>1, <1>2, PTL DEF Spec

\* For every reply of up to 2^31 - 1 bytes, in any chunks, cut into records of
\* any size up to the buffer's and broken off or held back at any point: getResponse
\* returns the status and the body that were sent, or what an end of file without
\* notice left of them.
THEOREM AlwaysReturnsWhatWasSent == Spec => []ReturnsWhatWasSent
<1>1. RequestInv => ReturnsWhatWasSent
  BY DownloadIsRight DEF RequestInv
<1> QED
  BY <1>1, RequestInvariant, PTL

\* No request in order is blamed, and loses its fee, because the download was
\* incomplete or the enclave failed: only for what a whole page says or lacks, or by
\* the three scrapers that take a page they cannot read for it.
THEOREM AlwaysBlamedForCause == Spec => []BlamedForCause
<1>1. RequestInv => BlamedForCause
  BY DEF RequestInv
<1> QED
  BY <1>1, RequestInvariant, PTL

\* do_handle_request delivers without an error flag only the fact of a whole page,
\* apart from the five scrapers for which NoErrorMeansFact has exceptions.
THEOREM AlwaysNoErrorMeansFact == Spec => []NoErrorMeansFact
<1>1. RequestInv => NoErrorMeansFact
  BY DEF RequestInv
<1> QED
  BY <1>1, RequestInvariant, PTL
-----------------------------------------------------------------------------
(* The flight query.                                                       *)

Marks == {NotDeparted, WasCancelled}

\* What the answer says about the flight the enclave saw.
AnswerSound ==
    /\ query.seen \in Times \cup Marks
    /\ ~query.valid => query.reply = "none"
    /\ query.valid => query.reply \in FlightAwareReplies
    /\ response.error = CASE query.reply \in {"none", "unknown"} -> 1
                        [] query.reply \in {"unreachable", "malformed"} -> 3
                        [] OTHER -> 0
    /\ query.reply = "flight" =>
           /\ Late => response.data >= PAYOUT_DELAY
           /\ Departed /\ query.seen \in Filed..(Filed + LateBy - 1) => response.data = 0
           /\ query.seen = NotDeparted /\ query.kind = "encrypted" => response.data = 0

\* The inductive invariant.
FlightInv ==
    /\ FlightTypeOK
    /\ actual \in Times \cup Marks
    /\ query.pc \in {"answered", "decided"} => AnswerSound
    /\ decision = IF query.pc = "decided" THEN Verdict(response) ELSE "none"
-----------------------------------------------------------------------------
(* Machine words.                                                          *)

\* What a number is modulo the size of a word.
LEMMA ModRange ==
    ASSUME NEW n \in Int, NEW m \in Nat, m > 0
    PROVE  n % m \in 0..(m - 1)
OBVIOUS

\* A number that fits the word is left as it is.
LEMMA ModSmall ==
    ASSUME NEW m \in Nat, NEW n \in 0..(m - 1)
    PROVE  n % m = n
OBVIOUS

\* A negative number wraps once.
LEMMA ModNegative ==
    ASSUME NEW m \in Nat, NEW n \in (-m)..(-1)
    PROVE  n % m = n + m
<1>1. n + m \in 0..(m - 1)
  OBVIOUS
<1>2. n = m * (-1) + (n + m)
  OBVIOUS
<1> QED
  BY <1>1, <1>2

\* The bounds of the words; half an hour fits into an int with room to spare.
LEMMA Words ==
    /\ UINT32 \in Nat /\ UINT32 > 3600
    /\ UINT64 \in Nat /\ UINT64 > UINT32
    /\ Filed \in Nat /\ Filed > 0
    /\ INT_MAX \in Int /\ INT_MIN \in Int
    /\ INT_MAX = -INT_MIN - 1
    /\ UINT32 = 2 * INT_MAX + 2
BY FlightAssumption DEF LateBy, MAX_DELAY_MIN, INT_MAX, INT_MIN

\* The ranges of the conversions.
LEMMA ToIntRange ==
    ASSUME NEW n \in Int
    PROVE  ToInt(n) \in INT_MIN..INT_MAX
<1>1. n % UINT32 \in 0..(UINT32 - 1)
  BY Words, ModRange
<1> QED
  BY <1>1, Words DEF ToInt

\* What AsUint256 writes is a word.
LEMMA AppendRange ==
    ASSUME NEW n \in Int
    PROVE  AsUint256(n) \in 0..(UINT32 - 1)
BY Words, ModRange DEF AsUint256

\* An int that is not negative is written as it is.
LEMMA AppendSame ==
    ASSUME NEW n \in 0..INT_MAX
    PROVE  AsUint256(n) = n
<1>1. n \in 0..(UINT32 - 1)
  BY Words
<1> QED
  BY <1>1, Words, ModSmall DEF AsUint256

\* Through int and back, 32 bits are unchanged.
LEMMA AppendToInt ==
    ASSUME NEW n \in 0..(UINT32 - 1)
    PROVE  AsUint256(ToInt(n)) = n
<1>1. n % UINT32 = n
  BY Words, ModSmall
<1>2. CASE n <= INT_MAX
  <2>1. ToInt(n) = n
    BY <1>1, <1>2, Words DEF ToInt
  <2> QED
    BY <1>2, <2>1, AppendSame, Words
<1>3. CASE n > INT_MAX
  <2>1. ToInt(n) = n - UINT32
    BY <1>1, <1>3, Words DEF ToInt
  <2>2. n - UINT32 \in (-UINT32)..(-1)
    BY Words
  <2>3. (n - UINT32) % UINT32 = (n - UINT32) + UINT32
    BY <2>2, Words, ModNegative
  <2> QED
    BY <2>1, <2>3, Words DEF AsUint256
<1> QED
  BY <1>2, <1>3, Words
-----------------------------------------------------------------------------
(* What the enclave makes of FlightAware's reply.                          *)

Ints == INT_MIN..INT_MAX

\* The delay is an int.
LEMMA ParseType ==
    ASSUME NEW t \in Nat, NEW delay \in Ints
    PROVE  /\ parse_response(t, delay).delay \in Ints
           /\ parse_response(t, delay).status
                  \in {"NOT_DEPARTED", "CANCELLED", "DELAYED", "DEPARTED"}
<1>1. 0 \in Ints /\ INT_MAX - 4 \in Ints
  BY Words DEF Ints
<1>2. (t - Filed) % UINT64 \in Int
  BY Words, ModRange
<1>3. ToInt((t - Filed) % UINT64) \in Ints
  BY <1>2, ToIntRange DEF Ints
<1>4. CASE t = NotDeparted
  BY <1>4, Words DEF parse_response, NotDeparted, WasCancelled
<1>5. CASE t # NotDeparted /\ t = WasCancelled
  BY <1>1, <1>5 DEF parse_response
<1>6. CASE t # NotDeparted /\ t # WasCancelled
  BY <1>1, <1>3, <1>6 DEF parse_response
<1> QED
  BY <1>4, <1>5, <1>6

\* The difference of the times of a flight that did not depart early.
LEMMA Difference ==
    ASSUME NEW t \in Times, t >= Filed
    PROVE  /\ (t - Filed) % UINT64 = t - Filed
           /\ t - Filed \in 0..(UINT32 - 1)
           /\ t \notin Marks
<1>1. t \in 1..(UINT64 - 2) /\ t - Filed < UINT32
  BY FlightAssumption
<1>2. t - Filed \in 0..(UINT64 - 1)
  BY <1>1, Words
<1>3. (t - Filed) % UINT64 = t - Filed
  BY <1>2, Words, ModSmall
<1>4. t \notin Marks
  BY <1>1, Words DEF Marks, NotDeparted, WasCancelled
<1> QED
  BY <1>1, <1>2, <1>3, <1>4, Words

\* The response for a late or cancelled flight is at least 30.
LEMMA ParseLate ==
    ASSUME NEW t \in Times \cup Marks, NEW delay,
           t = WasCancelled \/ (t \notin Marks /\ t >= Filed + LateBy)
    PROVE  AsUint256(parse_response(t, delay).delay) >= PAYOUT_DELAY
<1>1. CASE t = WasCancelled
  <2>1. t # NotDeparted
    BY <1>1, Words DEF NotDeparted, WasCancelled
  <2>2. parse_response(t, delay).delay = INT_MAX - 4
    BY <1>1, <2>1 DEF parse_response
  <2>3. INT_MAX - 4 \in 0..INT_MAX /\ INT_MAX - 4 >= 30
    BY Words
  <2> QED
    BY <2>2, <2>3, AppendSame DEF PAYOUT_DELAY
<1>2. CASE t \notin Marks /\ t >= Filed + LateBy
  <2> DEFINE diff == t - Filed
  <2>1. t \in Times /\ t \in Int
    BY <1>2, FlightAssumption
  <2>2. t >= Filed /\ diff >= LateBy /\ LateBy = 1800
    BY <1>2, <2>1, Words DEF LateBy, MAX_DELAY_MIN
  <2>3. (t - Filed) % UINT64 = diff /\ diff \in 0..(UINT32 - 1)
    BY <2>1, <2>2, Difference
  <2>4. parse_response(t, delay).delay = ToInt(diff)
    BY <1>2, <2>2, <2>3 DEF parse_response, Marks
  <2> QED
    BY <2>2, <2>3, <2>4, AppendToInt DEF PAYOUT_DELAY
<1> QED
  BY <1>1, <1>2

\* The response for a flight up to half an hour late is 0.
LEMMA ParseOnTime ==
    ASSUME NEW t \in Times, NEW delay, t \in Filed..(Filed + LateBy - 1)
    PROVE  parse_response(t, delay).delay = 0
<1>1. LateBy = 1800
  BY DEF LateBy, MAX_DELAY_MIN
<1>2. t \in Int /\ t >= Filed /\ t - Filed < LateBy
  BY <1>1, Words
<1>3. (t - Filed) % UINT64 < LateBy /\ t \notin Marks
  BY <1>2, Difference
<1>4. ~((t - Filed) % UINT64 >= LateBy)
  BY <1>1, <1>2, <1>3, Difference
<1> QED
  BY <1>3, <1>4 DEF parse_response, Marks

\* An answer of the enclave to a query that it could read.
LEMMA AnswerToValid ==
    ASSUME FlightInv, NEW told \in FlightAwareReplies, NEW delay \in Ints,
           query.valid, query.kind = "encrypted" => delay = 0,
           Answered(told, get_flight_delay(told, actual, delay))
    PROVE  FlightInv'
<1> DEFINE outcome == get_flight_delay(told, actual, delay)
<1>1. /\ query.pc = "asked" /\ query \in Query /\ decision = "none"
      /\ actual \in Times \cup Marks /\ actual \in 0..(UINT64 - 1)
  BY DEF FlightInv, FlightTypeOK, Answered
<1>2. query' = [query EXCEPT !.pc = "answered", !.reply = told, !.seen = actual]
  BY DEF Answered
<1>3. /\ query' \in Query
      /\ query'.pc = "answered" /\ query'.reply = told /\ query'.seen = actual
      /\ query'.valid = query.valid /\ query'.kind = query.kind
  BY <1>1, <1>2 DEF Query, FlightAwareReplies
<1>4. actual' = actual /\ decision' = "none"
  BY <1>1 DEF Answered
<1>5. /\ outcome.delay \in Ints
      /\ FlightErrorFlag(outcome.status) =
             CASE told \in {"none", "unknown"} -> 1
               [] told \in {"unreachable", "malformed"} -> 3
               [] OTHER -> 0
  <2>1. CASE told = "flight"
    <3>1. outcome = parse_response(actual, delay)
      BY <2>1 DEF get_flight_delay
    <3>2. actual \in Nat
      BY <1>1, Words
    <3> QED
      BY <2>1, <3>1, <3>2, ParseType DEF FlightErrorFlag
  <2>2. CASE told # "flight"
    BY <2>2 DEF get_flight_delay, FlightErrorFlag, FlightAwareReplies
  <2> QED
    BY <2>1, <2>2
<1>6. response' = Response(outcome)
  BY DEF Answered
<1> HIDE DEF outcome
<1>7. AsUint256(outcome.delay) \in 0..(UINT32 - 1)
  BY <1>5, AppendRange, Words DEF Ints
<1>8. FlightErrorFlag(outcome.status) \in {0, 1, 3} /\ 0 \in 0..(UINT32 - 1)
  BY <1>5, Words DEF FlightAwareReplies
<1>9. /\ response' \in Answer
      /\ response'.error = FlightErrorFlag(outcome.status)
      /\ response'.error = 0 => response'.data = AsUint256(outcome.delay)
  BY <1>6, <1>7, <1>8 DEF Response, Answer
<1>10. FlightTypeOK'
  BY <1>1, <1>3, <1>4, <1>9 DEF FlightTypeOK, Decisions
<1>11. ASSUME told = "flight"
       PROVE  /\ response'.data = AsUint256(outcome.delay)
              /\ outcome.delay = parse_response(actual, delay).delay
  BY <1>5, <1>9, <1>11 DEF outcome, get_flight_delay
<1>12. ASSUME told = "flight", Late'
       PROVE  response'.data >= PAYOUT_DELAY
  <2>1. actual = WasCancelled \/ (actual \notin Marks /\ actual >= Filed + LateBy)
    BY <1>3, <1>12 DEF Late, Departed, Marks
  <2> QED
    BY <1>1, <1>11, <1>12, <2>1, ParseLate
<1>13. ASSUME told = "flight", Departed', query'.seen \in Filed..(Filed + LateBy - 1)
       PROVE  response'.data = 0
  <2>1. actual \in Times /\ actual \in Filed..(Filed + LateBy - 1)
    BY <1>1, <1>3, <1>13 DEF Departed, Marks
  <2> QED
    BY <1>11, <1>13, <2>1, ParseOnTime, AppendSame, Words
<1>14. ASSUME told = "flight", query'.seen = NotDeparted, query'.kind = "encrypted"
       PROVE  response'.data = 0
  <2>1. parse_response(actual, delay).delay = 0
    BY <1>3, <1>14, Words DEF parse_response, NotDeparted, WasCancelled
  <2> QED
    BY <1>11, <1>14, <2>1, AppendSame, Words
<1>15. AnswerSound'
  BY <1>1, <1>3, <1>5, <1>9, <1>12, <1>13, <1>14 DEF AnswerSound
<1> QED
  BY <1>1, <1>3, <1>4, <1>10, <1>15 DEF FlightInv

\* A query that the enclave cannot read is refused.
LEMMA AnswerToInvalid ==
    ASSUME FlightInv, HandleInvalid
    PROVE  FlightInv'
<1>1. /\ query.pc = "asked" /\ query \in Query /\ decision = "none" /\ ~query.valid
      /\ actual \in Times \cup Marks /\ actual \in 0..(UINT64 - 1)
  BY DEF FlightInv, FlightTypeOK, HandleInvalid, Answered
<1>2. /\ query' = [query EXCEPT !.pc = "answered", !.reply = "none", !.seen = actual]
      /\ actual' = actual /\ decision' = "none"
  BY <1>1 DEF HandleInvalid, Answered
<1>3. /\ query' \in Query /\ ~query'.valid
      /\ query'.pc = "answered" /\ query'.reply = "none" /\ query'.seen = actual
  BY <1>1, <1>2 DEF Query
<1>4. response' = [error |-> 1, data |-> 0]
  BY DEF HandleInvalid, Answered, Response, FlightErrorFlag
<1>5. response' \in Answer
  BY <1>4, Words DEF Answer
<1>6. FlightTypeOK'
  BY <1>1, <1>2, <1>3, <1>5 DEF FlightTypeOK, Decisions
<1>7. AnswerSound'
  BY <1>1, <1>3, <1>4 DEF AnswerSound
<1> QED
  BY <1>1, <1>2, <1>3, <1>6, <1>7 DEF FlightInv
-----------------------------------------------------------------------------
\* The invariant holds before the query and is kept by every step.
LEMMA InitFlightInv == FlightInit => FlightInv
<1> SUFFICES ASSUME FlightInit
             PROVE  FlightInv
  OBVIOUS
<1>1. query \in Query /\ query.pc = "none"
  BY Words DEF FlightInit, NoQuery, Query, NotDeparted
<1>2. actual \in 0..(UINT64 - 1) /\ response \in Answer
  BY Words DEF FlightInit, Answer, NotDeparted
<1> QED
  BY <1>1, <1>2 DEF FlightInit, FlightInv, FlightTypeOK, Decisions, Marks

\* The cases of FlightInsurance.response exclude each other.
LEMMA VerdictOf ==
    ASSUME NEW a \in Answer
    PROVE  /\ a.error \in {0, 1, 3} /\ a.data \in Nat
           /\ a.error = 1 => Verdict(a) = "refund"
           /\ a.error = 3 => Verdict(a) = "refund with fee"
           /\ a.error = 0 /\ a.data >= PAYOUT_DELAY => Verdict(a) = "payout"
           /\ a.error = 0 /\ a.data < PAYOUT_DELAY => Verdict(a) = "no payout"
           /\ Verdict(a) \in Decisions \ {"none"}
<1>1. a.error \in {0, 1, 3} /\ a.data \in Nat
  BY Words DEF Answer
<1>2. a.data >= PAYOUT_DELAY <=> ~(a.data < PAYOUT_DELAY)
  BY <1>1 DEF PAYOUT_DELAY
<1>3. a.error = 1 => Verdict(a) = "refund"
  BY DEF Verdict
<1>4. a.error = 3 => Verdict(a) = "refund with fee"
  BY DEF Verdict
<1>5. a.error = 0 /\ a.data >= PAYOUT_DELAY => Verdict(a) = "payout"
  BY <1>2 DEF Verdict
<1>6. a.error = 0 /\ a.data < PAYOUT_DELAY => Verdict(a) = "no payout"
  BY <1>2 DEF Verdict
<1> QED
  BY <1>1, <1>2, <1>3, <1>4, <1>5, <1>6, Zenon DEF Decisions

\* What happens to the flight after the answer does not matter.
LEMMA SameAnswer ==
    ASSUME AnswerSound, UNCHANGED <<query, response>>
    PROVE  AnswerSound'
BY DEF AnswerSound, Late, Departed

\* Every step preserves the invariant.
LEMMA NextFlightInv ==
    ASSUME FlightInv, [FlightNext]_flightVars
    PROVE  FlightInv'
<1>1. ASSUME NEW t \in Times \cup {WasCancelled}, Depart(t)
      PROVE  FlightInv'
  <2>1. t \in 0..(UINT64 - 1)
    BY Words, FlightAssumption DEF WasCancelled
  <2>2. AnswerSound => AnswerSound'
    BY <1>1, SameAnswer DEF Depart
  <2> QED
    BY <1>1, <2>1, <2>2 DEF Depart, FlightInv, FlightTypeOK, Marks
<1>2. ASSUME NEW kind \in {"plain", "encrypted"}, NEW valid \in BOOLEAN, Ask(kind, valid)
      PROVE  FlightInv'
  <2>1. query' = [pc |-> "asked", kind |-> kind, valid |-> valid,
                  reply |-> "none", seen |-> 0]
    BY <1>2 DEF Ask, NoQuery, NotDeparted
  <2>2. query' \in Query /\ query'.pc = "asked"
    BY <2>1, Words DEF Query
  <2> QED
    BY <1>2, <2>2 DEF Ask, FlightInv, FlightTypeOK
<1>3. CASE HandleInvalid
  BY <1>3, AnswerToInvalid
<1>4. ASSUME NEW told \in FlightAwareReplies, NEW garbage \in Garbage, Handle(told, garbage)
      PROVE  FlightInv'
  <2>1. garbage \in Ints
    BY FlightAssumption DEF Ints
  <2> QED
    BY <1>4, <2>1, AnswerToValid DEF Handle
<1>5. ASSUME NEW told \in FlightAwareReplies, HandleEncrypted(told)
      PROVE  FlightInv'
  <2>1. 0 \in Ints
    BY Words DEF Ints
  <2> QED
    BY <1>5, <2>1, AnswerToValid DEF HandleEncrypted
<1>6. CASE Decide
  <2>1. /\ query' \in Query
        /\ query'.pc = "decided" /\ query'.reply = query.reply
        /\ query'.valid = query.valid /\ query'.kind = query.kind
        /\ query'.seen = query.seen
    BY <1>6 DEF Decide, FlightInv, FlightTypeOK, Query
  <2>2. AnswerSound /\ UNCHANGED <<actual, response>>
    BY <1>6 DEF Decide, FlightInv
  <2>3. AnswerSound'
    BY <2>1, <2>2 DEF AnswerSound, Late, Departed
  <2>4. decision' = Verdict(response)
    BY <1>6 DEF Decide
  <2>5. decision' \in Decisions
    BY <2>4, VerdictOf DEF FlightInv, FlightTypeOK, Decisions
  <2> QED
    BY <2>1, <2>2, <2>3, <2>4, <2>5 DEF FlightInv, FlightTypeOK
<1>7. CASE UNCHANGED flightVars
  BY <1>7, SameAnswer DEF flightVars, FlightInv, FlightTypeOK
<1> QED
  BY <1>1, <1>2, <1>3, <1>4, <1>5, <1>6, <1>7 DEF FlightNext

\* From get_flight_delay to FlightInsurance.response, the answer says what the
\* enclave saw and the decision is the verdict on it.
THEOREM FlightInvariance == FlightSpec => []FlightInv
BY InitFlightInv, NextFlightInv, PTL DEF FlightSpec

\* The response is an unsigned number of 32 bits, and every variable has its
\* type, whatever get_flight_delay computed.
THEOREM FlightTypeCorrect == FlightSpec => []FlightTypeOK
<1>1. FlightInv => FlightTypeOK
  BY DEF FlightInv
<1> QED
  BY FlightInvariance, <1>1, PTL

\* Once there is a decision it is the verdict on a sound answer.
LEMMA Verdicts ==
    ASSUME FlightInv, decision # "none"
    PROVE  AnswerSound /\ response \in Answer /\ decision = Verdict(response)
BY DEF FlightInv, FlightTypeOK

\* A flight that FlightAware knew is no error.
LEMMA FlightAnswered ==
    ASSUME FlightInv, decision # "none", query.reply = "flight"
    PROVE  response.error = 0
BY Verdicts DEF AnswerSound

\* parse_response and FlightInsurance.response pay every flight that departed
\* half an hour late or more, or was cancelled.
THEOREM LateFlightsArePaid == FlightSpec => []LateIsPaid
<1>1. ASSUME FlightInv, Decided(Late)
      PROVE  decision = "payout"
  <2>1. decision # "none" /\ query.reply = "flight" /\ Late
    BY <1>1 DEF Decided
  <2>2. response.data >= PAYOUT_DELAY
    BY <1>1, <2>1, Verdicts DEF AnswerSound
  <2> QED
    BY <1>1, <2>1, <2>2, Verdicts, FlightAnswered, VerdictOf
<1>2. FlightInv => LateIsPaid
  BY <1>1 DEF LateIsPaid
<1> QED
  BY FlightInvariance, <1>2, PTL

\* They pay none that departed up to half an hour late, nor one that was
\* asked for, encrypted, before it departed.
THEOREM OnTimeFlightsAreNotPaid == FlightSpec => []OnTimeIsNotPaid
<1>1. ASSUME FlightInv, decision # "none", query.reply = "flight", response.data = 0
      PROVE  decision = "no payout"
  <2>1. response \in Answer /\ decision = Verdict(response) /\ response.error = 0
    BY <1>1, Verdicts, FlightAnswered
  <2>2. response.data < PAYOUT_DELAY
    BY <1>1 DEF PAYOUT_DELAY
  <2> QED
    BY <2>1, <2>2, VerdictOf
<1>2. ASSUME FlightInv,
             Decided(Departed /\ query.seen \in Filed..(Filed + LateBy - 1))
      PROVE  decision = "no payout"
  BY <1>1, <1>2, Verdicts DEF Decided, AnswerSound
<1>3. ASSUME FlightInv,
             Decided(query.seen = NotDeparted /\ query.kind = "encrypted")
      PROVE  decision = "no payout"
  BY <1>1, <1>3, Verdicts DEF Decided, AnswerSound
<1>4. FlightInv => OnTimeIsNotPaid
  BY <1>2, <1>3 DEF OnTimeIsNotPaid
<1> QED
  BY FlightInvariance, <1>4, PTL

\* The error flag of do_handle_request gives the fee back exactly after a
\* failure that the requester did not cause.
THEOREM FeesComeBack == FlightSpec => []FeeBackIfBlameless
<1>1. ASSUME FlightInv, decision # "none"
      PROVE  /\ (decision = "refund with fee")
                    <=> (query.reply \in {"unreachable", "malformed"})
             /\ (decision = "refund") <=> (~query.valid \/ query.reply = "unknown")
  <2>1. /\ (response.error = 3) <=> (query.reply \in {"unreachable", "malformed"})
        /\ (response.error = 1) <=> (query.reply \in {"none", "unknown"})
    BY <1>1, Verdicts DEF AnswerSound
  <2>2. (query.reply = "none") <=> ~query.valid
    BY <1>1, Verdicts DEF AnswerSound, FlightAwareReplies
  <2>3. /\ (decision = "refund with fee") <=> (response.error = 3)
        /\ (decision = "refund") <=> (response.error = 1)
    <3>1. response.error = 0 => decision \in {"payout", "no payout"}
      <4>1. response \in Answer /\ decision = Verdict(response)
        BY <1>1, Verdicts
      <4>2. response.data >= PAYOUT_DELAY \/ response.data < PAYOUT_DELAY
        BY <4>1, Words DEF Answer, PAYOUT_DELAY
      <4> QED
        BY <4>1, <4>2, VerdictOf
    <3> QED
      BY <1>1, <3>1, Verdicts, VerdictOf
  <2> QED
    BY <2>1, <2>2, <2>3
<1>2. FlightInv => FeeBackIfBlameless
  BY <1>1 DEF FeeBackIfBlameless
<1> QED
  BY FlightInvariance, <1>2, PTL

-----------------------------------------------------------------------------
(* The transaction: numbers as bytes.                                      *)

\* A byte string is made of bytes.
LEMMA ByteOf ==
    ASSUME NEW bs \in ByteStrings
    PROVE  /\ Len(bs) \in Nat /\ bs \in Seq(0..255)
           /\ \A i \in 1..Len(bs) : bs[i] \in 0..255 /\ bs[i] \in Nat
<1>1. bs \in Seq(0..255) /\ Len(bs) \in Nat
  BY DEF ByteStrings
<1>2. ASSUME NEW i \in 1..Len(bs)
      PROVE  bs[i] \in 0..255
  BY <1>1, ElementOfSeq
<1>3. \A b \in 0..255 : b \in Nat
  OBVIOUS
<1> QED
  BY <1>1, <1>2, <1>3

\* The bytes of n are its digits.
HasDigits(d, Q, bs) ==
    /\ bs \in ByteStrings /\ Len(bs) = d
    /\ \A j \in 1..d : /\ d - j \in 0..8 /\ Q[d - j] \in Nat
                       /\ bs[j] = Q[d - j] % 256

\* BigEndian is what it is defined to be.
LEMMA DigitsOf ==
    ASSUME NEW n \in Nat, NEW d \in 0..8
    PROVE  HasDigits(d, Quotients(n, 256), BigEndian(n, d))
<1> DEFINE Q == Quotients(n, 256)
           bs == BigEndian(n, d)
<1>1. Q \in [0..8 -> Nat]
  BY QuotientsEquation DEF Divided
<1>2. bs = [j \in 1..d |-> Q[d - j] % 256]
  BY DEF BigEndian, get_n_th_byte
<1> HIDE DEF Q, bs
<1>3. ASSUME NEW j \in 1..d
      PROVE  d - j \in 0..8 /\ Q[d - j] \in Nat /\ Q[d - j] % 256 \in 0..255
  <2>1. d - j \in 0..8
    OBVIOUS
  <2>2. Q[d - j] \in Nat
    BY <1>1, <2>1
  <2>3. 256 \in {16, 256}
    OBVIOUS
  <2>4. Q[d - j] % 256 \in 0..255
    BY <2>2
  <2> QED
    BY <2>1, <2>2, <2>4
<1>4. bs \in [1..d -> 0..255]
  BY <1>2, <1>3
<1>5. bs \in Seq(0..255) /\ Len(bs) = d
  BY <1>4
<1> QED
  BY <1>2, <1>3, <1>5 DEF Q, bs, ByteStrings, HasDigits

\* f[i] is the value of the first i bytes of bs.
ValueSteps(f, bs) ==
    /\ f \in [0..Len(bs) -> Nat] /\ f[0] = 0
    /\ \A i \in 1..Len(bs) : f[i] = 256 * f[i - 1] + bs[i]

\* The value of bs is what its bytes add up to.
LEMMA ValueIs ==
    ASSUME NEW bs \in ByteStrings, NEW f, ValueSteps(f, bs)
    PROVE  Value(bs) = f[Len(bs)]
<1> DEFINE Rec(g) == [n \in 0..Len(bs) |-> IF n = 0 THEN 0 ELSE 256 * g[n - 1] + bs[n]]
           h == CHOOSE g : g = Rec(g)
           l == Len(bs)
<1>1. l \in Nat
  BY DEF ByteStrings
<1>2. f = Rec(f)
  BY <1>1 DEF ValueSteps
<1>3. h = Rec(h)
  <2> HIDE DEF Rec
  <2> QED
    BY <1>2
<1>4. Value(bs) = h[l]
  BY DEF Value
<1> HIDE DEF h
<1>5. h[0] = 0 /\ \A i \in 1..l : h[i] = 256 * h[i - 1] + bs[i]
  <2>1. \A i \in 0..l : h[i] = IF i = 0 THEN 0 ELSE 256 * h[i - 1] + bs[i]
    BY <1>3
  <2> QED
    BY <1>1, <2>1
<1>6. f[0] = 0 /\ \A i \in 1..l : f[i] = 256 * f[i - 1] + bs[i]
  BY DEF ValueSteps
<1> DEFINE T == {i \in Nat : i <= l => h[i] = f[i]}
<1>7. 0 \in T
  BY <1>5, <1>6
<1>8. \A m \in Nat : m \in T => m + 1 \in T
  <2> SUFFICES ASSUME NEW m \in Nat, m \in T, m + 1 <= l
               PROVE  h[m + 1] = f[m + 1]
    OBVIOUS
  <2>1. m + 1 \in 1..l /\ (m + 1) - 1 = m /\ m <= l
    BY <1>1
  <2>2. h[m + 1] = 256 * h[m] + bs[m + 1] /\ f[m + 1] = 256 * f[m] + bs[m + 1]
    BY <1>5, <1>6, <2>1
  <2>3. h[m] = f[m]
    BY <2>1
  <2> QED
    BY <2>2, <2>3
<1>9. \A m \in Nat : m \in T
  <2> HIDE DEF T
  <2> QED
    BY <1>7, <1>8, Induction
<1> QED
  BY <1>1, <1>4, <1>9

\* Every byte string has a value.
LEMMA ValueNat ==
    ASSUME NEW bs \in ByteStrings
    PROVE  Value(bs) \in Nat
<1> DEFINE l == Len(bs)
           G == [x \in Nat \X Nat |-> IF x[2] \in 1..l THEN 256 * x[1] + bs[x[2]] ELSE 0]
<1>1. l \in Nat /\ \A i \in 1..l : bs[i] \in Nat
  BY ByteOf
<1>2. G \in [Nat \X Nat -> Nat]
  BY <1>1
<1>3. PICK f : Recursive(f, Nat, 0, G, l)
  <2> DEFINE zero == 0
  <2>1. zero \in Nat
    OBVIOUS
  <2> HIDE DEF zero, G, l
  <2>2. \E f : Recursive(f, Nat, zero, G, l)
    BY <1>1, <1>2, <2>1, Recursion
  <2> QED
    BY <2>2 DEF zero
<1>4. f \in [0..l -> Nat] /\ f[0] = 0
  BY <1>3 DEF Recursive
<1>5. ASSUME NEW i \in 1..l
      PROVE  f[i] = 256 * f[i - 1] + bs[i]
  <2>1. i - 1 \in 0..l /\ i \in Nat
    BY <1>1
  <2>2. f[i - 1] \in Nat /\ f[i] = G[<<f[i - 1], i>>]
    <3> HIDE DEF G
    <3>1. f[i - 1] \in Nat
      BY <1>4, <2>1
    <3>2. f[i] = G[<<f[i - 1], i>>]
      BY <1>3 DEF Recursive
    <3> QED
      BY <3>1, <3>2
  <2>3. <<f[i - 1], i>> \in Nat \X Nat
    BY <2>1, <2>2
  <2> QED
    BY <2>2, <2>3
<1>6. ValueSteps(f, bs)
  BY <1>4, <1>5 DEF ValueSteps
<1>7. Value(bs) = f[l]
  BY <1>6, ValueIs
<1> QED
  BY <1>1, <1>4, <1>7

\* Zeros are bytes.
LEMMA ZerosType ==
    ASSUME NEW k \in Nat
    PROVE  Zeros(k) \in ByteStrings /\ Len(Zeros(k)) = k /\ \A i \in 1..k : Zeros(k)[i] = 0
<1>1. Zeros(k) \in [1..k -> 0..255]
  BY DEF Zeros
<1>2. Zeros(k) \in Seq(0..255) /\ Len(Zeros(k)) = k
  BY <1>1
<1> QED
  BY <1>2 DEF Zeros, ByteStrings

\* A number that fits in d bytes is read back from them, and from them with
\* zeros before them.
LEMMA PaddedValue ==
    ASSUME NEW d \in 0..8, NEW k \in Nat, NEW n, Fits(n, d)
    PROVE  /\ Zeros(k) \o BigEndian(n, d) \in ByteStrings
           /\ Len(Zeros(k) \o BigEndian(n, d)) = k + d
           /\ Value(Zeros(k) \o BigEndian(n, d)) = n
<1> DEFINE Q == Quotients(n, 256)
           z == Zeros(k)
           e == BigEndian(n, d)
           bs == z \o e
           f == [i \in 0..(k + d) |-> IF i <= k THEN 0 ELSE Q[d - (i - k)]]
<1>1. n \in Nat /\ Q[d] = 0
  BY DEF Fits
<1>2. Q \in [0..8 -> Nat] /\ Q[0] = n /\ \A i \in 1..8 : Q[i] = Q[i - 1] \div 256
  <2> DEFINE b == 256
  <2>1. b \in {16, 256}
    OBVIOUS
  <2> HIDE DEF b
  <2>2. Divided(n, b)
    BY <1>1, <2>1, QuotientsEquation
  <2> QED
    BY <2>2 DEF b, Divided
<1>3. z \in ByteStrings /\ Len(z) = k /\ \A i \in 1..k : z[i] = 0
  BY ZerosType
<1>4. e \in ByteStrings /\ Len(e) = d /\ \A j \in 1..d : e[j] = Q[d - j] % 256
  <2>1. HasDigits(d, Q, e)
    BY <1>1, DigitsOf
  <2> HIDE DEF Q, e
  <2> QED
    BY <2>1 DEF HasDigits
<1> HIDE DEF Q, z, e
<1>5. bs \in ByteStrings /\ Len(bs) = k + d
  BY <1>3, <1>4 DEF ByteStrings
<1>6. /\ \A i \in 1..k : bs[i] = 0
      /\ \A i \in (k + 1)..(k + d) : bs[i] = Q[d - (i - k)] % 256
  <2>1. \A i \in 1..k : bs[i] = z[i]
    BY <1>3, <1>4 DEF ByteStrings
  <2>2. ASSUME NEW i \in (k + 1)..(k + d)
        PROVE  bs[i] = e[i - k] /\ i - k \in 1..d
    BY <1>3, <1>4 DEF ByteStrings
  <2> QED
    BY <1>3, <1>4, <2>1, <2>2
<1> HIDE DEF bs
<1>7. f \in [0..(k + d) -> Nat]
  <2>1. \A i \in 0..(k + d) : ~(i <= k) => d - (i - k) \in 0..8
    OBVIOUS
  <2> QED
    BY <1>2, <2>1
<1>8. f[0] = 0
  OBVIOUS
<1>9. ASSUME NEW i \in 1..(k + d)
      PROVE  f[i] = 256 * f[i - 1] + bs[i]
  <2>1. i - 1 \in 0..(k + d) /\ i \in 0..(k + d)
    OBVIOUS
  <2>2. CASE i <= k
    <3>1. f[i] = 0 /\ f[i - 1] = 0 /\ bs[i] = 0
      BY <1>6, <2>1, <2>2
    <3> QED
      BY <3>1
  <2>3. CASE i > k
    <3> DEFINE m == d - (i - k)
    <3>1. m \in 0..8 /\ m + 1 \in 1..8 /\ (m + 1) - 1 = m /\ m + 1 <= d
      BY <2>3
    <3>2. f[i] = Q[m] /\ bs[i] = Q[m] % 256
      BY <1>6, <2>1, <2>3
    <3>3. f[i - 1] = Q[m + 1]
      <4>1. CASE i = k + 1
        <5>1. m + 1 = d /\ f[i - 1] = 0
          BY <2>1, <4>1
        <5> QED
          BY <1>1, <5>1
      <4>2. CASE i # k + 1
        <5>1. ~(i - 1 <= k) /\ d - ((i - 1) - k) = m + 1
          BY <2>3, <4>2
        <5> QED
          BY <2>1, <5>1
      <4> QED
        BY <4>1, <4>2
    <3>4. Q[m + 1] = Q[m] \div 256 /\ Q[m] \in Nat
      BY <1>2, <3>1
    <3>5. Q[m] = 256 * (Q[m] \div 256) + (Q[m] % 256)
      BY <3>4
    <3> HIDE DEF m, f
    <3> QED
      BY <3>2, <3>3, <3>4, <3>5
  <2> QED
    BY <2>2, <2>3
<1>10. ValueSteps(f, bs)
  BY <1>5, <1>7, <1>8, <1>9 DEF ValueSteps
<1>11. Value(bs) = f[k + d]
  <2> HIDE DEF f
  <2> QED
    BY <1>5, <1>10, ValueIs
<1>12. f[k + d] = n
  <2>1. k + d \in 0..(k + d)
    OBVIOUS
  <2>2. CASE d = 0
    BY <1>1, <1>2, <2>1, <2>2
  <2>3. CASE d # 0
    <3>1. d - ((k + d) - k) = 0 /\ ~(k + d <= k)
      BY <2>3
    <3> QED
      BY <1>2, <2>1, <3>1
  <2> QED
    BY <2>2, <2>3
<1> QED
  BY <1>5, <1>11, <1>12 DEF bs, z, e

\* The bytes of n without leading zeros.
Shortest(n, bs) ==
    /\ bs \in ByteStrings /\ Len(bs) <= 8 /\ Value(bs) = n /\ Canonical(bs)
    /\ n # 0 => Len(bs) \in 1..8 /\ bs[1] # 0

\* itob gives the shortest form of every uint64_t.
LEMMA ItobBack ==
    ASSUME NEW n, Fits(n, 8)
    PROVE  Shortest(n, itob(n, 0))
<1> DEFINE Q == Quotients(n, 256)
           d == byte_length(n)
           bs == BigEndian(n, d)
<1>1. n \in Nat /\ Q[8] = 0
  BY DEF Fits
<1>2. Q \in [0..8 -> Nat] /\ Q[0] = n /\ \A i \in 1..8 : Q[i] = Q[i - 1] \div 256
  <2> DEFINE b == 256
  <2>1. b \in {16, 256}
    OBVIOUS
  <2> HIDE DEF b
  <2>2. Divided(n, b)
    BY <1>1, <2>1, QuotientsEquation
  <2> QED
    BY <2>2 DEF b, Divided
<1>3. d \in 0..8 /\ Q[d] = 0 /\ \A i \in 0..(d - 1) : Q[i] # 0
  <2> DEFINE b == 256
             first == 0
  <2>1. b \in {16, 256} /\ first \in {0, 1}
    OBVIOUS
  <2>2. Quotients(n, b)[8] = 0
    BY <1>1
  <2> HIDE DEF b, first
  <2>3. \E k \in first..8 : /\ Quotients(n, b)[k] = 0
                            /\ \A i \in first..(k - 1) : Quotients(n, b)[i] # 0
    BY <1>1, <2>1, <2>2, FirstZero
  <2>4. \E k \in 0..8 : Q[k] = 0 /\ \A i \in 0..(k - 1) : Q[i] # 0
    BY <2>3 DEF b, first
  <2>5. d = CHOOSE k \in 0..8 : Q[k] = 0 /\ \A i \in 0..(k - 1) : Q[i] # 0
    BY DEF byte_length
  <2> HIDE DEF Q, d
  <2> QED
    BY <2>4, <2>5
<1> HIDE DEF d
<1>4. itob(n, 0) = bs /\ bs \in ByteStrings /\ Len(bs) = d
  <2>1. HasDigits(d, Q, bs)
    BY <1>1, <1>3, DigitsOf
  <2>2. bs \in ByteStrings /\ Len(bs) = d
    BY <2>1 DEF HasDigits
  <2> HIDE DEF bs, Q
  <2>3. itob(n, 0) = IF 0 > Len(bs) THEN Zeros(0 - Len(bs)) \o bs ELSE bs
    BY DEF itob, bs, d
  <2> QED
    BY <1>3, <2>2, <2>3
<1>5. Value(bs) = n
  <2> DEFINE k == 0
  <2>1. k \in Nat /\ Fits(n, d)
    BY <1>1, <1>3 DEF Fits
  <2> HIDE DEF k
  <2>2. Value(Zeros(k) \o bs) = n
    BY <1>3, <2>1, PaddedValue
  <2>3. Zeros(k) \in Seq(0..255) /\ Len(Zeros(k)) = 0
    BY <2>1, ZerosType DEF k, ByteStrings
  <2>4. Zeros(k) = <<>>
    BY <2>3
  <2>5. <<>> \o bs = bs
    <3>1. bs \in Seq(0..255)
      BY <1>4 DEF ByteStrings
    <3> HIDE DEF bs
    <3> QED
      BY <3>1
  <2> QED
    BY <2>2, <2>4, <2>5
<1>6. ASSUME d # 0
      PROVE  bs[1] # 0
  <2>1. HasDigits(d, Q, bs)
    BY <1>1, <1>3, DigitsOf
  <2> HIDE DEF bs, Q
  <2>2. bs[1] = Q[d - 1] % 256
    BY <1>3, <1>6, <2>1 DEF HasDigits
  <2>3. d - 1 \in 0..8 /\ d \in 1..8 /\ d - 1 \in 0..(d - 1)
    BY <1>3, <1>6
  <2>4. Q[d - 1] \in Nat /\ Q[d - 1] # 0 /\ Q[d - 1] \div 256 = 0
    BY <1>2, <1>3, <2>3
  <2>5. Q[d - 1] = 256 * (Q[d - 1] \div 256) + (Q[d - 1] % 256)
    BY <2>4
  <2> QED
    BY <2>2, <2>4, <2>5
<1>7. d = 0 => n = 0
  BY <1>2, <1>3
<1> HIDE DEF bs, Q
<1>8. d = 0 => bs = <<>>
  BY <1>4 DEF ByteStrings
<1>9. Canonical(bs)
  BY <1>6, <1>8, Zenon DEF Canonical
<1>10. n # 0 => d \in 1..8
  BY <1>3, <1>7
<1>11. Len(bs) <= 8
  BY <1>3, <1>4
<1>12. n # 0 => Len(bs) \in 1..8 /\ bs[1] # 0
  <2>1. d \in 1..8 => d # 0
    OBVIOUS
  <2> QED
    BY <1>4, <1>6, <1>10, <2>1
<1> QED
  BY <1>4, <1>5, <1>9, <1>11, <1>12 DEF Shortest

\* A number below 65536 fits in four and in eight bytes.
LEMMA ShortFits ==
    ASSUME NEW n \in Nat, n < 65536
    PROVE  Fits(n, 4) /\ Fits(n, 8)
<1> DEFINE b == 256
           Q == Quotients(n, b)
<1>1. Q \in [0..8 -> Nat] /\ Q[0] = n /\ \A i \in 1..8 : Q[i] = Q[i - 1] \div b
  <2>1. b \in {16, 256}
    OBVIOUS
  <2> HIDE DEF b
  <2>2. Divided(n, b)
    BY <2>1, QuotientsEquation
  <2> QED
    BY <2>2 DEF Divided
<1> HIDE DEF Q
<1>2. ASSUME NEW x \in Nat
      PROVE  /\ x \div b \in Nat
             /\ x < 65536 => x \div b < 256
             /\ x < 256 => x \div b = 0
  OBVIOUS
<1> HIDE DEF b
<1>4. Q[1] \in Nat /\ Q[1] < 256
  <2>1. Q[0] \in Nat /\ Q[0] < 65536
    BY <1>1
  <2>2. Q[1] = Q[0] \div b
    BY <1>1
  <2> QED
    BY <1>2, <2>1, <2>2
<1>5. Q[2] = 0
  <2>1. Q[2] = Q[1] \div b
    BY <1>1
  <2> QED
    BY <1>2, <1>4, <2>1
<1>6. \A i \in 1..8 : Q[i - 1] = 0 => Q[i] = 0
  <2> SUFFICES ASSUME NEW i \in 1..8, Q[i - 1] = 0
               PROVE  Q[i] = 0
    OBVIOUS
  <2>1. Q[i] = Q[i - 1] \div b
    BY <1>1
  <2>2. Q[i - 1] \in Nat /\ Q[i - 1] < 256
    OBVIOUS
  <2> QED
    BY <1>2, <2>1, <2>2
<1>7. Q[4] = 0 /\ Q[8] = 0
  <2>1. Q[3] = 0
    BY <1>5, <1>6
  <2>2. Q[4] = 0
    BY <1>6, <2>1
  <2>3. Q[5] = 0
    BY <1>6, <2>2
  <2>4. Q[6] = 0
    BY <1>6, <2>3
  <2>5. Q[7] = 0
    BY <1>6, <2>4
  <2>6. Q[8] = 0
    BY <1>6, <2>5
  <2> QED
    BY <2>2, <2>6
<1> QED
  BY <1>7 DEF Fits, Q, b

\* What append_as_uint256 makes of a number that fits is a word with its value.
LEMMA AppendBack ==
    ASSUME NEW d \in {4, 8}, NEW n, Fits(n, d)
    PROVE  /\ append_as_uint256(n, d) \in ByteStrings /\ Len(append_as_uint256(n, d)) = 32
           /\ Value(append_as_uint256(n, d)) = n
<1> DEFINE k == 32 - d
<1>1. k \in Nat /\ d \in 0..8 /\ k + d = 32
  OBVIOUS
<1>2. append_as_uint256(n, d) = Zeros(k) \o BigEndian(n, d)
  BY DEF append_as_uint256
<1> HIDE DEF k
<1> QED
  BY <1>1, <1>2, PaddedValue
-----------------------------------------------------------------------------
(* The transaction: RLP.                                                   *)

\* h announces a payload of len bytes.
IsHeader(offset, len, h) ==
    IF len < 56 THEN Len(h) = 1 /\ h[1] = offset + len
    ELSE LET d == Len(h) - 1 IN
         /\ d \in 1..8 /\ h[1] = offset + 55 + d
         /\ h[2] # 0 /\ Value(SubSeq(h, 2, 1 + d)) = len

\* RlpHeader announces a payload of every length that fits.
LEMMA HeaderType ==
    ASSUME NEW offset \in {128, 192}, NEW len, Fits(len, 8)
    PROVE  /\ RlpHeader(offset, len) \in ByteStrings /\ Len(RlpHeader(offset, len)) \in 1..9
           /\ IsHeader(offset, len, RlpHeader(offset, len))
<1> DEFINE h == RlpHeader(offset, len)
<1>1. len \in Nat
  BY DEF Fits
<1>2. CASE len < 56
  <2>1. h = <<offset + len>>
    BY <1>2 DEF RlpHeader
  <2>2. offset + len \in 0..255
    BY <1>1, <1>2
  <2> HIDE DEF h
  <2>3. h \in Seq(0..255) /\ Len(h) = 1 /\ h[1] = offset + len
    BY <2>1, <2>2
  <2>4. IsHeader(offset, len, h)
    BY <1>2, <2>3 DEF IsHeader
  <2>5. Len(h) \in 1..9
    BY <2>3
  <2> QED
    BY <2>3, <2>4, <2>5 DEF h, ByteStrings
<1>3. CASE ~(len < 56)
  <2> DEFINE l == itob(len, 0)
             d == Len(l)
             first == offset + 55 + d
  <2>1. Shortest(len, l)
    BY ItobBack
  <2>2. len # 0
    BY <1>1, <1>3
  <2>3. h = <<first>> \o l
    BY <1>3, Zenon DEF RlpHeader
  <2> HIDE DEF h, l
  <2>4. l \in ByteStrings /\ Value(l) = len /\ d \in 1..8 /\ l[1] # 0
    BY <2>1, <2>2 DEF Shortest
  <2>5. l \in Seq(0..255)
    BY <2>4 DEF ByteStrings
  <2>6. first \in 0..255
    <3>1. \A x \in 1..8 : offset + 55 + x \in 0..255
      OBVIOUS
    <3> HIDE DEF d
    <3> QED
      BY <2>4, <3>1
  <2> HIDE DEF first
  <2>7. h \in Seq(0..255) /\ Len(h) = 1 + d /\ h[1] = first
    BY <2>3, <2>5, <2>6
  <2>8. \A i \in 1..d : h[1 + i] = l[i]
    BY <2>3, <2>5, <2>6
  <2>9. h[2] = l[1]
    <3>1. 1 \in 1..d /\ 1 + 1 = 2
      BY <2>4
    <3> QED
      BY <2>8, <3>1
  <2>10. SubSeq(h, 2, 1 + d) = l
    BY <2>4, <2>5, <2>7, <2>8
  <2>11. Len(h) - 1 = d /\ Len(h) \in 1..9
    <3>1. \A x \in 1..8 : (1 + x) - 1 = x /\ 1 + x \in 1..9
      OBVIOUS
    <3> HIDE DEF d
    <3> QED
      BY <2>4, <2>7, <3>1
  <2>12. IsHeader(offset, len, h)
    BY <1>3, <2>4, <2>7, <2>9, <2>10, <2>11 DEF IsHeader, first
  <2> QED
    BY <2>7, <2>11, <2>12 DEF h, ByteStrings
<1> QED
  BY <1>2, <1>3

\* e stands in bs at position i.
Stands(e, bs, i) ==
    /\ i + Len(e) <= Len(bs) + 1
    /\ \A j \in 1..Len(e) : bs[i + (j - 1)] = e[j]

\* An item whose payload is first..(next - 1).
Found(first, next) == [first |-> first, next |-> next, ok |-> TRUE]

\* What stands in a string is a part of it.
LEMMA StandsIs ==
    ASSUME NEW bs \in ByteStrings, NEW e \in ByteStrings, NEW i \in Nat \ {0}, Stands(e, bs, i)
    PROVE  SubSeq(bs, i, i + Len(e) - 1) = e
<1> DEFINE l == Len(e)
           s == SubSeq(bs, i, i + l - 1)
<1>1. l \in Nat /\ Len(bs) \in Nat /\ bs \in Seq(0..255) /\ e \in Seq(0..255)
  BY ByteOf
<1>2. i + l <= Len(bs) + 1 /\ \A j \in 1..l : bs[i + (j - 1)] = e[j]
  BY DEF Stands
<1> HIDE DEF l
<1>3. i + l - 1 \in Int /\ i + l - 1 <= Len(bs) /\ (i + l - 1) - i + 1 = l
  BY <1>1, <1>2
<1>4. s = [j \in 1..l |-> bs[i + j - 1]]
  <2>1. s = [j \in 1..((i + l - 1) - i + 1) |-> bs[i + j - 1]]
    BY <1>1, <1>3
  <2> QED
    BY <1>3, <2>1
<1>5. \A j \in 1..l : s[j] = e[j]
  <2> SUFFICES ASSUME NEW j \in 1..l
               PROVE  s[j] = e[j]
    OBVIOUS
  <2>1. s[j] = bs[i + j - 1] /\ i + j - 1 = i + (j - 1)
    BY <1>1, <1>4
  <2> QED
    BY <1>2, <2>1
<1>6. e = [j \in 1..l |-> e[j]]
  BY <1>1 DEF l
<1>7. s = [j \in 1..l |-> e[j]]
  <2> HIDE DEF s
  <2>1. s = [j \in 1..l |-> s[j]]
    BY <1>4
  <2> QED
    BY <1>5, <2>1
<1> QED
  BY <1>6, <1>7 DEF l

\* Where two strings in a row stand, each of them stands.
LEMMA StandsParts ==
    ASSUME NEW bs \in ByteStrings, NEW e \in ByteStrings, NEW f \in ByteStrings,
           NEW i \in Nat \ {0}, Stands(e \o f, bs, i)
    PROVE  Stands(e, bs, i) /\ Stands(f, bs, i + Len(e))
<1> DEFINE l == Len(e)
           m == Len(f)
           g == e \o f
<1>1. l \in Nat /\ m \in Nat /\ Len(bs) \in Nat /\ e \in Seq(0..255) /\ f \in Seq(0..255)
  BY ByteOf
<1>2. /\ Len(g) = l + m
      /\ \A j \in 1..l : g[j] = e[j]
      /\ \A j \in 1..m : g[l + j] = f[j]
  BY <1>1
<1>3. i + Len(g) <= Len(bs) + 1 /\ \A j \in 1..Len(g) : bs[i + (j - 1)] = g[j]
  BY DEF Stands
<1> HIDE DEF g, l, m
<1>4. i + (l + m) <= Len(bs) + 1 /\ \A j \in 1..(l + m) : bs[i + (j - 1)] = g[j]
  BY <1>2, <1>3
<1>5. i + l <= Len(bs) + 1 /\ (i + l) + m <= Len(bs) + 1
  BY <1>1, <1>4
<1>6. \A j \in 1..l : bs[i + (j - 1)] = e[j]
  <2> SUFFICES ASSUME NEW j \in 1..l
               PROVE  bs[i + (j - 1)] = e[j]
    OBVIOUS
  <2>1. j \in 1..(l + m)
    BY <1>1
  <2> QED
    BY <1>2, <1>4, <2>1
<1>7. \A j \in 1..m : bs[(i + l) + (j - 1)] = f[j]
  <2> SUFFICES ASSUME NEW j \in 1..m
               PROVE  bs[(i + l) + (j - 1)] = f[j]
    OBVIOUS
  <2>1. l + j \in 1..(l + m) /\ i + ((l + j) - 1) = (i + l) + (j - 1)
    BY <1>1
  <2>2. bs[i + ((l + j) - 1)] = g[l + j]
    BY <1>4, <2>1
  <2> QED
    BY <1>2, <2>1, <2>2
<1> QED
  BY <1>5, <1>6, <1>7 DEF Stands, l, m

\* ItemAt, its local definitions expanded.
LEMMA ItemCases ==
    ASSUME NEW bs, NEW i, NEW offset
    PROVE  ItemAt(bs, i, offset) =
               CASE offset = 128 /\ bs[i] < 128 -> Span(bs, i, 1)
                 [] bs[i] \in offset..(offset + 55) ->
                      IF offset = 128 /\ bs[i] = 129 /\ i < Len(bs) /\ bs[i + 1] < 128
                      THEN Invalid ELSE Span(bs, i + 1, bs[i] - offset)
                 [] bs[i] \in (offset + 56)..(offset + 63) ->
                      IF /\ i + (bs[i] - offset - 55) <= Len(bs) /\ bs[i + 1] # 0
                         /\ Value(SubSeq(bs, i + 1, i + (bs[i] - offset - 55))) >= 56
                      THEN Span(bs, i + 1 + (bs[i] - offset - 55),
                                Value(SubSeq(bs, i + 1, i + (bs[i] - offset - 55))))
                      ELSE Invalid
                 [] OTHER -> Invalid
BY DEF ItemAt

\* A byte below 128 is a string of its own.
LEMMA ReadByte ==
    ASSUME NEW bs, NEW i, bs[i] \in 0..127
    PROVE  ItemAt(bs, i, 128) = Span(bs, i, 1)
<1> DEFINE o == 128
           G1 == o = 128 /\ bs[i] < 128
           G2 == bs[i] \in o..(o + 55)
           G3 == bs[i] \in (o + 56)..(o + 63)
           x1 == Span(bs, i, 1)
           x2 == IF o = 128 /\ bs[i] = 129 /\ i < Len(bs) /\ bs[i + 1] < 128
                 THEN Invalid ELSE Span(bs, i + 1, bs[i] - o)
           x3 == IF /\ i + (bs[i] - o - 55) <= Len(bs) /\ bs[i + 1] # 0
                    /\ Value(SubSeq(bs, i + 1, i + (bs[i] - o - 55))) >= 56
                 THEN Span(bs, i + 1 + (bs[i] - o - 55),
                           Value(SubSeq(bs, i + 1, i + (bs[i] - o - 55))))
                 ELSE Invalid
<1>1. ItemAt(bs, i, o) = CASE G1 -> x1 [] G2 -> x2 [] G3 -> x3 [] OTHER -> Invalid
  <2> HIDE DEF o
  <2> QED
    BY ItemCases
<1>2. G1 /\ ~G2 /\ ~G3
  OBVIOUS
<1> HIDE DEF G1, G2, G3, x1, x2, x3, o
<1>3. ItemAt(bs, i, o) = x1
  BY <1>1, <1>2
<1> QED
  BY <1>3 DEF x1, o

\* The string at position i has a header that it does not need.
Needless(bs, i, o) == o = 128 /\ bs[i] = 129 /\ i < Len(bs) /\ bs[i + 1] < 128

\* A short header.
LEMMA ReadShort ==
    ASSUME NEW bs, NEW i, NEW o \in {128, 192}, NEW len \in 0..55, bs[i] = o + len,
           ~Needless(bs, i, o)
    PROVE  ItemAt(bs, i, o) = Span(bs, i + 1, len)
<1> DEFINE G1 == o = 128 /\ bs[i] < 128
           G2 == bs[i] \in o..(o + 55)
           G3 == bs[i] \in (o + 56)..(o + 63)
           C == o = 128 /\ bs[i] = 129 /\ i < Len(bs) /\ bs[i + 1] < 128
           x1 == Span(bs, i, 1)
           y == Span(bs, i + 1, bs[i] - o)
           x3 == IF /\ i + (bs[i] - o - 55) <= Len(bs) /\ bs[i + 1] # 0
                    /\ Value(SubSeq(bs, i + 1, i + (bs[i] - o - 55))) >= 56
                 THEN Span(bs, i + 1 + (bs[i] - o - 55),
                           Value(SubSeq(bs, i + 1, i + (bs[i] - o - 55))))
                 ELSE Invalid
<1>1. ItemAt(bs, i, o) = CASE G1 -> x1 [] G2 -> (IF C THEN Invalid ELSE y)
                           [] G3 -> x3 [] OTHER -> Invalid
  BY ItemCases
<1>2. ~G1 /\ G2 /\ ~G3 /\ ~C
  BY DEF Needless
<1>3. bs[i] - o = len
  OBVIOUS
<1> HIDE DEF G1, G2, G3, C, x1, x3, y
<1>4. ItemAt(bs, i, o) = y
  BY <1>1, <1>2
<1> QED
  BY <1>3, <1>4 DEF y

\* A header with a length of d bytes.
LongAt(bs, i, o, d, len) ==
    /\ d \in 1..8 /\ bs[i] = o + 55 + d /\ i + d <= Len(bs) /\ bs[i + 1] # 0
    /\ Value(SubSeq(bs, i + 1, i + d)) = len /\ len >= 56

\* It is read as one.
LEMMA ReadLong ==
    ASSUME NEW bs, NEW i, NEW o \in {128, 192}, NEW d, NEW len, LongAt(bs, i, o, d, len)
    PROVE  ItemAt(bs, i, o) = Span(bs, i + 1 + d, len)
<1> DEFINE k == bs[i] - o - 55
           G1 == o = 128 /\ bs[i] < 128
           G2 == bs[i] \in o..(o + 55)
           G3 == bs[i] \in (o + 56)..(o + 63)
           C == /\ i + k <= Len(bs) /\ bs[i + 1] # 0
                /\ Value(SubSeq(bs, i + 1, i + k)) >= 56
           x1 == Span(bs, i, 1)
           x2 == IF o = 128 /\ bs[i] = 129 /\ i < Len(bs) /\ bs[i + 1] < 128
                 THEN Invalid ELSE Span(bs, i + 1, bs[i] - o)
           y == Span(bs, i + 1 + k, Value(SubSeq(bs, i + 1, i + k)))
<1>1. ItemAt(bs, i, o) = CASE G1 -> x1 [] G2 -> x2
                           [] G3 -> (IF C THEN y ELSE Invalid) [] OTHER -> Invalid
  BY ItemCases
<1>2. d \in 1..8 /\ bs[i] = o + 55 + d
  BY DEF LongAt
<1>3. ~G1 /\ ~G2 /\ G3 /\ k = d
  BY <1>2
<1> HIDE DEF k
<1>4. C
  BY <1>3 DEF LongAt
<1>5. y = Span(bs, i + 1 + d, len)
  BY <1>3 DEF LongAt
<1> HIDE DEF G1, G2, G3, C, x1, x2, y
<1>6. ItemAt(bs, i, o) = y
  BY <1>1, <1>3, <1>4
<1> QED
  BY <1>5, <1>6

\* A span inside of a string.
LEMMA SpanIs ==
    ASSUME NEW bs, NEW first, NEW len, first + len <= Len(bs) + 1
    PROVE  Span(bs, first, len) = Found(first, first + len)
BY DEF Span, Found

\* The header h of a payload of len bytes stands in bs, and the payload fits.
HeaderAt(bs, i, o, len, h) ==
    /\ h \in ByteStrings /\ Len(h) \in 1..9 /\ IsHeader(o, len, h) /\ Stands(h, bs, i)
    /\ i + Len(h) + len <= Len(bs) + 1
    /\ o = 128 /\ len = 1 => bs[i + 1] >= 128

\* It is read as what it is.
LEMMA ReadHeader ==
    ASSUME NEW bs \in ByteStrings, NEW i \in Nat \ {0}, NEW o \in {128, 192},
           NEW len \in Nat, NEW h, HeaderAt(bs, i, o, len, h)
    PROVE  ItemAt(bs, i, o) = Found(i + Len(h), i + Len(h) + len)
<1>1. /\ h \in ByteStrings /\ Len(h) \in 1..9 /\ IsHeader(o, len, h) /\ Stands(h, bs, i)
      /\ i + Len(h) + len <= Len(bs) + 1
      /\ o = 128 /\ len = 1 => bs[i + 1] >= 128
  BY DEF HeaderAt
<1>2. Len(bs) \in Nat /\ \A k \in 1..Len(bs) : bs[k] \in 0..255 /\ bs[k] \in Nat
  BY ByteOf
<1>3. i + Len(h) <= Len(bs) + 1 /\ \A j \in 1..Len(h) : bs[i + (j - 1)] = h[j]
  BY <1>1 DEF Stands
<1>4. bs[i] = h[1]
  <2> DEFINE m == Len(h)
  <2>1. m \in 1..9
    BY <1>1
  <2> HIDE DEF m
  <2>2. 1 \in 1..m /\ i + (1 - 1) = i
    BY <2>1
  <2> QED
    BY <1>3, <2>2 DEF m
<1>5. CASE len < 56
  <2>1. Len(h) = 1 /\ bs[i] = o + len /\ len \in 0..55
    BY <1>1, <1>4, <1>5 DEF IsHeader
  <2>2. ~Needless(bs, i, o)
    <3> SUFFICES ASSUME o = 128, bs[i] = 129, i < Len(bs), bs[i + 1] < 128
                 PROVE  FALSE
      BY DEF Needless
    <3>1. len = 1
      BY <2>1
    <3>2. i + 1 \in 1..Len(bs)
      BY <1>2
    <3>3. bs[i + 1] \in Nat /\ bs[i + 1] >= 128
      BY <1>1, <1>2, <3>1, <3>2
    <3> QED
      BY <3>3
  <2>3. ItemAt(bs, i, o) = Span(bs, i + 1, len)
    BY <2>1, <2>2, ReadShort
  <2>4. (i + 1) + len <= Len(bs) + 1
    BY <1>1, <2>1
  <2>5. Span(bs, i + 1, len) = Found(i + 1, i + 1 + len)
    BY <2>4, SpanIs
  <2> QED
    BY <2>1, <2>3, <2>5
<1>6. CASE ~(len < 56)
  <2> DEFINE d == Len(h) - 1
             p == SubSeq(bs, i + 1, i + d)
             q == SubSeq(h, 2, 1 + d)
  <2>1. d \in 1..8 /\ h[1] = o + 55 + d /\ h[2] # 0 /\ Value(q) = len
    BY <1>1, <1>6 DEF IsHeader
  <2>2. Len(h) = 1 + d /\ i + d <= Len(bs) /\ i + 1 + d = i + Len(h)
    BY <1>1, <1>2, <1>3, <2>1
  <2>3. bs[i + 1] = h[2]
    <3>1. 2 \in 1..Len(h) /\ i + (2 - 1) = i + 1
      BY <2>1, <2>2
    <3> QED
      BY <1>3, <3>1
  <2> HIDE DEF d
  <2>4. p = q
    <3>1. bs \in Seq(0..255) /\ h \in Seq(0..255)
      BY <1>1 DEF ByteStrings
    <3>2. p = [j \in 1..d |-> bs[(i + 1) + j - 1]]
      BY <1>2, <2>1, <2>2, <3>1
    <3>3. q = [j \in 1..d |-> h[2 + j - 1]]
      BY <2>1, <2>2, <3>1
    <3>4. ASSUME NEW j \in 1..d
          PROVE  bs[(i + 1) + j - 1] = h[2 + j - 1]
      <4>1. j + 1 \in 1..Len(h) /\ i + ((j + 1) - 1) = (i + 1) + j - 1 /\ 2 + j - 1 = j + 1
        BY <2>1, <2>2
      <4> QED
        BY <1>3, <4>1
    <3> HIDE DEF p, q
    <3>5. ASSUME NEW j \in 1..d
          PROVE  p[j] = q[j]
      <4>1. p[j] = bs[(i + 1) + j - 1]
        BY <3>2
      <4>2. q[j] = h[2 + j - 1]
        BY <3>3
      <4> QED
        BY <3>4, <4>1, <4>2
    <3>6. p = [j \in 1..d |-> p[j]]
      BY <3>2
    <3>7. q = [j \in 1..d |-> q[j]]
      BY <3>3
    <3> QED
      BY <3>5, <3>6, <3>7
  <2>5. LongAt(bs, i, o, d, len)
    <3>1. len >= 56
      BY <1>6
    <3> QED
      BY <1>4, <2>1, <2>2, <2>3, <2>4, <3>1 DEF LongAt
  <2>6. ItemAt(bs, i, o) = Span(bs, i + 1 + d, len)
    BY <2>5, ReadLong
  <2>7. Span(bs, i + 1 + d, len) = Found(i + 1 + d, i + 1 + d + len)
    <3>1. (i + 1 + d) + len <= Len(bs) + 1
      BY <1>1, <2>2
    <3> QED
      BY <3>1, SpanIs
  <2> QED
    BY <2>2, <2>6, <2>7
<1> QED
  BY <1>5, <1>6

\* At position i of bs there is the string e, encoded as s.
Reads(bs, i, e, s) ==
    \E f : /\ ItemAt(bs, i, 128) = Found(f, i + Len(s))
           /\ SubSeq(bs, f, i + Len(s) - 1) = e

\* What rlp_string writes: something, not much more than the string.
LEMMA StringType ==
    ASSUME NEW e \in ByteStrings, Fits(Len(e), 8)
    PROVE  /\ rlp_string(e) \in ByteStrings /\ Len(rlp_string(e)) \in Nat \ {0}
           /\ Len(rlp_string(e)) <= 9 + Len(e)
<1> DEFINE h == RlpHeader(128, Len(e))
           l == Len(e)
           s == rlp_string(e)
<1>1. l \in Nat /\ e \in Seq(0..255)
  BY ByteOf
<1>2. CASE l = 1 /\ e[1] < 128
  <2>1. s = e
    BY <1>2 DEF rlp_string
  <2>2. s \in ByteStrings /\ Len(s) = l
    BY <2>1
  <2> HIDE DEF l, s
  <2>3. Len(s) \in Nat \ {0} /\ Len(s) <= 9 + l
    BY <1>2, <2>2
  <2> QED
    BY <2>2, <2>3 DEF l, s
<1>3. CASE ~(l = 1 /\ e[1] < 128)
  <2>1. s = h \o e
    BY <1>3, Zenon DEF rlp_string
  <2>2. h \in ByteStrings /\ Len(h) \in 1..9
    <3> DEFINE o == 128
    <3>1. o \in {128, 192}
      OBVIOUS
    <3> HIDE DEF o
    <3>2. RlpHeader(o, Len(e)) \in ByteStrings /\ Len(RlpHeader(o, Len(e))) \in 1..9
      BY <3>1, HeaderType
    <3> QED
      BY <3>2 DEF o
  <2> DEFINE m == Len(h)
  <2> HIDE DEF h
  <2>3. h \in Seq(0..255)
    BY <2>2, ByteOf
  <2>4. h \o e \in Seq(0..255) /\ Len(h \o e) = m + l
    BY <1>1, <2>3
  <2>5. s \in ByteStrings /\ Len(s) = m + l /\ m \in 1..9
    BY <2>1, <2>2, <2>4 DEF ByteStrings
  <2> HIDE DEF l, s, m
  <2>6. Len(s) \in Nat \ {0} /\ Len(s) <= 9 + l
    BY <1>1, <2>5
  <2> QED
    BY <2>5, <2>6 DEF l, s
<1> QED
  BY <1>2, <1>3

\* A string is read back.
LEMMA ReadString ==
    ASSUME NEW bs \in ByteStrings, NEW e \in ByteStrings, NEW i \in Nat \ {0},
           Fits(Len(e), 8), Stands(rlp_string(e), bs, i)
    PROVE  Reads(bs, i, e, rlp_string(e))
<1> DEFINE h == RlpHeader(128, Len(e))
           s == rlp_string(e)
           l == Len(e)
<1>1. l \in Nat /\ e \in Seq(0..255) /\ \A k \in 1..l : e[k] \in 0..255
  BY ByteOf
<1>2. CASE l = 1 /\ e[1] < 128
  <2>1. s = e
    BY <1>2 DEF rlp_string
  <2>2. Stands(e, bs, i)
    BY <2>1
  <2>3. i + 1 <= Len(bs) + 1 /\ bs[i] \in 0..127
    <3>1. i + l <= Len(bs) + 1 /\ \A j \in 1..l : bs[i + (j - 1)] = e[j]
      BY <2>2 DEF Stands
    <3>2. 1 \in 1..l /\ i + (1 - 1) = i
      BY <1>2
    <3>3. bs[i] = e[1] /\ e[1] \in 0..255
      BY <1>1, <3>1, <3>2
    <3> HIDE DEF l
    <3>4. i + 1 <= Len(bs) + 1
      BY <1>2, <3>1
    <3>5. \A x \in 0..255 : x < 128 => x \in 0..127
      OBVIOUS
    <3>6. bs[i] \in 0..255 /\ bs[i] < 128
      BY <1>2, <3>3
    <3>7. bs[i] \in 0..127
      BY ONLY <3>5, <3>6
    <3> QED
      BY <3>4, <3>7
  <2>4. ItemAt(bs, i, 128) = Span(bs, i, 1)
    BY <2>3, ReadByte
  <2>5. Span(bs, i, 1) = Found(i, i + 1)
    <3> DEFINE one == 1
    <3>1. i + one <= Len(bs) + 1
      BY <2>3
    <3> HIDE DEF one
    <3>2. Span(bs, i, one) = Found(i, i + one)
      BY <3>1, SpanIs
    <3> QED
      BY <3>2 DEF one
  <2>6. SubSeq(bs, i, i + Len(e) - 1) = e
    BY <2>2, StandsIs
  <2>7. ItemAt(bs, i, 128) = Found(i, i + Len(s))
    BY <1>2, <2>1, <2>4, <2>5
  <2> HIDE DEF s
  <2>8. Reads(bs, i, e, s)
    BY <2>1, <2>6, <2>7 DEF Reads
  <2> QED
    BY <2>8 DEF s
<1>3. CASE ~(l = 1 /\ e[1] < 128)
  <2> DEFINE o == 128
             g == RlpHeader(o, l)
             m == Len(g)
  <2>1. o \in {128, 192}
    OBVIOUS
  <2>2. s = g \o e
    BY <1>3, Zenon DEF rlp_string
  <2> HIDE DEF o
  <2>3. g \in ByteStrings /\ m \in 1..9 /\ IsHeader(o, l, g)
    BY <2>1, HeaderType
  <2> HIDE DEF g, s
  <2>4. Stands(g, bs, i) /\ Stands(e, bs, i + m)
    BY <2>2, <2>3, StandsParts DEF s
  <2>5. i + m + l <= Len(bs) + 1 /\ \A j \in 1..l : bs[(i + m) + (j - 1)] = e[j]
    BY <2>4 DEF Stands
  <2>6. ASSUME l = 1
        PROVE  bs[i + 1] >= 128
    <3>1. m = 1
      BY <2>3, <2>6 DEF IsHeader
    <3>2. 1 \in 1..l /\ (i + m) + (1 - 1) = i + 1
      BY <2>6, <3>1
    <3>3. bs[i + 1] = e[1] /\ e[1] \in 0..255
      BY <1>1, <2>5, <3>2
    <3> QED
      BY <1>3, <2>6, <3>3
  <2>7. HeaderAt(bs, i, o, l, g)
    BY <2>3, <2>4, <2>5, <2>6 DEF HeaderAt
  <2>8. ItemAt(bs, i, o) = Found(i + m, i + m + l)
    BY <1>1, <2>1, <2>7, ReadHeader
  <2>9. Len(s) = m + l
    <3>1. g \in Seq(0..255)
      BY <2>3, ByteOf
    <3> QED
      BY <1>1, <2>2, <3>1
  <2>10. i + m \in Nat \ {0} /\ i + m + l = i + (m + l) /\ (i + m) + l - 1 = i + (m + l) - 1
    BY <1>1, <2>3
  <2>11. SubSeq(bs, i + m, (i + m) + l - 1) = e
    BY <2>4, <2>10, StandsIs
  <2>12. ItemAt(bs, i, 128) = Found(i + m, i + Len(s)) /\ SubSeq(bs, i + m, i + Len(s) - 1) = e
    BY <2>8, <2>9, <2>10, <2>11 DEF o
  <2>13. Reads(bs, i, e, s)
    BY <2>12 DEF Reads
  <2> QED
    BY <2>13 DEF s
<1> QED
  BY <1>2, <1>3

\* An item that is ok leads on, and not past the end.
LEMMA ItemForward ==
    ASSUME NEW bs \in ByteStrings, NEW i \in 1..Len(bs), ItemAt(bs, i, 128).ok
    PROVE  ItemAt(bs, i, 128).next \in (i + 1)..(Len(bs) + 1)
<1> DEFINE o == 128
           k == bs[i] - o - 55
           len == Value(SubSeq(bs, i + 1, i + k))
           n == Len(bs)
           good(x) == x.ok => x.next \in (i + 1)..(n + 1)
           G1 == o = 128 /\ bs[i] < 128
           G2 == bs[i] \in o..(o + 55)
           G3 == bs[i] \in (o + 56)..(o + 63)
           C == i + k <= Len(bs) /\ bs[i + 1] # 0 /\ len >= 56
           D == o = 128 /\ bs[i] = 129 /\ i < Len(bs) /\ bs[i + 1] < 128
           x1 == Span(bs, i, 1)
           x2 == IF D THEN Invalid ELSE Span(bs, i + 1, bs[i] - o)
           x3 == IF C THEN Span(bs, i + 1 + k, len) ELSE Invalid
<1>1. ItemAt(bs, i, o) = CASE G1 -> x1 [] G2 -> x2 [] G3 -> x3 [] OTHER -> Invalid
  BY ItemCases
<1>2. n \in Nat /\ bs[i] \in Nat /\ bs \in Seq(0..255) /\ i \in Nat \ {0} /\ i <= n
  BY ByteOf
<1> SUFFICES good(ItemAt(bs, i, o))
  OBVIOUS
<1>3. ASSUME NEW first \in Nat, NEW l \in Nat, first >= i, first + l >= i + 1
      PROVE  good(Span(bs, first, l))
  <2>1. CASE first + l <= n + 1
    <3>1. Span(bs, first, l) = [first |-> first, next |-> first + l, ok |-> TRUE]
      BY <2>1 DEF Span
    <3>2. first + l \in (i + 1)..(n + 1)
      <4> HIDE DEF n
      <4> QED
        BY <1>2, <1>3, <2>1
    <3> QED
      BY <3>1, <3>2
  <2>2. CASE ~(first + l <= n + 1)
    BY <2>2 DEF Span, Invalid
  <2> QED
    BY <2>1, <2>2
<1>4. good(Invalid)
  BY DEF Invalid
<1>5. CASE G1
  <2>1. good(x1)
    <3> DEFINE one == 1
    <3>1. one \in Nat /\ i + one >= i + 1 /\ i >= i
      BY <1>2
    <3> HIDE DEF one, good
    <3>2. good(Span(bs, i, one))
      BY <1>2, <1>3, <3>1
    <3> QED
      BY <3>2 DEF one
  <2>2. ~G2 /\ ~G3
    <3>1. \A b \in Nat : b < 128 => ~(b \in 128..(128 + 55)) /\ ~(b \in (128 + 56)..(128 + 63))
      OBVIOUS
    <3> QED
      BY <1>2, <1>5, <3>1
  <2> HIDE DEF x1, x2, x3, good
  <2>3. ItemAt(bs, i, o) = x1
    <3> HIDE DEF o, G1, G2, G3
    <3> QED
      BY <1>1, <1>5, <2>2
  <2> QED
    BY <2>1, <2>3
<1>6. CASE ~G1 /\ G2
  <2>1. good(x2)
    <3>1. bs[i] - o \in Nat /\ i + 1 \in Nat /\ i + 1 >= i
          /\ (i + 1) + (bs[i] - o) >= i + 1
      BY <1>2, <1>6
    <3> DEFINE m == bs[i] - o
    <3> HIDE DEF good, D, m
    <3>2. good(Span(bs, i + 1, m))
      BY <1>3, <3>1 DEF m
    <3> QED
      BY <1>4, <3>2 DEF m
  <2>2. ~G3
    <3>1. \A b \in Nat : b \in 128..(128 + 55) => ~(b \in (128 + 56)..(128 + 63))
      OBVIOUS
    <3> QED
      BY <1>2, <1>6, <3>1
  <2>3. ItemAt(bs, i, o) = x2
    <3> HIDE DEF o, G1, G2, G3, x1, x2, x3
    <3> QED
      BY <1>1, <1>6, <2>2
  <2> HIDE DEF x2, good
  <2> QED
    BY <2>1, <2>3
<1>7. CASE ~G1 /\ ~G2 /\ G3
  <2>1. k \in 1..8
    BY <1>2, <1>7
  <2> HIDE DEF k
  <2>2. good(x3)
    <3>1. CASE C
      <4> DEFINE e == SubSeq(bs, i + 1, i + k)
      <4>1. e \in ByteStrings
        <5>1. i + 1 \in 1..(n + 1) /\ i + k \in 0..n /\ i + k <= n /\ i + 1 \in Int /\ i + k \in Int
          BY <1>2, <2>1, <3>1
        <5>2. ASSUME NEW j \in (i + 1)..(i + k)
              PROVE  bs[j] \in 0..255
          <6>1. j \in 1..n
            BY <1>2, <2>1, <5>1
          <6> QED
            BY <1>2, <6>1, ElementOfSeq
        <5> QED
          BY <1>2, <5>1, <5>2 DEF ByteStrings
      <4>2. len \in Nat
        <5> HIDE DEF e
        <5>1. Value(e) \in Nat
          BY <4>1, ValueNat
        <5> QED
          BY <5>1 DEF e
      <4>3. i + 1 + k \in Nat /\ i + 1 + k >= i
        BY <1>2, <2>1
      <4> HIDE DEF len
      <4>4. (i + 1 + k) + len >= i + 1
        BY <1>2, <2>1, <4>2
      <4> HIDE DEF good
      <4>5. good(Span(bs, i + 1 + k, len))
        BY <1>3, <4>2, <4>3, <4>4
      <4> HIDE DEF C
      <4> QED
        BY <3>1, <4>5
    <3>2. CASE ~C
      <4> HIDE DEF C, good
      <4> QED
        BY <1>4, <3>2
    <3> QED
      BY <3>1, <3>2
  <2>3. ItemAt(bs, i, o) = x3
    <3> HIDE DEF o, G1, G2, G3, x1, x2, x3
    <3> QED
      BY <1>1, <1>7
  <2> HIDE DEF x3, good
  <2> QED
    BY <2>2, <2>3
<1>8. CASE ~G1 /\ ~G2 /\ ~G3
  <2>1. ItemAt(bs, i, o) = Invalid
    <3> HIDE DEF o, G1, G2, G3, x1, x2, x3
    <3> QED
      BY <1>1, <1>8
  <2> HIDE DEF good
  <2> QED
    BY <1>4, <2>1
<1>9. good(ItemAt(bs, i, o))
  BY <1>5, <1>6, <1>7, <1>8
<1> QED
  BY <1>9

\* The string at position j and those behind it, if f has them.
StringsStep(bs, f, j) ==
    IF j > Len(bs) THEN <<>>
    ELSE IF ItemAt(bs, j, 128).ok
         THEN <<SubSeq(bs, ItemAt(bs, j, 128).first, ItemAt(bs, j, 128).next - 1)>>
              \o f[ItemAt(bs, j, 128).next]
         ELSE <<<<-1>>>>

\* That takes only what f has for later positions.
LEMMA StepLater ==
    ASSUME NEW bs \in ByteStrings, NEW j \in 1..(Len(bs) + 1), NEW f, NEW g,
           \A i \in (j + 1)..(Len(bs) + 1) : f[i] = g[i]
    PROVE  StringsStep(bs, f, j) = StringsStep(bs, g, j)
<1>1. CASE j > Len(bs)
  BY <1>1 DEF StringsStep
<1>2. CASE ~(j > Len(bs)) /\ ItemAt(bs, j, 128).ok
  <2> DEFINE next == ItemAt(bs, j, 128).next
  <2>1. j \in 1..Len(bs)
    BY <1>2, ByteOf
  <2>2. next \in (j + 1)..(Len(bs) + 1)
    BY <1>2, <2>1, ItemForward
  <2>3. f[next] = g[next]
    BY <2>2
  <2> HIDE DEF next
  <2>4. \A h : StringsStep(bs, h, j)
            = <<SubSeq(bs, ItemAt(bs, j, 128).first, next - 1)>> \o h[next]
    BY <1>2 DEF StringsStep, next
  <2> QED
    BY <2>3, <2>4, Zenon
<1>3. CASE ~(j > Len(bs)) /\ ~ItemAt(bs, j, 128).ok
  BY <1>3 DEF StringsStep
<1> QED
  BY <1>1, <1>2, <1>3

\* Strings takes the steps that it is defined to take.
LEMMA StringsEquation ==
    ASSUME NEW bs \in ByteStrings, NEW j \in 1..(Len(bs) + 1)
    PROVE  Strings(bs, j) =
               IF j > Len(bs) THEN <<>>
               ELSE IF ItemAt(bs, j, 128).ok
                    THEN <<SubSeq(bs, ItemAt(bs, j, 128).first, ItemAt(bs, j, 128).next - 1)>>
                         \o Strings(bs, ItemAt(bs, j, 128).next)
                    ELSE <<<<-1>>>>
<1> DEFINE n == Len(bs)
           D == 1..(n + 1)
           Rec(f) == [k \in D |-> StringsStep(bs, f, k)]
           Good(m, f) == \A k \in D : k > n + 1 - m => f[k] = StringsStep(bs, f, k)
           T == {m \in Nat : \E f : Good(m, f)}
<1>1. n \in Nat
  BY ByteOf
<1>2. 0 \in T
  <2>1. ASSUME NEW f
        PROVE  Good(0, f)
    <3>1. \A k \in D : ~(k > n + 1 - 0)
      BY <1>1
    <3> QED
      BY <3>1
  <2> QED
    BY <2>1
<1>3. ASSUME NEW m \in Nat, m \in T
      PROVE  m + 1 \in T
  <2>1. PICK f : Good(m, f)
    BY <1>3
  <2> DEFINE g == [k \in D |-> IF k = n + 1 - m THEN StringsStep(bs, f, k) ELSE f[k]]
             at == n + 1 - m
  <2>2. ASSUME NEW k \in D, k > n + 1 - (m + 1)
        PROVE  g[k] = StringsStep(bs, g, k)
    <3>1. k >= at /\ at \in Int
      BY <1>1, <1>3, <2>2
    <3>2. \A i \in (k + 1)..(n + 1) : i \in D /\ i # at
      BY <1>1, <3>1
    <3>3. \A i \in (k + 1)..(n + 1) : f[i] = g[i]
      BY <3>2
    <3>4. StringsStep(bs, f, k) = StringsStep(bs, g, k)
      <4> HIDE DEF g
      <4> QED
        BY <3>3, StepLater
    <3>5. g[k] = StringsStep(bs, f, k)
      <4>1. CASE k = at
        BY <4>1
      <4>2. CASE k # at
        <5>1. k > at
          BY <1>1, <3>1, <4>2
        <5>2. f[k] = StringsStep(bs, f, k)
          BY <2>1, <5>1
        <5>3. g[k] = f[k]
          BY <4>2
        <5> QED
          BY <5>2, <5>3
      <4> QED
        BY <4>1, <4>2
    <3> QED
      BY <3>4, <3>5
  <2>3. Good(m + 1, g)
    <3> HIDE DEF g
    <3> QED
      BY <2>2
  <2>4. m + 1 \in Nat
    OBVIOUS
  <2> HIDE DEF g, Good
  <2> QED
    BY <2>3, <2>4
<1>4. n + 1 \in T
  <2>1. n + 1 \in Nat
    BY <1>1
  <2> HIDE DEF T
  <2> QED
    BY <1>2, <1>3, <2>1, Induction
<1>5. PICK f : Good(n + 1, f)
  BY <1>4
<1> DEFINE g == [k \in D |-> f[k]]
<1>6. ASSUME NEW k \in D
      PROVE  g[k] = StringsStep(bs, g, k)
  <2>1. k > n + 1 - (n + 1)
    BY <1>1
  <2>2. f[k] = StringsStep(bs, f, k)
    BY <1>5, <2>1
  <2>3. \A i \in (k + 1)..(n + 1) : f[i] = g[i]
    BY <1>1
  <2>4. g[k] = f[k]
    OBVIOUS
  <2> HIDE DEF g
  <2>5. StringsStep(bs, f, k) = StringsStep(bs, g, k)
    BY <2>3, StepLater
  <2> QED
    BY <2>2, <2>4, <2>5
<1>7. g = Rec(g)
  <2>1. g = [k \in D |-> g[k]]
    OBVIOUS
  <2> HIDE DEF g
  <2> QED
    BY <1>6, <2>1
<1> DEFINE S == CHOOSE h : h = Rec(h)
<1>8. S = Rec(S)
  <2> HIDE DEF Rec, g
  <2> QED
    BY <1>7
<1>9. \A i : Strings(bs, i) = S[i]
  BY DEF Strings, StringsStep
<1> HIDE DEF S
<1>10. S[j] = StringsStep(bs, S, j)
  BY <1>8
<1> DEFINE next == ItemAt(bs, j, 128).next
<1>11. Strings(bs, j) = S[j] /\ Strings(bs, next) = S[next]
  BY <1>9
<1>12. S[j] = IF j > Len(bs) THEN <<>>
              ELSE IF ItemAt(bs, j, 128).ok
                   THEN <<SubSeq(bs, ItemAt(bs, j, 128).first, next - 1)>> \o S[next]
                   ELSE <<<<-1>>>>
  BY <1>10, Zenon DEF StringsStep
<1> QED
  BY <1>11, <1>12, Zenon

\* Each of the strings stands where it begins.
LEMMA PartStands ==
    ASSUME NEW ss \in Seq(ByteStrings)
    PROVE  /\ Starts(ss) \in [0..Len(ss) -> Nat] /\ Starts(ss)[0] = 0
           /\ Concat(ss) \in ByteStrings /\ Len(Concat(ss)) = Starts(ss)[Len(ss)]
           /\ \A k \in 1..Len(ss) :
                  /\ Starts(ss)[k] = Starts(ss)[k - 1] + Len(ss[k])
                  /\ Stands(ss[k], Concat(ss), Starts(ss)[k - 1] + 1)
<1> DEFINE all == Concat(ss)
           at == Starts(ss)
           n == Len(ss)
<1>1. ss \in Seq(Seq(0..255))
  BY DEF ByteStrings
<1>2. /\ at \in [0..n -> Nat] /\ at[0] = 0
      /\ \A k \in 1..n : at[k] = at[k - 1] + Len(ss[k])
      /\ all \in Seq(0..255) /\ Len(all) = at[n]
      /\ \A k \in 1..n : \A j \in 1..Len(ss[k]) :
             at[k - 1] + j <= Len(all) /\ all[at[k - 1] + j] = ss[k][j]
      /\ \A k \in 0..n : at[k] <= Len(all)
  BY <1>1, ConcatIndex
<1>3. n \in Nat /\ \A k \in 1..n : ss[k] \in ByteStrings /\ Len(ss[k]) \in Nat
  BY DEF ByteStrings
<1> HIDE DEF all, at, n
<1>4. ASSUME NEW k \in 1..n
      PROVE  Stands(ss[k], all, at[k - 1] + 1)
  <2>1. k - 1 \in 0..n /\ k \in 0..n
    BY <1>3
  <2>2. at[k - 1] \in Nat /\ at[k] \in Nat /\ at[k] <= Len(all) /\ at[k] = at[k - 1] + Len(ss[k])
    BY <1>2, <2>1
  <2> DEFINE x == at[k - 1] l == Len(ss[k]) y == at[k]
  <2>3. l \in Nat /\ x \in Nat /\ y = x + l /\ y <= Len(all)
    BY <1>3, <2>2
  <2>4. \A j \in 1..l : all[x + j] = ss[k][j]
    BY <1>2
  <2>5. Len(all) \in Nat
    BY <1>2
  <2> HIDE DEF x, y, l
  <2>6. (x + 1) + l <= Len(all) + 1
    BY <2>3, <2>5
  <2>7. ASSUME NEW j \in 1..l
        PROVE  all[(x + 1) + (j - 1)] = ss[k][j]
    <3>1. (x + 1) + (j - 1) = x + j
      BY <2>3
    <3> QED
      BY <2>4, <3>1
  <2> QED
    BY <2>6, <2>7 DEF Stands, x, l
<1> QED
  BY <1>2, <1>4 DEF all, at, n, ByteStrings

\* Two byte strings in one: each stands in it.
LEMMA TwoBytes ==
    ASSUME NEW e \in ByteStrings, NEW f \in ByteStrings
    PROVE  /\ e \o f \in ByteStrings /\ Len(e \o f) = Len(e) + Len(f)
           /\ Stands(e, e \o f, 1) /\ Stands(f, e \o f, Len(e) + 1)
<1> DEFINE all == e \o f
           l == Len(e)
           m == Len(f)
<1>1. l \in Nat /\ m \in Nat
  BY ByteOf
<1>2. /\ all \in Seq(0..255) /\ Len(all) = l + m
      /\ \A k \in 1..(l + m) : all[k] = IF k <= l THEN e[k] ELSE f[k - l]
  BY ConcatProperties DEF ByteStrings
<1> HIDE DEF all, l, m
<1>3. ASSUME NEW j \in 1..l
      PROVE  all[1 + (j - 1)] = e[j]
  <2>1. 1 + (j - 1) = j /\ j \in 1..(l + m) /\ j <= l
    BY <1>1
  <2> QED
    BY <1>2, <2>1
<1>4. ASSUME NEW j \in 1..m
      PROVE  all[(l + 1) + (j - 1)] = f[j]
  <2>1. (l + 1) + (j - 1) = l + j /\ l + j \in 1..(l + m) /\ ~(l + j <= l) /\ (l + j) - l = j
    BY <1>1
  <2> QED
    BY <1>2, <2>1
<1>5. 1 + l <= (l + m) + 1 /\ (l + 1) + m <= (l + m) + 1
  BY <1>1
<1> QED
  BY <1>2, <1>3, <1>4, <1>5 DEF all, l, m, Stands, ByteStrings

\* What stands in a string stands wherever that string does.
LEMMA StandsIn ==
    ASSUME NEW e \in ByteStrings, NEW f \in ByteStrings, NEW bs \in ByteStrings,
           NEW i \in Nat \ {0}, NEW j \in Nat \ {0}, Stands(e, f, i), Stands(f, bs, j)
    PROVE  Stands(e, bs, j + (i - 1))
<1> DEFINE l == Len(e) m == Len(f) n == Len(bs)
<1>1. l \in Nat /\ m \in Nat /\ n \in Nat
  BY ByteOf
<1>2. i + l <= m + 1 /\ \A k \in 1..l : f[i + (k - 1)] = e[k]
  BY DEF Stands
<1>3. j + m <= n + 1 /\ \A k \in 1..m : bs[j + (k - 1)] = f[k]
  BY DEF Stands
<1> HIDE DEF l, m, n
<1>4. (j + (i - 1)) + l <= n + 1
  BY <1>1, <1>2, <1>3
<1>5. ASSUME NEW k \in 1..l
      PROVE  bs[(j + (i - 1)) + (k - 1)] = e[k]
  <2>1. i + (k - 1) \in 1..m
    BY <1>1, <1>2
  <2>2. bs[j + ((i + (k - 1)) - 1)] = f[i + (k - 1)]
    BY <1>3, <2>1
  <2>3. j + ((i + (k - 1)) - 1) = (j + (i - 1)) + (k - 1)
    BY <1>1
  <2> QED
    BY <1>2, <2>2, <2>3
<1> QED
  BY <1>4, <1>5 DEF Stands, l, n

\* The strings fs, each encoded, and what can be encoded.
Encoded(fs) == [k \in 1..Len(fs) |-> rlp_string(fs[k])]
Encodable(fs) == fs \in Seq(ByteStrings) /\ \A k \in 1..Len(fs) : Fits(Len(fs[k]), 8)

\* The encoded strings are byte strings.
LEMMA EncodedType ==
    ASSUME NEW fs, Encodable(fs)
    PROVE  /\ Encoded(fs) \in Seq(ByteStrings) /\ Len(Encoded(fs)) = Len(fs) /\ Len(fs) \in Nat
           /\ \A k \in 1..Len(fs) :
                  /\ fs[k] \in ByteStrings /\ Fits(Len(fs[k]), 8)
                  /\ Encoded(fs)[k] = rlp_string(fs[k]) /\ Encoded(fs)[k] \in ByteStrings
                  /\ Len(Encoded(fs)[k]) \in Nat \ {0}
<1> DEFINE n == Len(fs)
<1>1. fs \in Seq(ByteStrings) /\ n \in Nat
  BY DEF Encodable
<1>2. ASSUME NEW k \in 1..n
      PROVE  fs[k] \in ByteStrings /\ Fits(Len(fs[k]), 8)
  BY <1>1 DEF Encodable
<1>3. \A k \in 1..n : rlp_string(fs[k]) \in ByteStrings /\ Len(rlp_string(fs[k])) \in Nat \ {0}
  BY <1>2, StringType
<1>4. Encoded(fs) = [k \in 1..n |-> rlp_string(fs[k])]
  BY DEF Encoded
<1> HIDE DEF n
<1>5. Encoded(fs) \in Seq(ByteStrings) /\ Len(Encoded(fs)) = n
  BY <1>1, <1>3, <1>4
<1>6. \A k \in 1..n : Encoded(fs)[k] = rlp_string(fs[k])
  BY <1>4
<1> QED
  BY <1>1, <1>2, <1>3, <1>5, <1>6 DEF n

\* The encoded strings, one after the other, are read back.
LEMMA StringsBack ==
    ASSUME NEW bs \in ByteStrings, NEW fs, Encodable(fs), NEW i \in Nat \ {0},
           Stands(Concat(Encoded(fs)), bs, i),
           i + Len(Concat(Encoded(fs))) = Len(bs) + 1
    PROVE  Strings(bs, i) = fs
<1> DEFINE ss == Encoded(fs)
           all == Concat(ss)
           at == Starts(ss)
           n == Len(fs)
           end == Len(bs)
<1>1. /\ ss \in Seq(ByteStrings) /\ Len(ss) = n /\ n \in Nat /\ fs \in Seq(ByteStrings)
      /\ \A k \in 1..n : /\ fs[k] \in ByteStrings /\ Fits(Len(fs[k]), 8)
                         /\ ss[k] = rlp_string(fs[k]) /\ ss[k] \in ByteStrings
                         /\ Len(ss[k]) \in Nat \ {0}
  BY EncodedType DEF Encodable
<1> HIDE DEF ss
<1>2. /\ at \in [0..n -> Nat] /\ at[0] = 0 /\ all \in ByteStrings /\ Len(all) = at[n]
      /\ \A k \in 1..n : at[k] = at[k - 1] + Len(ss[k]) /\ Stands(ss[k], all, at[k - 1] + 1)
  BY <1>1, PartStands
<1>3. Stands(all, bs, i) /\ i + at[n] = end + 1 /\ end \in Nat
  BY <1>2, ByteOf DEF ss
<1> HIDE DEF all, at, n, end
<1> DEFINE T == {m \in Nat : m <= n => /\ Strings(bs, i + at[n - m]) = SubSeq(fs, (n - m) + 1, n)
                                       /\ i + at[n - m] <= end + 1}
<1>4. 0 \in T
  <2>1. n - 0 = n /\ i + at[n] \in 1..(end + 1) /\ i + at[n] > end
    BY <1>1, <1>3
  <2>2. Strings(bs, i + at[n]) = <<>>
    BY <2>1, StringsEquation DEF end
  <2>3. SubSeq(fs, n + 1, n) = <<>>
    BY <1>1
  <2>4. i + at[n] <= end + 1
    BY <1>3, <2>1
  <2>5. Strings(bs, i + at[n - 0]) = SubSeq(fs, (n - 0) + 1, n) /\ i + at[n - 0] <= end + 1
    BY <2>1, <2>2, <2>3, <2>4
  <2> QED
    BY <2>5
<1>5. ASSUME NEW m \in Nat, m \in T
      PROVE  m + 1 \in T
  <2> SUFFICES ASSUME m + 1 <= n
               PROVE  /\ Strings(bs, i + at[n - (m + 1)]) = SubSeq(fs, (n - (m + 1)) + 1, n)
                      /\ i + at[n - (m + 1)] <= end + 1
    OBVIOUS
  <2> DEFINE k == n - m
             p == i + at[k - 1]
  <2>1. k \in 1..n /\ k - 1 = n - (m + 1) /\ k - 1 \in 0..n /\ k \in 0..n /\ m <= n
    BY <1>1
  <2>2. Strings(bs, i + at[k]) = SubSeq(fs, k + 1, n) /\ i + at[k] <= end + 1
    BY <1>5, <2>1
  <2> HIDE DEF k
  <2>3. at[k - 1] \in Nat /\ at[k] \in Nat /\ at[k] = at[k - 1] + Len(ss[k])
    BY <1>2, <2>1
  <2>4. /\ p \in Nat \ {0} /\ p + Len(ss[k]) = i + at[k] /\ p \in 1..end
        /\ i + ((at[k - 1] + 1) - 1) = p /\ at[k - 1] + 1 \in Nat \ {0}
    <3> DEFINE x == at[k - 1] y == at[k] l == Len(ss[k])
    <3>1. x \in Nat /\ y \in Nat /\ y = x + l /\ l \in Nat \ {0} /\ i + y <= end + 1
      BY <1>1, <2>1, <2>2, <2>3
    <3> HIDE DEF x, y, l
    <3>2. /\ i + x \in Nat \ {0} /\ (i + x) + l = i + y /\ i + x \in 1..end
          /\ i + ((x + 1) - 1) = i + x /\ x + 1 \in Nat \ {0}
      BY <1>3, <3>1
    <3> QED
      BY <3>2 DEF x, y, l
  <2>5. Stands(ss[k], bs, p)
    <3>1. Stands(ss[k], all, at[k - 1] + 1) /\ ss[k] \in ByteStrings
      BY <1>1, <1>2, <2>1
    <3>2. Stands(ss[k], bs, i + ((at[k - 1] + 1) - 1))
      BY <1>2, <1>3, <2>4, <3>1, StandsIn
    <3> QED
      BY <2>4, <3>2
  <2>6. Reads(bs, p, fs[k], ss[k])
    <3>1. fs[k] \in ByteStrings /\ Fits(Len(fs[k]), 8) /\ ss[k] = rlp_string(fs[k])
      BY <1>1, <2>1
    <3>2. Stands(rlp_string(fs[k]), bs, p)
      BY <2>5, <3>1
    <3> HIDE DEF p
    <3>3. p \in Nat \ {0}
      BY <2>4 DEF p
    <3>4. Reads(bs, p, fs[k], rlp_string(fs[k]))
      BY <3>1, <3>2, <3>3, ReadString
    <3> QED
      BY <3>1, <3>4
  <2>7. PICK f : /\ ItemAt(bs, p, 128) = Found(f, p + Len(ss[k]))
                 /\ SubSeq(bs, f, p + Len(ss[k]) - 1) = fs[k]
    BY <2>6 DEF Reads
  <2> DEFINE next == i + at[k]
  <2>8. ItemAt(bs, p, 128) = [first |-> f, next |-> next, ok |-> TRUE]
    BY <2>4, <2>7 DEF Found
  <2>9. SubSeq(bs, f, next - 1) = fs[k]
    <3>1. p + Len(ss[k]) - 1 = next - 1
      <4> DEFINE x == at[k - 1] y == at[k] l == Len(ss[k])
      <4>1. x \in Nat /\ y = x + l /\ l \in Nat
        BY <1>1, <2>1, <2>3
      <4> HIDE DEF x, y, l
      <4>2. (i + x) + l - 1 = (i + y) - 1
        BY <4>1
      <4> QED
        BY <4>2 DEF x, y, l
    <3> HIDE DEF p, next
    <3> QED
      BY <2>7, <3>1
  <2> HIDE DEF p, next
  <2>10. Strings(bs, p) = <<fs[k]>> \o Strings(bs, next)
    <3> DEFINE it == ItemAt(bs, p, 128)
    <3>1. it.ok /\ it.first = f /\ it.next = next
      BY <2>8
    <3>2. ~(p > Len(bs)) /\ p \in 1..(Len(bs) + 1)
      BY <1>3, <2>4 DEF end
    <3>3. Strings(bs, p) = IF p > Len(bs) THEN <<>>
                           ELSE IF it.ok THEN <<SubSeq(bs, it.first, it.next - 1)>>
                                              \o Strings(bs, it.next)
                           ELSE <<<<-1>>>>
      BY <3>2, StringsEquation
    <3> HIDE DEF it
    <3>4. Strings(bs, p) = <<SubSeq(bs, f, next - 1)>> \o Strings(bs, next)
      BY <3>1, <3>2, <3>3
    <3> QED
      BY <2>9, <3>4
  <2>11. <<fs[k]>> \o SubSeq(fs, k + 1, n) = SubSeq(fs, k, n)
    <3>1. fs \in Seq(ByteStrings) /\ n = Len(fs) /\ k \in 1..n
      BY <1>1, <2>1 DEF n
    <3> QED
      BY ONLY <3>1
  <2>12. i + at[n - (m + 1)] = p /\ (n - (m + 1)) + 1 = k
    BY <1>1, <2>1 DEF p, k
  <2>13. Strings(bs, p) = SubSeq(fs, k, n)
    BY <2>2, <2>10, <2>11 DEF next
  <2>14. p <= end + 1
    BY <1>3, <2>4 DEF p
  <2> QED
    BY <2>12, <2>13, <2>14, Zenon
<1>6. n \in T
  <2> HIDE DEF T
  <2> QED
    BY <1>1, <1>4, <1>5, Induction
<1>7. n - n = 0 /\ n <= n /\ 0 + 1 = 1 /\ i + 0 = i
  BY <1>1
<1>8. Strings(bs, i) = SubSeq(fs, 1, n)
  <2>1. Strings(bs, i + at[n - n]) = SubSeq(fs, (n - n) + 1, n)
    BY <1>6, <1>7
  <2> QED
    BY <1>2, <1>7, <2>1
<1> QED
  BY <1>1, <1>8 DEF n

\* The list of the strings fs.
RlpList(fs) == RlpHeader(192, Len(Concat(Encoded(fs)))) \o Concat(Encoded(fs))

\* A list is read back, and is not much longer than its strings.
LEMMA ListBack ==
    ASSUME NEW fs, Encodable(fs), Fits(Len(Concat(Encoded(fs))), 8)
    PROVE  /\ RlpList(fs) \in ByteStrings
           /\ Len(RlpList(fs)) <= 9 + Len(Concat(Encoded(fs)))
           /\ DecodeList(RlpList(fs)) = fs
<1> DEFINE all == Concat(Encoded(fs))
           len == Len(all)
           o == 192
           h == RlpHeader(o, len)
           bs == h \o all
           m == Len(h)
<1>1. all \in ByteStrings /\ len \in Nat
  <2>1. Encoded(fs) \in Seq(ByteStrings)
    BY EncodedType
  <2>2. all \in ByteStrings
    BY <2>1, PartStands
  <2> HIDE DEF all
  <2> QED
    BY <2>2, ByteOf
<1>2. RlpList(fs) = bs
  BY DEF RlpList
<1>3. o \in {128, 192} /\ o # 128
  OBVIOUS
<1> HIDE DEF all, o
<1>4. h \in ByteStrings /\ m \in 1..9 /\ IsHeader(o, len, h)
  <2>1. Fits(len, 8)
    BY DEF all
  <2> HIDE DEF len
  <2> QED
    BY <1>3, <2>1, HeaderType
<1> HIDE DEF h
<1>5. bs \in ByteStrings /\ Len(bs) = m + len
  BY <1>1, <1>4 DEF ByteStrings
<1>6. \A j \in 1..(m + len) : bs[j] = IF j <= m THEN h[j] ELSE all[j - m]
  BY <1>1, <1>4 DEF ByteStrings
<1> HIDE DEF bs, m, len
<1>7. Stands(h, bs, 1)
  <2>1. 1 + m <= (m + len) + 1
    BY <1>1, <1>4
  <2>2. ASSUME NEW j \in 1..m
        PROVE  bs[1 + (j - 1)] = h[j]
    <3>1. 1 + (j - 1) = j /\ j \in 1..(m + len) /\ j <= m
      BY <1>1, <1>4
    <3> QED
      BY <1>6, <3>1
  <2> QED
    BY <1>5, <2>1, <2>2 DEF Stands, m
<1>8. Stands(all, bs, 1 + m)
  <2>1. (1 + m) + len <= (m + len) + 1
    BY <1>1, <1>4
  <2>2. ASSUME NEW j \in 1..len
        PROVE  bs[(1 + m) + (j - 1)] = all[j]
    <3>1. (1 + m) + (j - 1) = m + j /\ m + j \in 1..(m + len) /\ ~(m + j <= m) /\ (m + j) - m = j
      BY <1>1, <1>4
    <3> QED
      BY <1>6, <3>1
  <2> QED
    BY <1>5, <2>1, <2>2 DEF Stands, len
<1> DEFINE one == 1
<1>9. one \in Nat \ {0} /\ one + m \in Nat \ {0} /\ (one + m) + len = (m + len) + 1
  BY <1>1, <1>4
<1>10. Stands(h, bs, one) /\ Stands(all, bs, one + m)
  BY <1>7, <1>8
<1> HIDE DEF one
<1>11. HeaderAt(bs, one, o, len, h)
  <2>1. (one + m) + len <= (m + len) + 1
    BY <1>1, <1>4, <1>9
  <2> QED
    BY <1>3, <1>4, <1>5, <1>10, <2>1 DEF HeaderAt, m
<1>12. ItemAt(bs, one, o) = Found(one + m, (one + m) + len)
  <2>1. ItemAt(bs, one, o) = Found(one + Len(h), one + Len(h) + len)
    BY <1>1, <1>3, <1>5, <1>9, <1>11, ReadHeader
  <2> QED
    BY <2>1 DEF m
<1>13. (one + m) + len = Len(bs) + 1
  BY <1>5, <1>9
<1>14. DecodeList(bs) = Strings(bs, one + m)
  <2>1. ItemAt(bs, 1, 192) = [first |-> one + m, next |-> Len(bs) + 1, ok |-> TRUE]
    BY <1>12, <1>13 DEF Found, one, o
  <2> DEFINE a == one + m b == Len(bs) + 1
  <2> HIDE DEF a, b
  <2>2. ItemAt(bs, 1, 192) = [first |-> a, next |-> b, ok |-> TRUE]
    BY <2>1 DEF a, b
  <2>3. DecodeList(bs) = Strings(bs, a)
    BY <2>2 DEF DecodeList, b
  <2> QED
    BY <2>3 DEF a
<1>15. Strings(bs, one + m) = fs
  <2>1. Stands(Concat(Encoded(fs)), bs, one + m)
        /\ (one + m) + Len(Concat(Encoded(fs))) = Len(bs) + 1
    BY <1>10, <1>13 DEF all, len
  <2> QED
    BY <1>5, <1>9, <2>1, StringsBack
<1>16. Len(bs) <= 9 + len
  BY <1>1, <1>4, <1>5
<1> QED
  BY <1>2, <1>5, <1>14, <1>15, <1>16 DEF len, all

\* Short strings make a short list.
LEMMA ShortList ==
    ASSUME NEW fs, Encodable(fs), \A k \in 1..Len(fs) : Len(fs[k]) <= 132
    PROVE  /\ Len(Concat(Encoded(fs))) \in Nat
           /\ Len(Concat(Encoded(fs))) <= 141 * Len(fs)
<1> DEFINE ss == Encoded(fs)
           at == Starts(ss)
           n == Len(fs)
<1>1. /\ ss \in Seq(ByteStrings) /\ Len(ss) = n /\ n \in Nat
      /\ \A k \in 1..n : /\ fs[k] \in ByteStrings /\ Fits(Len(fs[k]), 8)
                         /\ ss[k] = rlp_string(fs[k])
  BY EncodedType
<1>2. ASSUME NEW k \in 1..n
      PROVE  Len(ss[k]) \in 0..141
  <2>1. Len(rlp_string(fs[k])) \in Nat \ {0} /\ Len(rlp_string(fs[k])) <= 9 + Len(fs[k])
    BY <1>1, StringType
  <2>2. Len(fs[k]) \in Nat /\ Len(fs[k]) <= 132 /\ ss[k] = rlp_string(fs[k])
    BY <1>1, ByteOf
  <2> DEFINE a == Len(ss[k]) b == Len(fs[k])
  <2>3. a \in Nat /\ a <= 9 + b /\ b \in Nat /\ b <= 132
    BY <2>1, <2>2
  <2> HIDE DEF a, b
  <2>4. a \in 0..141
    BY <2>3
  <2> QED
    BY <2>4 DEF a
<1> HIDE DEF ss
<1>3. /\ at \in [0..n -> Nat] /\ at[0] = 0 /\ Len(Concat(ss)) = at[n]
      /\ \A k \in 1..n : at[k] = at[k - 1] + Len(ss[k])
  BY <1>1, PartStands
<1> HIDE DEF at, n
<1> DEFINE T == {m \in Nat : m <= n => at[m] <= 141 * m}
<1>4. 0 \in T
  BY <1>3
<1>5. ASSUME NEW m \in Nat, m \in T
      PROVE  m + 1 \in T
  <2> SUFFICES ASSUME m + 1 <= n PROVE at[m + 1] <= 141 * (m + 1)
    OBVIOUS
  <2>1. m <= n /\ m + 1 \in 1..n /\ (m + 1) - 1 = m /\ m \in 0..n
    BY <1>1
  <2>2. at[m] <= 141 * m /\ at[m + 1] = at[m] + Len(ss[m + 1]) /\ Len(ss[m + 1]) \in 0..141
    BY <1>2, <1>3, <1>5, <2>1
  <2> DEFINE a == at[m] b == Len(ss[m + 1]) c == at[m + 1]
  <2>3. a \in Nat /\ b \in 0..141 /\ c = a + b /\ a <= 141 * m
    BY <1>3, <2>1, <2>2
  <2> HIDE DEF a, b, c
  <2>4. c <= 141 * (m + 1)
    BY <2>3
  <2> QED
    BY <2>4 DEF c
<1>6. n \in T
  <2> HIDE DEF T
  <2> QED
    BY <1>1, <1>4, <1>5, Induction
<1>7. at[n] \in Nat /\ at[n] <= 141 * n
  BY <1>1, <1>3, <1>6
<1> QED
  BY <1>3, <1>7 DEF ss, n

-----------------------------------------------------------------------------
(* The ABI: heads, which have 32 bytes each, and tails.                    *)

\* The sums of numbers, one after the other.
LEMMA SumsEquation ==
    ASSUME NEW ns \in Seq(Nat)
    PROVE  /\ Sums(ns) \in [0..Len(ns) -> Nat]
           /\ Sums(ns)[0] = 0
           /\ \A i \in 1..Len(ns) : Sums(ns)[i] = Sums(ns)[i - 1] + ns[i]
<1> DEFINE n == Len(ns)
           D == 0..n
           G == [x \in Nat \X Nat |-> IF x[2] \in 1..n THEN x[1] + ns[x[2]] ELSE x[1]]
           Rec(f) == [i \in D |-> IF i = 0 THEN 0 ELSE f[i - 1] + ns[i]]
<1>1. n \in Nat /\ \A i \in 1..n : ns[i] \in Nat /\ i \in D /\ i # 0 /\ i - 1 \in D
  OBVIOUS
<1> HIDE DEF n
<1>2. G \in [Nat \X Nat -> Nat]
  BY <1>1
<1>3. PICK f : Recursive(f, Nat, 0, G, n)
  <2> HIDE DEF G
  <2>1. 0 \in Nat
    OBVIOUS
  <2> QED
    BY <1>1, <1>2, <2>1, Recursion
<1>4. /\ f \in [D -> Nat] /\ f[0] = 0
      /\ \A i \in 1..n : f[i] = G[<<f[i - 1], i>>]
  BY <1>3 DEF Recursive
<1>5. ASSUME NEW i \in 1..n
      PROVE  f[i] = f[i - 1] + ns[i]
  <2>1. i - 1 \in D /\ i \in Nat
    BY <1>1
  <2>2. f[i - 1] \in Nat
    BY <1>4, <2>1
  <2>3. f[i] = G[<<f[i - 1], i>>]
    BY <1>4
  <2>4. <<f[i - 1], i>> \in Nat \X Nat
    BY <2>1, <2>2
  <2>5. G[<<f[i - 1], i>>] = f[i - 1] + ns[i]
    BY <2>4
  <2> QED
    BY <2>3, <2>5
<1>6. f = Rec(f)
  <2>1. ASSUME NEW i \in D
        PROVE  f[i] = IF i = 0 THEN 0 ELSE f[i - 1] + ns[i]
    <3>1. CASE i = 0
      BY <1>4, <3>1
    <3>2. CASE i # 0
      <4>1. i \in 1..n
        BY <1>1, <3>2
      <4> QED
        BY <1>5, <3>2, <4>1
    <3> QED
      BY <3>1, <3>2
  <2>2. f = [i \in D |-> f[i]]
    BY <1>4
  <2> QED
    BY <2>1, <2>2
<1> DEFINE S == Sums(ns)
<1>7. S = CHOOSE g : g = Rec(g)
  BY DEF Sums, n
<1>8. S = Rec(S)
  <2> HIDE DEF Rec, S
  <2> QED
    BY <1>6, <1>7
<1> HIDE DEF S
<1>9. ASSUME NEW i \in D
      PROVE  S[i] = IF i = 0 THEN 0 ELSE S[i - 1] + ns[i]
  BY <1>8
<1>10. S[0] = 0
  <2>1. 0 \in D
    BY <1>1
  <2> QED
    BY <1>9, <2>1
<1>11. \A i \in 1..n : S[i] = S[i - 1] + ns[i]
  BY <1>1, <1>9
<1> DEFINE T == {i \in Nat : i <= n => S[i] \in Nat}
<1>12. 0 \in T
  BY <1>10
<1>13. ASSUME NEW i \in Nat, i \in T
       PROVE  i + 1 \in T
  <2> SUFFICES ASSUME i + 1 <= n PROVE S[i + 1] \in Nat
    OBVIOUS
  <2>1. i <= n /\ i + 1 \in 1..n /\ (i + 1) - 1 = i
    BY <1>1
  <2>2. S[i] \in Nat /\ S[i + 1] = S[i] + ns[i + 1] /\ ns[i + 1] \in Nat
    BY <1>1, <1>11, <1>13, <2>1
  <2> QED
    BY <2>2
<1>14. \A i \in Nat : i \in T
  <2> HIDE DEF T
  <2> QED
    BY <1>12, <1>13, Induction
<1>15. S = [i \in D |-> S[i]]
  BY <1>8
<1>16. S \in [D -> Nat]
  BY <1>1, <1>14, <1>15
<1> QED
  BY <1>10, <1>11, <1>16 DEF S, n

\* Zeros add up to zero.
LEMMA SumsZero ==
    ASSUME NEW ns \in Seq(Nat), NEW k \in 0..Len(ns), \A i \in 1..k : ns[i] = 0
    PROVE  Sums(ns)[k] = 0
<1> DEFINE S == Sums(ns) n == Len(ns)
<1>1. S \in [0..n -> Nat] /\ S[0] = 0 /\ \A i \in 1..n : S[i] = S[i - 1] + ns[i]
  BY SumsEquation
<1>2. n \in Nat /\ k \in Nat /\ k <= n
  OBVIOUS
<1> HIDE DEF S, n
<1> DEFINE T == {m \in Nat : m <= k => S[m] = 0}
<1>3. 0 \in T
  BY <1>1
<1>4. ASSUME NEW m \in Nat, m \in T
      PROVE  m + 1 \in T
  <2> SUFFICES ASSUME m + 1 <= k PROVE S[m + 1] = 0
    OBVIOUS
  <2>1. m <= k /\ m + 1 \in 1..n /\ m + 1 \in 1..k /\ (m + 1) - 1 = m
    BY <1>2
  <2>2. S[m] = 0 /\ S[m + 1] = S[m] + ns[m + 1] /\ ns[m + 1] = 0
    BY <1>1, <1>4, <2>1
  <2> QED
    BY <2>2
<1>5. k \in T
  <2> HIDE DEF T
  <2> QED
    BY <1>2, <1>3, <1>4, Induction
<1> QED
  BY <1>2, <1>5 DEF S

\* Rounding to words pads a length by up to 31 bytes, a multiple of 32 by none.
LEMMA Rounding ==
    ASSUME NEW l \in Nat
    PROVE  /\ RoundTo32(l) \in Nat /\ RoundTo32(l) - l \in Nat
           /\ l % 32 = 0 => RoundTo32(l) = l
<1>1. \A x \in Nat : ((x + 31) \div 32) * 32 \in Nat /\ ((x + 31) \div 32) * 32 - x \in Nat
  OBVIOUS
<1>2. \A x \in Nat : x % 32 = 0 => ((x + 31) \div 32) * 32 = x
  OBVIOUS
<1> QED
  BY <1>1, <1>2 DEF RoundTo32

\* An item that ABI_Generic_Array can encode.
GoodItem(x) ==
    /\ x \in Items
    /\ x.type = "uint" => Fits(x.n, x.size)
    /\ x.type = "bytes32" => Len(x.bs) = 32
    /\ x.type = "bytes" => Fits(Len(x.bs), 4)

GoodItems(xs) == xs \in Seq(Items) /\ \A n \in 1..Len(xs) : GoodItem(xs[n])

\* An array that it can encode: the offsets are uint64_t.
GoodArray(xs) ==
    /\ GoodItems(xs)
    /\ \A n \in 1..Len(xs) : Fits(32 * Len(xs) + TailLenSums(xs)[n], 8)

\* The types of an item.
LEMMA ItemTypes ==
    ASSUME NEW x, GoodItem(x)
    PROVE  \/ x.type = "uint" /\ x.size \in {4, 8} /\ Fits(x.n, x.size)
           \/ x.type = "bytes32" /\ x.bs \in ByteStrings /\ Len(x.bs) = 32
           \/ x.type = "bytes" /\ x.bs \in ByteStrings /\ Fits(Len(x.bs), 4)
<1>1. CASE x \in [type: {"uint"}, n: Nat, size: {4, 8}]
  BY <1>1 DEF GoodItem
<1>2. CASE x \in [type: {"bytes32", "bytes"}, bs: ByteStrings]
  BY <1>2 DEF GoodItem
<1> QED
  BY <1>1, <1>2 DEF GoodItem, Items

\* A static item is a word.
LEMMA StaticItem ==
    ASSUME NEW x, GoodItem(x), ~Dynamic(x)
    PROVE  /\ EncodeItem(x) \in ByteStrings /\ Len(EncodeItem(x)) = 32
           /\ x.type = "uint" => Value(EncodeItem(x)) = x.n
<1>1. CASE x.type = "uint" /\ x.size \in {4, 8} /\ Fits(x.n, x.size)
  <2>1. EncodeItem(x) = append_as_uint256(x.n, x.size)
    BY <1>1 DEF EncodeItem
  <2> DEFINE n == x.n d == x.size
  <2>2. d \in {4, 8} /\ Fits(n, d)
    BY <1>1
  <2> HIDE DEF n, d
  <2>3. /\ append_as_uint256(n, d) \in ByteStrings /\ Len(append_as_uint256(n, d)) = 32
        /\ Value(append_as_uint256(n, d)) = n
    BY <2>2, AppendBack
  <2> QED
    BY <2>1, <2>3 DEF n, d
<1>2. CASE x.type = "bytes32" /\ x.bs \in ByteStrings /\ Len(x.bs) = 32
  BY <1>2 DEF EncodeItem
<1>3. x.type # "bytes"
  BY DEF Dynamic
<1> QED
  BY <1>1, <1>2, <1>3, ItemTypes

\* The length of a dynamic item and its bytes, with zeros before them.
LenWord(x) == append_as_uint256(Len(x.bs), 4)
Padded(x) == Zeros(RoundTo32(Len(x.bs)) - Len(x.bs)) \o x.bs

\* A dynamic item is its length and its bytes.
LEMMA DynamicItem ==
    ASSUME NEW x, GoodItem(x), Dynamic(x)
    PROVE  /\ x.bs \in ByteStrings /\ LenWord(x) \in ByteStrings /\ Len(LenWord(x)) = 32
           /\ Value(LenWord(x)) = Len(x.bs)
           /\ Padded(x) \in ByteStrings
           /\ Len(x.bs) % 32 = 0 => Padded(x) = x.bs
           /\ EncodeItem(x) = LenWord(x) \o Padded(x) /\ EncodeItem(x) \in ByteStrings
           /\ Len(EncodeItem(x)) = TailLen(x) /\ TailLen(x) \in Nat
<1> DEFINE bs == x.bs
           l == Len(bs)
           r == RoundTo32(l)
           z == Zeros(r - l)
           w == LenWord(x)
           p == Padded(x)
           d == 4
<1>1. x.type = "bytes" /\ bs \in ByteStrings /\ Fits(l, 4)
  BY ItemTypes DEF Dynamic
<1>2. EncodeItem(x) = (append_as_uint256(l, 4) \o z) \o bs
  BY <1>1 DEF EncodeItem
<1>3. TailLen(x) = 32 + r
  BY DEF TailLen
<1>4. d \in {4, 8} /\ Fits(l, d)
  BY <1>1
<1>5. w = append_as_uint256(l, d) /\ p = z \o bs
  BY DEF LenWord, Padded
<1> HIDE DEF bs, d, w, p
<1>6. l \in Nat
  BY <1>1, ByteOf
<1> HIDE DEF l
<1>7. w \in ByteStrings /\ Len(w) = 32 /\ Value(w) = l
  BY <1>4, <1>5, AppendBack
<1>8. r \in Nat /\ r - l \in Nat /\ (l % 32 = 0 => r = l)
  BY <1>6, Rounding
<1> HIDE DEF r
<1>9. z \in ByteStrings /\ Len(z) = r - l
  BY <1>8, ZerosType
<1> HIDE DEF z
<1>10. p \in ByteStrings /\ Len(p) = r
  <2>1. p \in ByteStrings /\ Len(p) = (r - l) + l
    BY <1>1, <1>5, <1>9, TwoBytes DEF l
  <2> QED
    BY <1>6, <1>8, <2>1
<1>11. l % 32 = 0 => p = bs
  <2> SUFFICES ASSUME l % 32 = 0 PROVE p = bs
    OBVIOUS
  <2>1. Len(z) = 0
    BY <1>6, <1>8, <1>9
  <2>2. z = <<>>
    BY <1>9, <2>1 DEF ByteStrings
  <2> QED
    BY <1>1, <1>5, <2>2 DEF ByteStrings
<1>12. w \o p \in ByteStrings /\ Len(w \o p) = 32 + r
  BY <1>7, <1>10, TwoBytes
<1>14. EncodeItem(x) = w \o p
  <2>1. EncodeItem(x) = (w \o z) \o bs
    BY <1>2, <1>5 DEF d
  <2>2. (w \o z) \o bs = w \o (z \o bs)
    BY <1>1, <1>7, <1>9, ConcatAssociative DEF ByteStrings
  <2> QED
    BY <1>5, <2>1, <2>2
<1>13. 32 + r \in Nat
  BY <1>8
<1> QED
  BY <1>1, <1>3, <1>7, <1>10, <1>11, <1>12, <1>13, <1>14 DEF w, p, l, bs

\* The heads and the tails of an array.
Heads(xs) == [n \in 1..Len(xs) |-> HeadOf(xs, n)]
Tails(xs) == [n \in 1..Len(xs) |-> IF Dynamic(xs[n]) THEN EncodeItem(xs[n]) ELSE <<>>]

\* The tail of a dynamic item is its encoding, and a static item has none.
LEMMA TailTypes ==
    ASSUME NEW xs, GoodItems(xs)
    PROVE  /\ Tails(xs) \in Seq(ByteStrings) /\ Len(Tails(xs)) = Len(xs) /\ Len(xs) \in Nat
           /\ \A n \in 1..Len(xs) :
                  /\ GoodItem(xs[n]) /\ Tails(xs)[n] \in ByteStrings
                  /\ TailLen(xs[n]) \in Nat /\ Len(Tails(xs)[n]) = TailLen(xs[n])
                  /\ Dynamic(xs[n]) => Tails(xs)[n] = EncodeItem(xs[n])
                  /\ ~Dynamic(xs[n]) => TailLen(xs[n]) = 0
<1> DEFINE l == Len(xs)
           t(n) == IF Dynamic(xs[n]) THEN EncodeItem(xs[n]) ELSE <<>>
<1>1. l \in Nat /\ \A n \in 1..l : GoodItem(xs[n])
  BY DEF GoodItems
<1>2. Tails(xs) = [n \in 1..l |-> t(n)]
  BY DEF Tails
<1>3. ASSUME NEW n \in 1..l
      PROVE  /\ t(n) \in ByteStrings /\ TailLen(xs[n]) \in Nat /\ Len(t(n)) = TailLen(xs[n])
             /\ Dynamic(xs[n]) => t(n) = EncodeItem(xs[n])
             /\ ~Dynamic(xs[n]) => TailLen(xs[n]) = 0
  <2>1. CASE Dynamic(xs[n])
    <3>1. GoodItem(xs[n])
      BY <1>1
    <3>2. /\ EncodeItem(xs[n]) \in ByteStrings
          /\ Len(EncodeItem(xs[n])) = TailLen(xs[n]) /\ TailLen(xs[n]) \in Nat
      BY <2>1, <3>1, DynamicItem
    <3>3. t(n) = EncodeItem(xs[n])
      BY <2>1
    <3> HIDE DEF t
    <3> QED
      BY <2>1, <3>2, <3>3
  <2>2. CASE ~Dynamic(xs[n])
    <3>1. t(n) = <<>> /\ TailLen(xs[n]) = 0
      BY <2>2 DEF TailLen
    <3> HIDE DEF t
    <3>2. t(n) \in ByteStrings /\ Len(t(n)) = 0
      BY <3>1 DEF ByteStrings
    <3> QED
      BY <2>2, <3>1, <3>2
  <2> QED
    BY <2>1, <2>2
<1> HIDE DEF l, t
<1>4. Tails(xs) \in Seq(ByteStrings) /\ Len(Tails(xs)) = l
  BY <1>1, <1>2, <1>3
<1>5. \A n \in 1..l : Tails(xs)[n] = t(n)
  BY <1>2
<1> QED
  BY <1>1, <1>3, <1>4, <1>5 DEF l

\* The sums that the array is encoded with.
TailSteps(xs) ==
    /\ TailSums(xs) \in [0..Len(xs) -> Nat] /\ TailSums(xs)[0] = 0
    /\ \A i \in 1..Len(xs) : TailSums(xs)[i] = TailSums(xs)[i - 1] + TailLen(xs[i])
    /\ TailLenSums(xs) \in [0..Len(xs) -> Nat] /\ TailLenSums(xs)[0] = 0
    /\ \A i \in 1..Len(xs) :
           TailLenSums(xs)[i] = TailLenSums(xs)[i - 1]
                                + (IF Dynamic(xs[i]) THEN TailSums(xs)[i - 1] ELSE 0)

\* TailSums and TailLenSums take the steps that they are defined to take.
LEMMA TailSumsEquation ==
    ASSUME NEW xs, GoodItems(xs)
    PROVE  TailSteps(xs)
<1> DEFINE l == Len(xs)
           S == TailSums(xs)
           L == TailLenSums(xs)
           a == [i \in 1..l |-> TailLen(xs[i])]
           b == [i \in 1..l |-> IF Dynamic(xs[i]) THEN S[i - 1] ELSE 0]
<1>1. l \in Nat /\ \A i \in 1..l : TailLen(xs[i]) \in Nat
  BY TailTypes
<1>2. S = Sums(a)
  BY DEF TailSums
<1>3. L = Sums(b)
  BY DEF TailLenSums
<1> HIDE DEF l
<1>4. a \in Seq(Nat) /\ Len(a) = l /\ \A i \in 1..l : a[i] = TailLen(xs[i])
  BY <1>1
<1> HIDE DEF S, a
<1>5. /\ S \in [0..l -> Nat] /\ S[0] = 0
      /\ \A i \in 1..l : S[i] = S[i - 1] + TailLen(xs[i])
  <2>1. /\ Sums(a) \in [0..Len(a) -> Nat] /\ Sums(a)[0] = 0
        /\ \A i \in 1..Len(a) : Sums(a)[i] = Sums(a)[i - 1] + a[i]
    BY <1>4, SumsEquation
  <2> QED
    BY <1>2, <1>4, <2>1
<1>6. b \in Seq(Nat) /\ Len(b) = l
      /\ \A i \in 1..l : b[i] = IF Dynamic(xs[i]) THEN S[i - 1] ELSE 0
  <2>1. ASSUME NEW i \in 1..l
        PROVE  (IF Dynamic(xs[i]) THEN S[i - 1] ELSE 0) \in Nat
    <3>1. i - 1 \in 0..l
      BY <1>1
    <3> QED
      BY <1>5, <3>1
  <2> QED
    BY <1>1, <2>1
<1> HIDE DEF L, b
<1>7. /\ L \in [0..l -> Nat] /\ L[0] = 0
      /\ \A i \in 1..l : L[i] = L[i - 1] + (IF Dynamic(xs[i]) THEN S[i - 1] ELSE 0)
  <2>1. /\ Sums(b) \in [0..Len(b) -> Nat] /\ Sums(b)[0] = 0
        /\ \A i \in 1..Len(b) : Sums(b)[i] = Sums(b)[i - 1] + b[i]
    BY <1>6, SumsEquation
  <2> QED
    BY <1>3, <1>6, <2>1
<1> QED
  BY <1>5, <1>7 DEF l, S, L, TailSteps

\* Tails begin at the sums of the lengths before them.
LEMMA TailsBegin ==
    ASSUME NEW xs, GoodItems(xs), NEW k \in 0..Len(xs)
    PROVE  Starts(Tails(xs))[k] = TailSums(xs)[k]
<1> DEFINE l == Len(xs)
           at == Starts(Tails(xs))
           S == TailSums(xs)
<1>1. l \in Nat /\ Tails(xs) \in Seq(ByteStrings) /\ Len(Tails(xs)) = l
      /\ \A n \in 1..l : Len(Tails(xs)[n]) = TailLen(xs[n])
  BY TailTypes
<1>2. at[0] = 0 /\ \A i \in 1..l : at[i] = at[i - 1] + TailLen(xs[i])
  <2>1. at[0] = 0 /\ \A i \in 1..Len(Tails(xs)) : at[i] = at[i - 1] + Len(Tails(xs)[i])
    BY <1>1, PartStands
  <2> HIDE DEF at
  <2> QED
    BY <1>1, <2>1
<1>3. S[0] = 0 /\ \A i \in 1..l : S[i] = S[i - 1] + TailLen(xs[i])
  BY TailSumsEquation DEF TailSteps
<1>4. k \in Nat /\ k <= l
  BY <1>1
<1> HIDE DEF l, at, S
<1> DEFINE T == {m \in Nat : m <= l => at[m] = S[m]}
<1>5. 0 \in T
  BY <1>2, <1>3
<1>6. ASSUME NEW m \in Nat, m \in T
      PROVE  m + 1 \in T
  <2> SUFFICES ASSUME m + 1 <= l PROVE at[m + 1] = S[m + 1]
    OBVIOUS
  <2>1. m <= l /\ m + 1 \in 1..l /\ (m + 1) - 1 = m
    BY <1>1
  <2>2. at[m] = S[m]
    BY <1>6, <2>1
  <2> QED
    BY <1>2, <1>3, <2>1, <2>2
<1>7. k \in T
  <2> HIDE DEF T
  <2> QED
    BY <1>4, <1>5, <1>6, Induction
<1> QED
  BY <1>4, <1>7 DEF at, S

\* The head of an item is a word: its offset, or the item.
LEMMA HeadType ==
    ASSUME NEW xs, GoodArray(xs), NEW n \in 1..Len(xs)
    PROVE  /\ HeadOf(xs, n) \in ByteStrings /\ Len(HeadOf(xs, n)) = 32
           /\ Dynamic(xs[n]) => Value(HeadOf(xs, n)) = 32 * Len(xs) + TailLenSums(xs)[n]
           /\ ~Dynamic(xs[n]) => HeadOf(xs, n) = EncodeItem(xs[n])
<1> DEFINE v == 32 * Len(xs) + TailLenSums(xs)[n]
           d == 8
           h == HeadOf(xs, n)
<1>1. GoodItem(xs[n]) /\ Fits(v, 8)
  BY DEF GoodArray, GoodItems
<1>2. CASE Dynamic(xs[n])
  <2>1. d \in {4, 8} /\ Fits(v, d)
    BY <1>1
  <2>2. h = append_as_uint256(v, d)
    BY <1>2 DEF HeadOf
  <2> HIDE DEF v, d, h
  <2>3. h \in ByteStrings /\ Len(h) = 32 /\ Value(h) = v
    BY <2>1, <2>2, AppendBack
  <2> QED
    BY <1>2, <2>3 DEF h, v
<1>3. CASE ~Dynamic(xs[n])
  <2>1. h = EncodeItem(xs[n])
    BY <1>3 DEF HeadOf
  <2> HIDE DEF h
  <2>2. h \in ByteStrings /\ Len(h) = 32
    BY <1>1, <1>3, <2>1, StaticItem
  <2> QED
    BY <1>3, <2>1, <2>2 DEF h
<1> QED
  BY <1>2, <1>3

\* The heads stand one word after the other.
LEMMA HeadsStand ==
    ASSUME NEW xs, GoodArray(xs)
    PROVE  /\ Concat(Heads(xs)) \in ByteStrings /\ Len(Concat(Heads(xs))) = 32 * Len(xs)
           /\ \A n \in 1..Len(xs) : Stands(HeadOf(xs, n), Concat(Heads(xs)), 32 * (n - 1) + 1)
<1> DEFINE l == Len(xs)
           hs == Heads(xs)
           at == Starts(hs)
<1>1. l \in Nat
  BY DEF GoodArray, GoodItems
<1>2. \A n \in 1..l : HeadOf(xs, n) \in ByteStrings /\ Len(HeadOf(xs, n)) = 32
  BY HeadType
<1>3. hs = [n \in 1..l |-> HeadOf(xs, n)]
  BY DEF Heads
<1> HIDE DEF l, hs
<1>4. hs \in Seq(ByteStrings) /\ Len(hs) = l /\ \A n \in 1..l : hs[n] = HeadOf(xs, n)
  BY <1>1, <1>2, <1>3
<1>5. /\ at \in [0..l -> Nat] /\ at[0] = 0 /\ Concat(hs) \in ByteStrings /\ Len(Concat(hs)) = at[l]
      /\ \A n \in 1..l : /\ at[n] = at[n - 1] + Len(hs[n])
                         /\ Stands(hs[n], Concat(hs), at[n - 1] + 1)
  BY <1>4, PartStands
<1> HIDE DEF at
<1>6. \A n \in 1..l : at[n] = at[n - 1] + 32 /\ Stands(HeadOf(xs, n), Concat(hs), at[n - 1] + 1)
  BY <1>2, <1>4, <1>5
<1> DEFINE T == {m \in Nat : m <= l => at[m] = 32 * m}
<1>7. 0 \in T
  BY <1>5
<1>8. ASSUME NEW m \in Nat, m \in T
      PROVE  m + 1 \in T
  <2> SUFFICES ASSUME m + 1 <= l PROVE at[m + 1] = 32 * (m + 1)
    OBVIOUS
  <2>1. m <= l /\ m + 1 \in 1..l /\ (m + 1) - 1 = m
    BY <1>1
  <2>2. at[m] = 32 * m /\ at[m + 1] = at[m] + 32
    BY <1>6, <1>8, <2>1
  <2> QED
    BY <2>2
<1>9. \A m \in Nat : m \in T
  <2> HIDE DEF T
  <2> QED
    BY <1>7, <1>8, Induction
<1>10. at[l] = 32 * l /\ \A n \in 1..l : at[n - 1] = 32 * (n - 1)
  <2>1. \A n \in 1..l : n - 1 \in Nat /\ n - 1 <= l
    BY <1>1
  <2> QED
    BY <1>1, <1>9, <2>1
<1>11. ASSUME NEW n \in 1..l
       PROVE  Stands(HeadOf(xs, n), Concat(hs), 32 * (n - 1) + 1)
  BY <1>6, <1>10
<1> QED
  BY <1>5, <1>10, <1>11 DEF l, hs

\* The places of an array's heads and tails.
LEMMA ArrayPlaces ==
    ASSUME NEW xs, GoodArray(xs)
    PROVE  /\ AbiEncode(xs) \in ByteStrings
           /\ Len(AbiEncode(xs)) = 32 * Len(xs) + TailSums(xs)[Len(xs)]
           /\ \A n \in 1..Len(xs) :
                  /\ Stands(HeadOf(xs, n), AbiEncode(xs), 32 * (n - 1) + 1)
                  /\ Stands(Tails(xs)[n], AbiEncode(xs), 32 * Len(xs) + TailSums(xs)[n - 1] + 1)
<1> DEFINE l == Len(xs)
           S == TailSums(xs)
           hs == Concat(Heads(xs))
           ts == Concat(Tails(xs))
           all == AbiEncode(xs)
<1>1. GoodItems(xs) /\ l \in Nat /\ \A n \in 1..l : Tails(xs)[n] \in ByteStrings
  BY TailTypes DEF GoodArray
<1>2. all = hs \o ts
  BY DEF AbiEncode, Heads, Tails
<1>3. hs \in ByteStrings /\ Len(hs) = 32 * l
      /\ \A n \in 1..l : Stands(HeadOf(xs, n), hs, 32 * (n - 1) + 1)
  BY HeadsStand
<1>4. Tails(xs) \in Seq(ByteStrings) /\ Len(Tails(xs)) = l
  BY <1>1, TailTypes
<1>5. ts \in ByteStrings /\ Len(ts) = Starts(Tails(xs))[l]
      /\ \A n \in 1..l : Stands(Tails(xs)[n], ts, Starts(Tails(xs))[n - 1] + 1)
  BY <1>4, PartStands
<1>6. \A k \in 0..l : Starts(Tails(xs))[k] = S[k] /\ S[k] \in Nat
  BY <1>1, TailsBegin, TailSumsEquation DEF TailSteps
<1> HIDE DEF l, S, hs, ts, all
<1>7. l \in 0..l /\ \A n \in 1..l : n - 1 \in 0..l
  BY <1>1
<1>8. Len(ts) = S[l] /\ \A n \in 1..l : Stands(Tails(xs)[n], ts, S[n - 1] + 1) /\ S[n - 1] \in Nat
  BY <1>5, <1>6, <1>7
<1>9. all \in ByteStrings /\ Len(all) = 32 * l + S[l]
      /\ Stands(hs, all, 1) /\ Stands(ts, all, 32 * l + 1)
  BY <1>2, <1>3, <1>5, <1>8, TwoBytes
<1>10. ASSUME NEW n \in 1..l
       PROVE  Stands(HeadOf(xs, n), all, 32 * (n - 1) + 1)
  <2> DEFINE i == 32 * (n - 1) + 1
             h == HeadOf(xs, n)
             one == 1
  <2>1. h \in ByteStrings
    BY HeadType DEF l
  <2>2. i \in Nat \ {0} /\ one \in Nat \ {0} /\ one + (i - 1) = i
    BY <1>1
  <2>3. Stands(h, hs, i) /\ Stands(hs, all, one)
    BY <1>3, <1>9
  <2> HIDE DEF i, h, one
  <2>4. Stands(h, all, one + (i - 1))
    BY <1>3, <1>9, <2>1, <2>2, <2>3, StandsIn
  <2>5. Stands(h, all, i)
    BY <2>2, <2>4
  <2> QED
    BY <2>5 DEF i, h
<1>11. ASSUME NEW n \in 1..l
       PROVE  Stands(Tails(xs)[n], all, 32 * l + S[n - 1] + 1)
  <2> DEFINE i == S[n - 1] + 1
             j == 32 * l + 1
             t == Tails(xs)[n]
  <2>1. S[n - 1] \in Nat /\ t \in ByteStrings /\ Stands(t, ts, i) /\ Stands(ts, all, j)
    BY <1>1, <1>8, <1>9
  <2>2. i \in Nat \ {0} /\ j \in Nat \ {0} /\ j + (i - 1) = 32 * l + S[n - 1] + 1
    BY <1>1, <2>1
  <2> HIDE DEF i, j, t
  <2>3. Stands(t, all, j + (i - 1))
    BY <1>5, <1>9, <2>1, <2>2, StandsIn
  <2> QED
    BY <2>2, <2>3 DEF t
<1> QED
  BY <1>9, <1>10, <1>11 DEF l, S, all

\* The word at the place of an item's head is its head.
LEMMA WordsAreHeads ==
    ASSUME NEW xs, GoodArray(xs), NEW n \in 1..Len(xs)
    PROVE  Word(AbiEncode(xs), n - 1) = HeadOf(xs, n)
<1> DEFINE all == AbiEncode(xs)
           h == HeadOf(xs, n)
           i == 32 * (n - 1) + 1
<1>1. all \in ByteStrings /\ Stands(h, all, i)
  BY ArrayPlaces
<1>2. h \in ByteStrings /\ Len(h) = 32
  BY HeadType
<1>3. n \in Nat \ {0}
  BY DEF GoodArray, GoodItems
<1>4. i \in Nat \ {0} /\ i + 32 - 1 = 32 * (n - 1) + 32
  BY <1>3
<1>5. Word(all, n - 1) = SubSeq(all, i, 32 * (n - 1) + 32)
  BY DEF Word
<1> HIDE DEF all, h, i
<1>6. SubSeq(all, i, i + Len(h) - 1) = h
  BY <1>1, <1>2, <1>4, StandsIs
<1>7. SubSeq(all, i, i + 32 - 1) = h
  BY <1>2, <1>6
<1>8. SubSeq(all, i, 32 * (n - 1) + 32) = h
  BY <1>4, <1>7
<1> QED
  BY <1>5, <1>8 DEF all, h

\* Nothing is added up before the first dynamic item.
LEMMA NoTails ==
    ASSUME NEW xs, GoodItems(xs), NEW k \in 0..Len(xs), \A i \in 1..k : ~Dynamic(xs[i])
    PROVE  TailSums(xs)[k] = 0
<1> DEFINE S == TailSums(xs)
           l == Len(xs)
<1>1. l \in Nat /\ k \in Nat /\ k <= l /\ \A i \in 1..k : i \in 1..l
  BY TailTypes
<1>2. S[0] = 0 /\ \A i \in 1..k : S[i] = S[i - 1] + TailLen(xs[i]) /\ TailLen(xs[i]) = 0
  BY <1>1, TailTypes, TailSumsEquation DEF TailSteps
<1> HIDE DEF S, l
<1> DEFINE T == {m \in Nat : m <= k => S[m] = 0}
<1>3. 0 \in T
  BY <1>2
<1>4. ASSUME NEW m \in Nat, m \in T
      PROVE  m + 1 \in T
  <2> SUFFICES ASSUME m + 1 <= k PROVE S[m + 1] = 0
    OBVIOUS
  <2>1. m <= k /\ m + 1 \in 1..k /\ (m + 1) - 1 = m
    BY <1>1
  <2>2. S[m] = 0 /\ S[m + 1] = S[m] + TailLen(xs[m + 1]) /\ TailLen(xs[m + 1]) = 0
    BY <1>2, <1>4, <2>1
  <2> QED
    BY <2>2
<1>5. k \in T
  <2> HIDE DEF T
  <2> QED
    BY <1>1, <1>3, <1>4, Induction
<1> QED
  BY <1>1, <1>5 DEF S

\* Nor twice before the second.
LEMMA NoTailsTwice ==
    ASSUME NEW xs, GoodItems(xs), NEW k \in 0..Len(xs),
           \A i \in 1..k : Dynamic(xs[i]) => TailSums(xs)[i - 1] = 0
    PROVE  TailLenSums(xs)[k] = 0
<1> DEFINE S == TailLenSums(xs)
           l == Len(xs)
           c(i) == IF Dynamic(xs[i]) THEN TailSums(xs)[i - 1] ELSE 0
<1>1. l \in Nat /\ k \in Nat /\ k <= l /\ \A i \in 1..k : i \in 1..l
  BY TailTypes
<1>2. S[0] = 0 /\ \A i \in 1..k : S[i] = S[i - 1] + c(i)
  BY <1>1, TailSumsEquation DEF TailSteps
<1>3. \A i \in 1..k : c(i) = 0
  OBVIOUS
<1> HIDE DEF S, l, c
<1> DEFINE T == {m \in Nat : m <= k => S[m] = 0}
<1>4. 0 \in T
  BY <1>2
<1>5. ASSUME NEW m \in Nat, m \in T
      PROVE  m + 1 \in T
  <2> SUFFICES ASSUME m + 1 <= k PROVE S[m + 1] = 0
    OBVIOUS
  <2>1. m <= k /\ m + 1 \in 1..k /\ (m + 1) - 1 = m
    BY <1>1
  <2>2. S[m] = 0 /\ S[m + 1] = S[m] + c(m + 1) /\ c(m + 1) = 0
    BY <1>2, <1>3, <1>5, <2>1
  <2> QED
    BY <2>2
<1>6. k \in T
  <2> HIDE DEF T
  <2> QED
    BY <1>1, <1>4, <1>5, Induction
<1> QED
  BY <1>1, <1>6 DEF S

\* An array without dynamic items: its words are all there is.
LEMMA StaticArray ==
    ASSUME NEW xs, GoodItems(xs), \A i \in 1..Len(xs) : ~Dynamic(xs[i]), Len(xs) < 100
    PROVE  GoodArray(xs) /\ Len(AbiEncode(xs)) = 32 * Len(xs)
<1> DEFINE l == Len(xs)
<1>1. l \in Nat /\ l < 100
  BY TailTypes
<1>2. ASSUME NEW k \in 0..l
      PROVE  TailSums(xs)[k] = 0 /\ TailLenSums(xs)[k] = 0
  <2>1. \A i \in 1..k : i \in 1..l
    BY <1>1
  <2> QED
    BY <2>1, NoTails, NoTailsTwice
<1>3. ASSUME NEW n \in 1..l
      PROVE  Fits(32 * l + TailLenSums(xs)[n], 8)
  <2>1. n \in 0..l
    BY <1>1
  <2> DEFINE y == 32 * l + TailLenSums(xs)[n]
  <2>2. TailLenSums(xs)[n] = 0
    BY <1>2, <2>1
  <2> HIDE DEF l
  <2>3. y \in Nat /\ y < 65536
    BY <1>1, <2>2
  <2> HIDE DEF y
  <2>4. Fits(y, 8)
    BY <2>3, ShortFits
  <2> QED
    BY <2>4 DEF y
<1>4. GoodArray(xs)
  BY <1>3 DEF GoodArray
<1>5. Len(AbiEncode(xs)) = 32 * l + TailSums(xs)[l]
  BY <1>4, ArrayPlaces
<1>6. l \in 0..l
  BY <1>1
<1>7. TailSums(xs)[l] = 0
  BY <1>2, <1>6
<1> HIDE DEF l
<1>8. Len(AbiEncode(xs)) = 32 * l
  BY <1>1, <1>5, <1>7
<1> QED
  BY <1>4, <1>8 DEF l

\* No items at all.
LEMMA NoItems == GoodArray(<<>>) /\ AbiEncode(<<>>) = <<>>
<1> DEFINE xs == <<>>
<1>1. GoodItems(xs)
  BY DEF GoodItems
<1>2. Len(xs) = 0
  OBVIOUS
<1> HIDE DEF xs
<1>3. GoodArray(xs) /\ Len(AbiEncode(xs)) = 0
  <2>1. Len(xs) < 100 /\ 32 * Len(xs) = 0 /\ \A i \in 1..Len(xs) : ~Dynamic(xs[i])
    BY <1>2
  <2>2. GoodArray(xs) /\ Len(AbiEncode(xs)) = 32 * Len(xs)
    BY <1>1, <2>1, StaticArray
  <2> QED
    BY <2>1, <2>2
<1>4. AbiEncode(xs) = <<>>
  <2> DEFINE e == AbiEncode(xs)
  <2>1. e \in ByteStrings /\ Len(e) = 0
    BY <1>3, ArrayPlaces
  <2> HIDE DEF e
  <2>2. e = <<>>
    BY <2>1 DEF ByteStrings
  <2> QED
    BY <2>2 DEF e
<1> QED
  BY <1>3, <1>4 DEF xs

\* The arrays that are given are such arrays.
LEMMA ArraysAreGood ==
    ASSUME NEW array \in Arrays
    PROVE  GoodArray(array)
<1>1. /\ array \in Seq(Items)
      /\ \A i \in 1..Len(array) :
             /\ array[i].type = "uint" => Fits(array[i].n, array[i].size)
             /\ array[i].type = "bytes32" => Len(array[i].bs) = 32
             /\ array[i].type = "bytes" => Fits(Len(array[i].bs), 4)
             /\ Fits(32 * Len(array) + TailLenSums(array)[i], 8)
  BY DeliverAssumption
<1>2. \A i \in 1..Len(array) : array[i] \in Items
  BY <1>1
<1> QED
  BY <1>1, <1>2 DEF GoodArray, GoodItems, GoodItem
-----------------------------------------------------------------------------
(* The call of deliver.                                                    *)

\* The words of the call.
ResponseWord(a) == IF a.error # 0 THEN Zeros(32) ELSE SubSeq(a.resp, 1, 32)
DeliverArray(a) ==
    <<ABI_UInt64(a.id), ABI_Bytes32(a.hash), ABI_UInt64(a.error), ABI_Bytes32(ResponseWord(a))>>

\* The types of the arguments.
LEMMA ArgTypes ==
    ASSUME NEW a \in Args
    PROVE  /\ Fits(a.nonce, 8) /\ Fits(a.id, 8) /\ Fits(a.error, 8)
           /\ a.hash \in ByteStrings /\ Len(a.hash) = 32
           /\ a.r \in ByteStrings /\ Len(a.r) = 32
           /\ a.s \in ByteStrings /\ Len(a.s) = 32
           /\ a.v \in {27, 28}
           /\ ResponseWord(a) \in ByteStrings /\ Len(ResponseWord(a)) = 32
<1>1. /\ a.nonce \in Numbers /\ a.id \in Numbers /\ a.error \in Errors /\ a.resp \in Responses
      /\ a.hash \in Hashes /\ a.r \in Scalars /\ a.s \in Scalars /\ a.v \in {27, 28}
  BY DEF Args
<1>2. Fits(a.nonce, 8) /\ Fits(a.id, 8) /\ Fits(a.error, 8)
  BY <1>1, DeliverAssumption
<1>3. /\ a.hash \in ByteStrings /\ Len(a.hash) = 32
      /\ a.r \in ByteStrings /\ Len(a.r) = 32
      /\ a.s \in ByteStrings /\ Len(a.s) = 32
  BY <1>1, DeliverAssumption
<1>4. a.resp \in ByteStrings /\ Len(a.resp) >= 32
  BY <1>1, DeliverAssumption
<1>5. ResponseWord(a) \in ByteStrings /\ Len(ResponseWord(a)) = 32
  <2>1. CASE a.error # 0
    <3> DEFINE k == 32
    <3>1. ResponseWord(a) = Zeros(k)
      BY <2>1 DEF ResponseWord
    <3>2. k \in Nat
      OBVIOUS
    <3> HIDE DEF k
    <3>3. ResponseWord(a) \in ByteStrings /\ Len(ResponseWord(a)) = k
      BY <3>1, <3>2, ZerosType
    <3> QED
      BY <3>3 DEF k
  <2>2. CASE a.error = 0
    <3> DEFINE e == a.resp f == SubSeq(e, 1, 32)
    <3>1. ResponseWord(a) = f
      BY <2>2 DEF ResponseWord
    <3>2. e \in Seq(0..255) /\ Len(e) \in Nat /\ Len(e) >= 32
      BY <1>4, ByteOf
    <3> HIDE DEF e
    <3>3. f \in Seq(0..255) /\ Len(f) = 32
      <4>1. \A i \in 1..32 : e[i] \in 0..255
        <5> SUFFICES ASSUME NEW i \in 1..32 PROVE e[i] \in 0..255
          OBVIOUS
        <5>1. i \in 1..Len(e)
          BY <3>2
        <5> QED
          BY <3>2, <5>1, ElementOfSeq
      <4> DEFINE one == 1 k == 32 B == 0..255
      <4>2. one \in Int /\ k \in Int /\ k - one + 1 = 32 /\ one <= k
        OBVIOUS
      <4>3. f = SubSeq(e, one, k) /\ \A i \in one..k : e[i] \in B
        BY <4>1
      <4> HIDE DEF f, one, k, B
      <4>4. /\ SubSeq(e, one, k) \in Seq(B)
            /\ Len(SubSeq(e, one, k)) = IF one <= k THEN k - one + 1 ELSE 0
        BY ONLY <4>2, <4>3, SubSeqProperties
      <4> QED
        BY <4>2, <4>3, <4>4 DEF B
    <3> QED
      BY <3>1, <3>3 DEF ByteStrings
  <2> QED
    BY <2>1, <2>2
<1> QED
  BY <1>1, <1>2, <1>3, <1>5

\* The four items of the call are static.
LEMMA DeliverArrayIsGood ==
    ASSUME NEW a \in Args
    PROVE  /\ GoodArray(DeliverArray(a)) /\ Len(DeliverArray(a)) = 4
           /\ Len(AbiEncode(DeliverArray(a))) = 128
           /\ \A n \in 1..4 : GoodItem(DeliverArray(a)[n]) /\ ~Dynamic(DeliverArray(a)[n])
<1> DEFINE xs == DeliverArray(a)
           rs == ResponseWord(a)
<1>1. /\ Fits(a.id, 8) /\ Fits(a.error, 8) /\ a.hash \in ByteStrings /\ Len(a.hash) = 32
      /\ rs \in ByteStrings /\ Len(rs) = 32
  BY ArgTypes
<1>2. \A n : Fits(n, 8) => GoodItem(ABI_UInt64(n)) /\ ~Dynamic(ABI_UInt64(n))
  BY DEF GoodItem, Dynamic, ABI_UInt64, Items, Fits
<1>3. \A bs \in ByteStrings : Len(bs) = 32 => GoodItem(ABI_Bytes32(bs)) /\ ~Dynamic(ABI_Bytes32(bs))
  BY DEF GoodItem, Dynamic, ABI_Bytes32, Items
<1> HIDE DEF rs
<1>4. /\ GoodItem(ABI_UInt64(a.id)) /\ ~Dynamic(ABI_UInt64(a.id))
      /\ GoodItem(ABI_Bytes32(a.hash)) /\ ~Dynamic(ABI_Bytes32(a.hash))
      /\ GoodItem(ABI_UInt64(a.error)) /\ ~Dynamic(ABI_UInt64(a.error))
      /\ GoodItem(ABI_Bytes32(rs)) /\ ~Dynamic(ABI_Bytes32(rs))
  BY <1>1, <1>2, <1>3
<1>5. xs = <<ABI_UInt64(a.id), ABI_Bytes32(a.hash), ABI_UInt64(a.error), ABI_Bytes32(rs)>>
  BY DEF DeliverArray, rs
<1> DEFINE x1 == ABI_UInt64(a.id)
           x2 == ABI_Bytes32(a.hash)
           x3 == ABI_UInt64(a.error)
           x4 == ABI_Bytes32(rs)
<1> HIDE DEF xs, x1, x2, x3, x4
<1>6. xs = <<x1, x2, x3, x4>>
  BY <1>5 DEF x1, x2, x3, x4
<1>7. \A x \in {x1, x2, x3, x4} : GoodItem(x) /\ ~Dynamic(x)
  BY <1>4 DEF x1, x2, x3, x4
<1>8. Len(xs) = 4 /\ xs[1] = x1 /\ xs[2] = x2 /\ xs[3] = x3 /\ xs[4] = x4
  BY <1>6
<1>9. \A n \in 1..4 : GoodItem(xs[n]) /\ ~Dynamic(xs[n])
  <2> SUFFICES ASSUME NEW n \in 1..4 PROVE xs[n] \in {x1, x2, x3, x4}
    BY <1>7
  <2>1. n = 1 \/ n = 2 \/ n = 3 \/ n = 4
    OBVIOUS
  <2> QED
    BY <1>8, <2>1
<1>10. xs \in Seq(Items)
  <2>1. x1 \in Items /\ x2 \in Items /\ x3 \in Items /\ x4 \in Items
    BY <1>7 DEF GoodItem
  <2> QED
    BY <1>6, <2>1
<1>11. GoodItems(xs)
  BY <1>8, <1>9, <1>10 DEF GoodItems
<1>12. GoodArray(xs) /\ Len(AbiEncode(xs)) = 32 * Len(xs)
  <2>1. Len(xs) < 100
    BY <1>8
  <2> QED
    BY <1>8, <1>9, <1>11, <2>1, StaticArray
<1> QED
  BY <1>8, <1>9, <1>12 DEF xs

\* The call: the selector, and 128 bytes that it does not change.
LEMMA CallParts ==
    ASSUME NEW a \in Args
    PROVE  /\ DeliverCall(a) \in ByteStrings /\ Len(DeliverCall(a)) = 132
           /\ SubSeq(DeliverCall(a), Len(Selector) + 1, 132) = AbiEncode(DeliverArray(a))
<1> DEFINE e == AbiEncode(DeliverArray(a))
           c == DeliverCall(a)
<1>1. c = Selector \o e
  BY DEF DeliverCall, DeliverArray, ResponseWord
<1>2. e \in ByteStrings /\ Len(e) = 128
  BY DeliverArrayIsGood, ArrayPlaces
<1>3. Selector \in ByteStrings /\ Len(Selector) = 4
  BY DeliverAssumption
<1> HIDE DEF e, c
<1>4. c \in ByteStrings /\ Len(c) = 132 /\ Stands(e, c, Len(Selector) + 1)
  <2>1. c \in ByteStrings /\ Len(c) = Len(Selector) + Len(e) /\ Stands(e, c, Len(Selector) + 1)
    <3>1. Selector \in ByteStrings /\ e \in ByteStrings
      BY <1>2, <1>3
    <3>2. /\ Selector \o e \in ByteStrings /\ Len(Selector \o e) = Len(Selector) + Len(e)
          /\ Stands(e, Selector \o e, Len(Selector) + 1)
      BY ONLY <3>1, TwoBytes
    <3> QED
      BY <1>1, <3>2
  <2> QED
    BY <1>2, <1>3, <2>1
<1> DEFINE i == Len(Selector) + 1
<1>5. i \in Nat \ {0} /\ i + Len(e) - 1 = 132
  BY <1>2, <1>3
<1>6. Stands(e, c, i)
  BY <1>4
<1> HIDE DEF i
<1>7. SubSeq(c, i, i + Len(e) - 1) = e
  <2>1. c \in ByteStrings /\ e \in ByteStrings /\ i \in Nat \ {0}
    BY <1>2, <1>4, <1>5
  <2> QED
    BY <1>6, <2>1, StandsIs
<1>8. SubSeq(c, i, 132) = e
  BY <1>5, <1>7
<1> QED
  BY <1>4, <1>8 DEF c, e, i

\* The four words are read back.
LEMMA CallBack ==
    ASSUME NEW a \in Args
    PROVE  /\ Value(Word(AbiEncode(DeliverArray(a)), 0)) = a.id
           /\ Word(AbiEncode(DeliverArray(a)), 1) = a.hash
           /\ Value(Word(AbiEncode(DeliverArray(a)), 2)) = a.error
           /\ Word(AbiEncode(DeliverArray(a)), 3) = ResponseWord(a)
<1> DEFINE xs == DeliverArray(a)
           e == AbiEncode(xs)
           rs == ResponseWord(a)
<1>1. GoodArray(xs) /\ Len(xs) = 4 /\ \A n \in 1..4 : GoodItem(xs[n]) /\ ~Dynamic(xs[n])
  BY DeliverArrayIsGood
<1>2. /\ xs[1] = ABI_UInt64(a.id) /\ xs[2] = ABI_Bytes32(a.hash)
      /\ xs[3] = ABI_UInt64(a.error) /\ xs[4] = ABI_Bytes32(rs)
  BY DEF DeliverArray
<1> HIDE DEF xs, rs
<1>3. ASSUME NEW n \in 1..4
      PROVE  Word(e, n - 1) = EncodeItem(xs[n])
  <2>1. n \in 1..Len(xs)
    BY <1>1
  <2>2. Word(AbiEncode(xs), n - 1) = HeadOf(xs, n)
    BY <1>1, <2>1, WordsAreHeads
  <2>3. HeadOf(xs, n) = EncodeItem(xs[n])
    BY <1>1, <2>1, HeadType
  <2> QED
    BY <2>2, <2>3
<1>4. \A n \in 1..4 : xs[n].type = "uint" => Value(EncodeItem(xs[n])) = xs[n].n
  BY <1>1, StaticItem
<1> HIDE DEF e
<1>5. /\ Word(e, 0) = EncodeItem(xs[1]) /\ Word(e, 1) = EncodeItem(xs[2])
      /\ Word(e, 2) = EncodeItem(xs[3]) /\ Word(e, 3) = EncodeItem(xs[4])
  <2>1. /\ 1 \in 1..4 /\ 2 \in 1..4 /\ 3 \in 1..4 /\ 4 \in 1..4
        /\ 1 - 1 = 0 /\ 2 - 1 = 1 /\ 3 - 1 = 2 /\ 4 - 1 = 3
    OBVIOUS
  <2>2. Word(e, 1 - 1) = EncodeItem(xs[1]) /\ Word(e, 2 - 1) = EncodeItem(xs[2])
    BY <1>3, <2>1
  <2>3. Word(e, 3 - 1) = EncodeItem(xs[3]) /\ Word(e, 4 - 1) = EncodeItem(xs[4])
    BY <1>3, <2>1
  <2> QED
    BY <2>1, <2>2, <2>3
<1>6. xs[1].type = "uint" /\ xs[1].n = a.id /\ xs[3].type = "uint" /\ xs[3].n = a.error
  BY <1>2 DEF ABI_UInt64
<1>7. EncodeItem(xs[2]) = a.hash /\ EncodeItem(xs[4]) = rs
  BY <1>2 DEF EncodeItem, ABI_Bytes32
<1>8. Value(EncodeItem(xs[1])) = a.id /\ Value(EncodeItem(xs[3])) = a.error
  BY <1>4, <1>6
<1> QED
  BY <1>5, <1>7, <1>8 DEF e, xs, rs

\* Zero fits in no bytes.
LEMMA ZeroFits == Fits(0, 8)
<1> DEFINE z == 0
<1>1. z \in Nat /\ z < 65536
  OBVIOUS
<1> HIDE DEF z
<1>2. Fits(z, 8)
  BY <1>1, ShortFits
<1> QED
  BY <1>2 DEF z

\* A short byte string can be encoded.
Short(e) == e \in ByteStrings /\ Len(e) <= 132

\* The fields of the transaction are short byte strings; the numbers among
\* them are in their shortest form.
LEMMA FieldTypes ==
    ASSUME NEW a \in Args, NEW withSig \in BOOLEAN
    PROVE  LET fs == Fields(Transaction(a), withSig) IN
           /\ fs \in Seq(ByteStrings) /\ \A k \in 1..Len(fs) : Short(fs[k])
           /\ withSig => /\ Len(fs) = 9 /\ fs[7] = <<a.v>> /\ fs[8] = a.r /\ fs[9] = a.s
                         /\ SubSeq(fs, 1, 6) = Fields(Transaction(a), FALSE)
           /\ ~withSig => Len(fs) = 6
           /\ fs[1] = itob(a.nonce, 0) /\ fs[2] = itob(GASPRICE, 0) /\ fs[3] = itob(GASLIMIT, 0)
           /\ fs[5] = itob(0, 0) /\ fs[6] = DeliverCall(a)
<1> DEFINE f1 == itob(a.nonce, 0)
           f2 == itob(GASPRICE, 0)
           f3 == itob(GASLIMIT, 0)
           f5 == itob(0, 0)
           f6 == DeliverCall(a)
           f7 == <<a.v>>
           t == Transaction(a)
           six == <<f1, f2, f3, Address, f5, f6>>
           three == <<f7, a.r, a.s>>
           S == {f1, f2, f3, Address, f5, f6, f7, a.r, a.s}
<1>1. \A n : Fits(n, 8) => Short(itob(n, 0))
  <2> SUFFICES ASSUME NEW n, Fits(n, 8) PROVE Short(itob(n, 0))
    OBVIOUS
  <2> DEFINE e == itob(n, 0)
  <2>1. e \in ByteStrings /\ Len(e) <= 8
    BY ItobBack DEF Shortest
  <2> HIDE DEF e
  <2>2. Len(e) <= 132
    BY <2>1, ByteOf
  <2> QED
    BY <2>1, <2>2 DEF Short, e
<1>2. Short(f1) /\ Short(f2) /\ Short(f3) /\ Short(f5)
  BY <1>1, ArgTypes, DeliverAssumption, ZeroFits
<1>3. Short(Address) /\ Short(f6) /\ Short(a.r) /\ Short(a.s)
  <2>1. Short(Address)
    BY DeliverAssumption DEF Short
  <2>2. Short(f6)
    <3>1. f6 \in ByteStrings /\ Len(f6) = 132
      BY CallParts
    <3> HIDE DEF f6
    <3> QED
      BY <3>1 DEF Short
  <2>3. Short(a.r) /\ Short(a.s)
    <3> DEFINE r == a.r s == a.s
    <3>1. r \in ByteStrings /\ Len(r) = 32 /\ s \in ByteStrings /\ Len(s) = 32
      BY ArgTypes
    <3> HIDE DEF r, s
    <3>2. Short(r) /\ Short(s)
      BY <3>1 DEF Short
    <3> QED
      BY <3>2 DEF r, s
  <2> QED
    BY <2>1, <2>2, <2>3
<1>4. Short(f7)
  <2>1. a.v \in 0..255
    BY ArgTypes
  <2> QED
    BY <2>1 DEF Short, ByteStrings
<1>5. /\ t.nonce = a.nonce /\ t.gasPrice = GASPRICE /\ t.gas = GASLIMIT /\ t.to = Address
      /\ t.value = 0 /\ t.data = f6 /\ t.v = a.v /\ t.r = a.r /\ t.s = a.s
  BY DEF Transaction
<1> HIDE DEF t, f6
<1>6. Fields(t, TRUE) = six \o three /\ Fields(t, FALSE) = six \o <<>>
  BY <1>5 DEF Fields
<1> HIDE DEF f1, f2, f3, f5, f7
<1>7. \A x \in S : Short(x)
  BY <1>2, <1>3, <1>4
<1>8. six \in Seq(S) /\ Len(six) = 6 /\ three \in Seq(S) /\ Len(three) = 3
  OBVIOUS
<1>9. /\ six[1] = f1 /\ six[2] = f2 /\ six[3] = f3 /\ six[5] = f5 /\ six[6] = f6
      /\ three[1] = f7 /\ three[2] = a.r /\ three[3] = a.s
  OBVIOUS
<1> HIDE DEF S, six, three
<1>10. \A s \in Seq(S) : s \in Seq(ByteStrings) /\ \A k \in 1..Len(s) : Short(s[k])
  <2> SUFFICES ASSUME NEW s \in Seq(S)
               PROVE  s \in Seq(ByteStrings) /\ \A k \in 1..Len(s) : Short(s[k])
    OBVIOUS
  <2>1. \A k \in 1..Len(s) : Short(s[k])
    BY <1>7, ElementOfSeq
  <2>2. \A x \in S : x \in ByteStrings
    BY <1>7 DEF Short
  <2> QED
    BY <2>1, <2>2
<1>11. CASE withSig
  <2> DEFINE nine == six \o three
  <2>1. /\ nine \in Seq(S) /\ Len(nine) = 9
        /\ \A k \in 1..9 : nine[k] = IF k <= 6 THEN six[k] ELSE three[k - 6]
    <3>1. /\ nine \in Seq(S) /\ Len(nine) = Len(six) + Len(three)
          /\ \A k \in 1..(Len(six) + Len(three)) :
                 nine[k] = IF k <= Len(six) THEN six[k] ELSE three[k - Len(six)]
      BY <1>8, ConcatProperties
    <3>2. Len(six) + Len(three) = 9
      BY <1>8
    <3> QED
      BY <1>8, <3>1, <3>2
  <2>2. Fields(t, withSig) = nine /\ Fields(t, FALSE) = six \o <<>> /\ six \o <<>> = six
    BY <1>6, <1>8, <1>11, ConcatEmptySeq
  <2> HIDE DEF nine
  <2>3. /\ nine[1] = f1 /\ nine[2] = f2 /\ nine[3] = f3 /\ nine[5] = f5 /\ nine[6] = f6
        /\ nine[7] = f7 /\ nine[8] = a.r /\ nine[9] = a.s
    <3>1. nine[1] = six[1] /\ nine[2] = six[2] /\ nine[3] = six[3]
      BY <2>1
    <3>2. nine[5] = six[5] /\ nine[6] = six[6]
      BY <2>1
    <3>3. nine[7] = three[1] /\ nine[8] = three[2] /\ nine[9] = three[3]
      BY <2>1
    <3> QED
      BY <1>9, <3>1, <3>2, <3>3
  <2>4. SubSeq(nine, 1, 6) = six
    <3>1. \A k \in 1..6 : nine[k] = six[k]
      BY <2>1
    <3>2. SubSeq(nine, 1, 6) = [k \in 1..6 |-> nine[1 + k - 1]]
      BY <2>1
    <3>3. six = [k \in 1..6 |-> six[k]]
      BY <1>8
    <3>4. \A k \in 1..6 : 1 + k - 1 = k
      OBVIOUS
    <3> QED
      BY <3>1, <3>2, <3>3, <3>4
  <2>5. nine \in Seq(ByteStrings) /\ \A k \in 1..Len(nine) : Short(nine[k])
    BY <1>10, <2>1
  <2>6. SubSeq(nine, 1, 6) = Fields(t, FALSE)
    BY <2>2, <2>4
  <2> DEFINE fs == Fields(t, withSig)
  <2>7. fs = nine /\ Len(nine) = 9
    BY <2>1, <2>2
  <2> HIDE DEF fs
  <2>8. /\ fs \in Seq(ByteStrings) /\ \A k \in 1..Len(fs) : Short(fs[k])
        /\ Len(fs) = 9 /\ fs[7] = f7 /\ fs[8] = a.r /\ fs[9] = a.s
        /\ SubSeq(fs, 1, 6) = Fields(t, FALSE)
        /\ fs[1] = f1 /\ fs[2] = f2 /\ fs[3] = f3 /\ fs[5] = f5 /\ fs[6] = f6
    BY <2>3, <2>5, <2>6, <2>7
  <2> QED
    BY <1>11, <2>8 DEF f1, f2, f3, f5, f6, f7, t, fs
<1>12. CASE ~withSig
  <2> DEFINE fs == Fields(t, withSig)
  <2>1. fs = six
    BY <1>6, <1>8, <1>12, ConcatEmptySeq
  <2>2. six \in Seq(ByteStrings) /\ \A k \in 1..Len(six) : Short(six[k])
    BY <1>8, <1>10
  <2> HIDE DEF fs
  <2>3. /\ fs \in Seq(ByteStrings) /\ \A k \in 1..Len(fs) : Short(fs[k])
        /\ Len(fs) = 6
        /\ fs[1] = f1 /\ fs[2] = f2 /\ fs[3] = f3 /\ fs[5] = f5 /\ fs[6] = f6
    BY <1>8, <1>9, <2>1, <2>2
  <2> QED
    BY <1>12, <2>3 DEF f1, f2, f3, f5, f6, f7, t, fs
<1> QED
  BY <1>11, <1>12

\* The transaction is read back, and fits in its buffer.
LEMMA TransactionBack ==
    ASSUME NEW a \in Args, NEW withSig \in BOOLEAN
    PROVE  /\ rlpEncode(Transaction(a), withSig) \in ByteStrings
           /\ Len(rlpEncode(Transaction(a), withSig)) <= TX_BUF_SIZE
           /\ DecodeList(rlpEncode(Transaction(a), withSig)) = Fields(Transaction(a), withSig)
<1> DEFINE fs == Fields(Transaction(a), withSig)
           tx == rlpEncode(Transaction(a), withSig)
           x == Len(Concat(Encoded(fs)))
           y == Len(fs)
<1>1. /\ fs \in Seq(ByteStrings) /\ \A k \in 1..y : Short(fs[k])
      /\ y = 9 \/ y = 6
  BY FieldTypes
<1>2. tx = RlpList(fs)
  BY DEF rlpEncode, RlpList, Encoded
<1> HIDE DEF fs, tx
<1>3. Encodable(fs) /\ \A k \in 1..y : Len(fs[k]) <= 132
  <2> SUFFICES ASSUME NEW k \in 1..y PROVE Fits(Len(fs[k]), 8) /\ Len(fs[k]) <= 132
    BY <1>1 DEF Encodable
  <2> DEFINE l == Len(fs[k])
  <2>1. l \in Nat /\ l <= 132
    BY <1>1, ByteOf DEF Short
  <2> HIDE DEF l
  <2>2. l < 65536
    BY <2>1
  <2>3. Fits(l, 8)
    BY <2>1, <2>2, ShortFits
  <2> QED
    BY <2>1, <2>3 DEF l
<1>4. x \in Nat /\ x <= 141 * y
  BY <1>3, ShortList
<1> HIDE DEF x, y
<1>5. x <= 1269
  BY <1>1, <1>4
<1>6. Fits(x, 8)
  <2>1. x < 65536
    BY <1>4, <1>5
  <2> QED
    BY <1>4, <2>1, ShortFits
<1>7. tx \in ByteStrings /\ Len(tx) <= 9 + x /\ DecodeList(tx) = fs
  BY <1>2, <1>3, <1>6, ListBack DEF x
<1>8. Len(tx) <= 2048
  <2> DEFINE l == Len(tx)
  <2>1. l \in Nat /\ l <= 9 + x
    BY <1>7, ByteOf
  <2> HIDE DEF l
  <2>2. l <= 2048
    BY <1>4, <1>5, <2>1
  <2> QED
    BY <2>2 DEF l
<1> QED
  BY <1>7, <1>8 DEF fs, tx, TX_BUF_SIZE

-----------------------------------------------------------------------------
(* The invariant of the calls.                                             *)

\* A transaction has been formed from its arguments or there is none, and
\* the encoded array, which may be empty, is one that can be encoded.
DeliverInv ==
    /\ \/ args = NoArgs /\ raw_tx = <<>>
       \/ args \in Args /\ raw_tx = form_transaction(args)
    /\ GoodArray(items) /\ abi = AbiEncode(items)

\* It holds before the first call.
LEMMA DeliverInitially ==
    ASSUME DeliverInit
    PROVE  DeliverInv
BY NoItems DEF DeliverInit, DeliverInv

\* Every call keeps it.
LEMMA DeliverKeeps ==
    ASSUME DeliverInv, [DeliverNext]_deliverVars
    PROVE  DeliverInv'
<1>1. ASSUME NEW a \in Args, Form(a)
      PROVE  DeliverInv'
  BY <1>1 DEF Form, DeliverInv
<1>2. ASSUME NEW array \in Arrays, Encode(array)
      PROVE  DeliverInv'
  <2>1. GoodArray(array)
    BY ArraysAreGood
  <2> QED
    BY <1>2, <2>1 DEF Encode, DeliverInv
<1>3. CASE NextCall
  BY <1>3, NoItems DEF NextCall, DeliverInv
<1>4. CASE UNCHANGED deliverVars
  BY <1>4 DEF deliverVars, DeliverInv
<1> QED
  BY <1>1, <1>2, <1>3, <1>4 DEF DeliverNext

\* It holds always, whatever form_transaction and encode are called with.
THEOREM DeliverInvariance == DeliverSpec => []DeliverInv
<1>1. DeliverInit => DeliverInv
  BY DeliverInitially
<1>2. DeliverInv /\ [DeliverNext]_deliverVars => DeliverInv'
  BY DeliverKeeps
<1> QED
  BY <1>1, <1>2, PTL DEF DeliverSpec

\* The transaction in its buffer is read back.
LEMMA InvDecodes ==
    ASSUME DeliverInv
    PROVE  DecodesBack
<1>1. abi \in Seq(0..255)
  BY ArrayPlaces DEF DeliverInv, ByteStrings
<1>2. CASE args = NoArgs /\ raw_tx = <<>>
  <2>1. Len(raw_tx) <= TX_BUF_SIZE
    BY <1>2 DEF TX_BUF_SIZE
  <2>2. raw_tx \in Seq(0..255)
    BY <1>2
  <2>3. DeliverTypeOK
    BY <1>1, <1>2, <2>1, <2>2 DEF DeliverTypeOK
  <2> QED
    BY <1>2, <2>3 DEF DecodesBack, Formed
<1>3. CASE args \in Args /\ raw_tx = form_transaction(args)
  <2> DEFINE t == Transaction(args)
             fs == Fields(t, TRUE)
  <2>1. raw_tx = rlpEncode(t, TRUE)
    BY <1>3 DEF form_transaction
  <2>2. /\ rlpEncode(t, TRUE) \in ByteStrings /\ Len(rlpEncode(t, TRUE)) <= TX_BUF_SIZE
        /\ DecodeList(rlpEncode(t, TRUE)) = fs
    BY <1>3, TransactionBack
  <2>3. DecodeList(rlpEncode(t, FALSE)) = Fields(t, FALSE)
    BY <1>3, TransactionBack
  <2>4. SubSeq(fs, 1, 6) = Fields(t, FALSE)
    BY <1>3, FieldTypes
  <2> HIDE DEF t, fs
  <2>5. DecodeList(raw_tx) = fs
    BY <2>1, <2>2
  <2>6. DeliverTypeOK
    BY <1>1, <1>3, <2>1, <2>2 DEF DeliverTypeOK, ByteStrings
  <2>7. DecodeList(rlpEncode(t, FALSE)) = SubSeq(DecodeList(raw_tx), 1, 6)
    BY <2>3, <2>4, <2>5
  <2> QED
    BY <2>5, <2>6, <2>7 DEF DecodesBack, t, fs
<1> QED
  BY <1>2, <1>3 DEF DeliverInv

\* What there is of a transaction once it has been formed.
LEMMA InvFormed ==
    ASSUME DeliverInv, Formed
    PROVE  args \in Args /\ DecodeList(raw_tx) = Fields(Transaction(args), TRUE)
<1>1. args \in Args /\ raw_tx = rlpEncode(Transaction(args), TRUE)
  BY DEF DeliverInv, Formed, form_transaction
<1> QED
  BY <1>1, TransactionBack

\* Numbers in their shortest form are accepted.
LEMMA InvRejected ==
    ASSUME DeliverInv
    PROVE  RejectedForScalarsOnly
<1> SUFFICES ASSUME Formed PROVE RejectedForScalarsOnly
  BY DEF RejectedForScalarsOnly
<1> DEFINE fs == DecodeList(raw_tx)
<1>1. args \in Args /\ fs = Fields(Transaction(args), TRUE)
  BY InvFormed
<1> HIDE DEF fs
<1>2. /\ fs[7] = <<args.v>> /\ fs[8] = args.r /\ fs[9] = args.s
      /\ fs[1] = itob(args.nonce, 0) /\ fs[2] = itob(GASPRICE, 0) /\ fs[3] = itob(GASLIMIT, 0)
      /\ fs[5] = itob(0, 0)
  BY <1>1, FieldTypes
<1>3. Value(fs[1]) = args.nonce /\ Canonical(fs[1])
  <2> DEFINE n == args.nonce
  <2>1. Fits(n, 8)
    BY <1>1, ArgTypes
  <2>2. fs[1] = itob(n, 0)
    BY <1>2
  <2> HIDE DEF n
  <2>3. Value(fs[1]) = n /\ Canonical(fs[1])
    BY <2>1, <2>2, ItobBack DEF Shortest
  <2> QED
    BY <2>3 DEF n
<1>4. Canonical(fs[2]) /\ Canonical(fs[3])
  <2>1. Fits(GASPRICE, 8) /\ Fits(GASLIMIT, 8)
    BY DeliverAssumption
  <2> QED
    BY <1>2, <2>1, ItobBack DEF Shortest
<1>5. Canonical(fs[5])
  <2> DEFINE z == 0
  <2>1. Fits(z, 8)
    BY ZeroFits
  <2> HIDE DEF z
  <2>2. Canonical(itob(z, 0))
    BY <2>1, ItobBack DEF Shortest
  <2> QED
    BY <1>2, <2>2 DEF z
<1>6. Canonical(fs[7])
  <2>1. args.v # 0
    BY <1>1, ArgTypes
  <2> QED
    BY <1>2, <2>1 DEF Canonical
<1>7. \A b \in ByteStrings : Len(b) = 32 => (Canonical(b) <=> b[1] # 0)
  <2> SUFFICES ASSUME NEW b \in ByteStrings, Len(b) = 32 PROVE b # <<>>
    BY DEF Canonical
  <2> DEFINE e == <<>> l == Len(b)
  <2>1. Len(e) = 0 /\ l = 32
    OBVIOUS
  <2>2. ASSUME b = e PROVE l = 0
    <3> HIDE DEF e
    <3> QED
      BY <2>1, <2>2
  <2> HIDE DEF e, l
  <2>3. b # e
    BY <2>1, <2>2
  <2> QED
    BY <2>3 DEF e
<1>8. (Canonical(fs[8]) <=> args.r[1] # 0) /\ (Canonical(fs[9]) <=> args.s[1] # 0)
  <2>1. args.r \in ByteStrings /\ Len(args.r) = 32 /\ args.s \in ByteStrings /\ Len(args.s) = 32
    BY <1>1, ArgTypes
  <2> DEFINE r == args.r s == args.s
  <2> HIDE DEF r, s
  <2>2. (Canonical(r) <=> r[1] # 0) /\ (Canonical(s) <=> s[1] # 0)
    BY <1>7, <2>1 DEF r, s
  <2> QED
    BY <1>2, <2>2 DEF r, s
<1>9. \A i \in {1, 2, 3, 5, 7} : Canonical(fs[i])
  BY <1>3, <1>4, <1>5, <1>6
<1> QED
  BY <1>3, <1>8, <1>9 DEF RejectedForScalarsOnly, fs

\* The contract finds its arguments.
LEMMA InvArguments ==
    ASSUME DeliverInv
    PROVE  ContractReadsArguments
<1> SUFFICES ASSUME Formed PROVE ContractReadsArguments
  BY DEF ContractReadsArguments
<1> DEFINE fs == DecodeList(raw_tx)
           c == DeliverCall(args)
           e == AbiEncode(DeliverArray(args))
<1>1. args \in Args /\ fs = Fields(Transaction(args), TRUE)
  BY InvFormed
<1> HIDE DEF fs
<1>2. fs[6] = c
  BY <1>1, FieldTypes
<1>3. Len(c) = 132 /\ SubSeq(c, Len(Selector) + 1, 132) = e
  BY <1>1, CallParts
<1>4. /\ Value(Word(e, 0)) = args.id /\ Word(e, 1) = args.hash
      /\ Value(Word(e, 2)) = args.error /\ Word(e, 3) = ResponseWord(args)
  BY <1>1, CallBack
<1>5. ResponseWord(args) = IF args.error = 0 THEN SubSeq(args.resp, 1, 32) ELSE Zeros(32)
  BY DEF ResponseWord
<1> HIDE DEF c, e
<1> DEFINE call == SubSeq(fs[6], Len(Selector) + 1, 132)
<1>6. call = e /\ Len(fs[6]) = 132
  BY <1>2, <1>3
<1> HIDE DEF call
<1>7. /\ Len(fs[6]) = 132
      /\ Value(Word(call, 0)) = args.id /\ Word(call, 1) = args.hash
      /\ Value(Word(call, 2)) = args.error
      /\ Word(call, 3) = IF args.error = 0 THEN SubSeq(args.resp, 1, 32) ELSE Zeros(32)
  BY <1>4, <1>5, <1>6
<1> QED
  BY <1>7 DEF ContractReadsArguments, fs, call

\* A set with three members has more than two.
LEMMA ThreeItems ==
    ASSUME NEW S, IsFiniteSet(S), NEW x \in S, NEW y \in S, NEW z \in S,
           x # y, y # z, x # z
    PROVE  ~(Cardinality(S) <= 2)
<1> DEFINE A == {} \cup {x}
           B == A \cup {y}
           C == B \cup {z}
<1>1. IsFiniteSet({}) /\ Cardinality({}) = 0
  BY FS_EmptySet
<1>2. IsFiniteSet(A) /\ Cardinality(A) = 1
  BY <1>1, FS_AddElement
<1>3. IsFiniteSet(B) /\ Cardinality(B) = 2
  <2>1. y \notin A
    OBVIOUS
  <2> HIDE DEF A
  <2> QED
    BY <1>2, <2>1, FS_AddElement
<1>4. IsFiniteSet(C) /\ Cardinality(C) = 3
  <2>1. z \notin B
    OBVIOUS
  <2> HIDE DEF B
  <2> QED
    BY <1>3, <2>1, FS_AddElement
<1>5. C \in SUBSET S
  OBVIOUS
<1> HIDE DEF C
<1>6. Cardinality(C) <= Cardinality(S) /\ Cardinality(S) \in Nat
  BY <1>5, FS_Subset, FS_CardinalityType
<1> QED
  BY <1>4, <1>6

\* The first two offsets count each tail once.
LEMMA FirstTwo ==
    ASSUME NEW n \in DynamicItems, GoodItems(items),
           Cardinality(DynamicItems \cap 1..n) <= 2
    PROVE  TailLenSums(items)[n] = TailSums(items)[n - 1]
<1> DEFINE l == Len(items)
           D == DynamicItems \cap 1..n
<1>1. l \in Nat /\ n \in 1..l /\ n \in Nat \ {0} /\ n - 1 \in 0..l /\ Dynamic(items[n])
  <2>1. l \in Nat
    BY DEF GoodItems
  <2> HIDE DEF l
  <2>2. n \in 1..l /\ Dynamic(items[n])
    BY DEF DynamicItems, Dynamic, l
  <2> QED
    BY <2>1, <2>2
<1>2. IsFiniteSet(D)
  <2>1. IsFiniteSet(1..n)
    BY <1>1, FS_Interval
  <2> QED
    BY <2>1, FS_Intersection
<1>3. \A i \in 1..n : Dynamic(items[i]) => i \in D
  BY <1>1 DEF DynamicItems, Dynamic
<1>4. ASSUME NEW i \in 1..(n - 1), Dynamic(items[i])
      PROVE  TailSums(items)[i - 1] = 0
  <2>1. ASSUME NEW j \in 1..(i - 1), Dynamic(items[j])
        PROVE  FALSE
    <3>1. i \in 1..n /\ j \in 1..n /\ n \in 1..n /\ j # i /\ i # n /\ j # n
      BY <1>1
    <3>2. j \in D /\ i \in D /\ n \in D
      BY <1>1, <1>3, <1>4, <2>1, <3>1
    <3> HIDE DEF D
    <3>3. ~(Cardinality(D) <= 2)
      BY <1>2, <3>1, <3>2, ThreeItems
    <3> QED
      BY <3>3 DEF D
  <2>2. i - 1 \in 0..l
    BY <1>1
  <2> QED
    BY <2>1, <2>2, NoTails
<1>5. TailLenSums(items)[n - 1] = 0
  BY <1>1, <1>4, NoTailsTwice
<1>6. /\ TailLenSums(items)[n] = TailLenSums(items)[n - 1] + TailSums(items)[n - 1]
      /\ TailSums(items)[n - 1] \in Nat
  BY <1>1, TailSumsEquation DEF TailSteps
<1> QED
  BY <1>5, <1>6

\* There the tail stands.
LEMMA InvOffsets ==
    ASSUME DeliverInv
    PROVE  OffsetsRight
<1>1. GoodArray(items) /\ GoodItems(items) /\ abi = AbiEncode(items)
  BY DEF DeliverInv, GoodArray
<1> SUFFICES ASSUME NEW n \in DynamicItems, Cardinality(DynamicItems \cap 1..n) <= 2
             PROVE  LET at == Value(Word(abi, n - 1))
                        len == Len(items[n].bs)
                    IN  /\ Value(SubSeq(abi, at + 1, at + 32)) = len
                        /\ len % 32 = 0 => SubSeq(abi, at + 33, at + 32 + len) = items[n].bs
  BY DEF OffsetsRight
<1> DEFINE at == Value(Word(abi, n - 1))
           bs == items[n].bs
           len == Len(bs)
           w == LenWord(items[n])
           p == Padded(items[n])
<1>2. n \in 1..Len(items) /\ Dynamic(items[n]) /\ GoodItem(items[n])
  BY <1>1 DEF DynamicItems, Dynamic, GoodItems
<1>3. abi \in ByteStrings
      /\ Stands(Tails(items)[n], abi, 32 * Len(items) + TailSums(items)[n - 1] + 1)
  BY <1>1, <1>2, ArrayPlaces
<1>4. at = 32 * Len(items) + TailSums(items)[n - 1]
  <2>1. Word(abi, n - 1) = HeadOf(items, n)
    BY <1>1, <1>2, WordsAreHeads
  <2>2. Value(HeadOf(items, n)) = 32 * Len(items) + TailLenSums(items)[n]
    BY <1>1, <1>2, HeadType
  <2>3. TailLenSums(items)[n] = TailSums(items)[n - 1]
    BY <1>1, FirstTwo
  <2> QED
    BY <2>1, <2>2, <2>3
<1>5. at \in Nat
  <2>1. Len(items) \in Nat /\ n - 1 \in 0..Len(items)
    BY <1>1, <1>2 DEF GoodItems
  <2>2. TailSums(items)[n - 1] \in Nat
    BY <1>1, <2>1, TailSumsEquation DEF TailSteps
  <2> HIDE DEF at
  <2> QED
    BY <1>4, <2>1, <2>2
<1>6. /\ bs \in ByteStrings /\ w \in ByteStrings /\ Len(w) = 32 /\ Value(w) = len
      /\ p \in ByteStrings /\ (len % 32 = 0 => p = bs)
      /\ EncodeItem(items[n]) = w \o p
  BY <1>2, DynamicItem
<1>7. Tails(items)[n] = EncodeItem(items[n])
  BY <1>1, <1>2, TailTypes
<1> HIDE DEF at, w, p, bs
<1>8. Stands(w \o p, abi, at + 1)
  BY <1>3, <1>4, <1>6, <1>7
<1> DEFINE i == at + 1
           k == i + Len(w)
<1>9. i \in Nat \ {0} /\ k \in Nat \ {0} /\ k = at + 33 /\ i + Len(w) - 1 = at + 32
      /\ len \in Nat /\ k + len - 1 = at + 32 + len
  <2>1. len \in Nat
    BY <1>6, ByteOf
  <2> HIDE DEF len
  <2> QED
    BY <1>5, <1>6, <2>1
<1>10. Stands(w, abi, i) /\ Stands(p, abi, k)
  <2>1. Stands(w \o p, abi, i) /\ i \in Nat \ {0}
    BY <1>8, <1>9
  <2> HIDE DEF i
  <2> QED
    BY <1>3, <1>6, <2>1, StandsParts
<1>11. Value(SubSeq(abi, at + 1, at + 32)) = len
  <2>1. SubSeq(abi, i, i + Len(w) - 1) = w
    <3> HIDE DEF i, k
    <3> QED
      BY <1>3, <1>6, <1>9, <1>10, StandsIs
  <2>2. SubSeq(abi, i, at + 32) = w
    BY <1>9, <2>1
  <2> QED
    BY <1>6, <2>2
<1>12. ASSUME len % 32 = 0
       PROVE  SubSeq(abi, at + 33, at + 32 + len) = bs
  <2>1. Stands(bs, abi, k)
    BY <1>6, <1>10, <1>12
  <2>2. SubSeq(abi, k, k + len - 1) = bs
    <3>1. k \in Nat \ {0}
      BY <1>9
    <3> HIDE DEF i, k
    <3> QED
      BY <1>3, <1>6, <2>1, <3>1, StandsIs
  <2>3. k = at + 33 /\ k + len - 1 = at + 32 + len
    BY <1>9
  <2> HIDE DEF k, len
  <2> QED
    BY <2>2, <2>3
<1> QED
  BY <1>11, <1>12 DEF at, len, bs

\* DecodesBack: the transaction fits in its buffer, and a node that decodes
\* it finds the fields that were put in (form_transaction, rlpEncode).
THEOREM DeliveredDecodesBack == DeliverSpec => []DecodesBack
<1>1. DeliverInv => DecodesBack
  BY InvDecodes
<1> QED
  BY <1>1, DeliverInvariance, PTL

\* RejectedForScalarsOnly: every number of the transaction is in its shortest
\* form, but r and s have all their bytes (parseUInt64, rlpEncode).
THEOREM DeliveredRejectedForScalars == DeliverSpec => []RejectedForScalarsOnly
<1>1. DeliverInv => RejectedForScalarsOnly
  BY InvRejected
<1> QED
  BY <1>1, DeliverInvariance, PTL

\* ContractReadsArguments: the contract reads the arguments that
\* form_transaction was called with.
THEOREM DeliveredArguments == DeliverSpec => []ContractReadsArguments
<1>1. DeliverInv => ContractReadsArguments
  BY InvArguments
<1> QED
  BY <1>1, DeliverInvariance, PTL

\* OffsetsRight: the offsets that ABI_Generic_Array::encode writes for the
\* first two dynamic items of an array lead to their lengths and bytes.
THEOREM FirstOffsetsAreRight == DeliverSpec => []OffsetsRight
<1>1. DeliverInv => OffsetsRight
  BY InvOffsets
<1> QED
  BY <1>1, DeliverInvariance, PTL
=============================================================================
