------------------------------ MODULE Notation ------------------------------
(***************************************************************************)
(* What the encodings of numbers and of byte strings are made of: joining  *)
(* sequences, adding up lengths, dividing by the base.                     *)
(*                                                                         *)
(* Each is a recursive function over a range of numbers.                   *)
(***************************************************************************)
EXTENDS Integers, Sequences

\* The first i of the sequences ss in one, for each i.
Joined(ss) ==
    LET to[i \in 0..Len(ss)] == IF i = 0 THEN <<>> ELSE to[i - 1] \o ss[i] IN to
Concat(ss) == Joined(ss)[Len(ss)]

\* The sum of the first i of the numbers ns, for each i.
Sums(ns) ==
    LET to[i \in 0..Len(ns)] == IF i = 0 THEN 0 ELSE to[i - 1] + ns[i] IN to

\* n divided by b, i times, for each i up to 8.
Quotients(n, b) ==
    LET q[i \in 0..8] == IF i = 0 THEN n ELSE q[i - 1] \div b IN q
=============================================================================
