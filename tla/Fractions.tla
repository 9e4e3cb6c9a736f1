------------------------------- MODULE Fractions -------------------------------
(***************************************************************************)
(* Exact fractions in lowest terms, and matrices of them (sequences of     *)
(* rows), for the program's floating point numbers.                        *)
(***************************************************************************)
EXTENDS Integers, SequencesExt

Fraction == [num : Int, den : Nat \ {0}]

(* The greatest common divisor of n and m, by Euclid.                      *)
Gcd[n \in Nat] == [m \in Nat |-> IF n = 0 THEN m ELSE Gcd[m % n][n]]

Magnitude(n) == IF n < 0 THEN - n ELSE n

(* p / q, for a positive q.                                                *)
Number(p, q) ==
  LET g == Gcd[q][Magnitude(p)] IN [num |-> p \div g, den |-> q \div g]

Zero == Number(0, 1)
One == Number(1, 1)

Plus(x, y) == Number(x.num * y.den + y.num * x.den, x.den * y.den)
Minus(x, y) == Number(x.num * y.den - y.num * x.den, x.den * y.den)
Times(x, y) == Number(x.num * y.num, x.den * y.den)

(* x / y, for a y that is not 0.                                           *)
Over(x, y) == IF y.num < 0 THEN Number(- x.num * y.den, - y.num * x.den)
              ELSE Number(x.num * y.den, y.num * x.den)

AtMost(x, y) == x.num * y.den <= y.num * x.den
Less(x, y) == x.num * y.den < y.num * x.den

SumOf(numbers) ==
  LET sum[n \in Nat] == IF n = 0 THEN Zero ELSE Plus(sum[n - 1], numbers[n])
  IN  sum[Len(numbers)]

-----------------------------------------------------------------------------
Transposed(M) == [j \in DOMAIN M[1] |-> [i \in DOMAIN M |-> M[i][j]]]

Product(M, N) ==
  [i \in DOMAIN M |->
    [j \in DOMAIN N[1] |-> SumOf([k \in DOMAIN N |-> Times(M[i][k], N[k][j])])]]

Entrywise(Op(_, _), M, N) ==
  [i \in DOMAIN M |-> [j \in DOMAIN M[1] |-> Op(M[i][j], N[i][j])]]

Sum(M, N) == Entrywise(Plus, M, N)
Difference(M, N) == Entrywise(Minus, M, N)

Diagonal(numbers) ==
  [i \in DOMAIN numbers |->
    [j \in DOMAIN numbers |-> IF i = j THEN numbers[i] ELSE Zero]]

Identity(n) == Diagonal([i \in 1 .. n |-> One])

Column(numbers) == [i \in DOMAIN numbers |-> <<numbers[i]>>]

=============================================================================
