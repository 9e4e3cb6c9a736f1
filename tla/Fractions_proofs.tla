---------------------------- MODULE Fractions_proofs ----------------------------
(***************************************************************************)
(* Lemmas about exact fractions: Euclid's Gcd, lowest terms, order, sums   *)
(* and small matrices, for the theorems of every module that computes with *)
(* them.                                                                   *)
(***************************************************************************)
EXTENDS Fractions, WellFoundedInduction, TLAPS

-----------------------------------------------------------------------------
(* A set of naturals that has an element has a least one: what stands for  *)
(* induction in the proofs below.                                          *)
LEMMA LeastExists ==
  ASSUME NEW S \in SUBSET Nat, S # {}
  PROVE  \E l \in S : \A x \in S : l <= x
<1>1. PICK l \in S : \A x \in S : <<x, l>> \notin OpToRel(<, Nat)
  BY NatLessThanWellFounded, WFMin
<1>2. \A x \in S : ~ (x < l)
  BY <1>1 DEF OpToRel
<1>3. QED
  BY <1>2

(* The quotient and the remainder of naturals                              *)
LEMMA Division ==
  ASSUME NEW m \in Nat, NEW n \in Nat \ {0}
  PROVE  /\ m \div n \in Nat /\ m % n \in Nat /\ m % n < n
         /\ m = n * (m \div n) + (m % n)
OBVIOUS

(* What divides a number and a divisor divides the remainder too ...       *)
Divides(d, m) == \E k \in Int : m = d * k

LEMMA SameDivisors ==
  ASSUME NEW m \in Nat, NEW n \in Nat \ {0}, NEW d \in Nat, Divides(d, n)
  PROVE  Divides(d, m) <=> Divides(d, m % n)
<1>1. PICK k \in Nat : k = m \div n
  BY Division
<1>2. PICK r \in Nat : r = m % n
  BY Division
<1>3. PICK b \in Int : n = d * b
  BY DEF Divides
<1>4. m = n * k + r
  BY <1>1, <1>2, Division
<1>5. ASSUME NEW a \in Int, m = d * a
      PROVE  a - b * k \in Int /\ r = d * (a - b * k)
  BY <1>3, <1>4, <1>5
<1>6. ASSUME NEW a \in Int, r = d * a
      PROVE  a + b * k \in Int /\ m = d * (a + b * k)
  BY <1>3, <1>4, <1>6
<1>7. QED
  BY <1>2, <1>5, <1>6 DEF Divides

(* ... so the greatest common divisor, as it is defined, is what Euclid's  *)
(* recursion asks for: Gcd, the function chosen to satisfy it, does.       *)
CommonDivisors(m, n) == {d \in Nat \ {0} : Divides(d, m) /\ Divides(d, n)}

Greatest(m, n) ==
  IF n = 0 THEN m ELSE CHOOSE d \in CommonDivisors(m, n) : \A e \in CommonDivisors(m, n) : e <= d

LEMMA GreatestStep ==
  ASSUME NEW m \in Nat, NEW n \in Nat \ {0}
  PROVE  Greatest(m, n) = Greatest(n, m % n)
<1>1. m % n \in Nat
  BY Division
<1>2. CommonDivisors(m, n) = CommonDivisors(n, m % n)
  BY SameDivisors DEF CommonDivisors
<1>3. CASE m % n # 0
  BY <1>2, <1>3 DEF Greatest
<1>4. CASE m % n = 0
  <2>1. n = n * 1 /\ 0 = n * 0
    OBVIOUS
  <2>2. n \in CommonDivisors(m, n)
    BY <1>2, <1>4, <2>1 DEF CommonDivisors, Divides
  <2>3. ASSUME NEW e \in CommonDivisors(m, n) PROVE e <= n
    <3>1. PICK k \in Int : n = e * k
      BY <2>3 DEF CommonDivisors, Divides
    <3>2. e \in Nat \ {0}
      BY DEF CommonDivisors
    <3>3. k >= 1
      BY <3>1, <3>2
    <3>4. QED
      BY <3>1, <3>2, <3>3
  <2>4. ASSUME NEW d \in CommonDivisors(m, n), \A e \in CommonDivisors(m, n) : e <= d
        PROVE  d = n
    <3>1. d <= n /\ n <= d /\ d \in Nat
      BY <2>2, <2>3, <2>4 DEF CommonDivisors
    <3>2. QED
      BY <3>1
  <2>5. Greatest(m, n) = n
    BY <2>2, <2>3, <2>4 DEF Greatest
  <2>6. QED
    BY <1>4, <2>5 DEF Greatest
<1>5. QED
  BY <1>3, <1>4

LEMMA GcdStep ==
  ASSUME NEW m \in Nat, NEW n \in Nat
  PROVE  Gcd[n][m] = IF n = 0 THEN m ELSE Gcd[m % n][n]
<1> DEFINE IsGcd(f) == f = [b \in Nat |-> [a \in Nat |-> IF b = 0 THEN a ELSE f[a % b][b]]]
           greatest == [b \in Nat |-> [a \in Nat |-> Greatest(a, b)]]
<1>1. IsGcd(greatest)
  <2>1. ASSUME NEW a \in Nat, NEW b \in Nat
        PROVE  Greatest(a, b) = IF b = 0 THEN a ELSE greatest[a % b][b]
    <3>1. CASE b = 0
      BY <3>1 DEF Greatest
    <3>2. CASE b # 0
      <4>1. a % b \in Nat
        BY <3>2, Division
      <4>2. greatest[a % b][b] = Greatest(b, a % b)
        BY <4>1
      <4>3. Greatest(a, b) = Greatest(b, a % b)
        BY <3>2, GreatestStep
      <4>4. QED
        BY <3>2, <4>2, <4>3
    <3>3. QED
      BY <3>1, <3>2
  <2>2. QED
    BY <2>1
<1>2. IsGcd(Gcd)
  BY <1>1 DEF Gcd
<1>3. QED
  BY <1>2

(* Gcd divides both numbers and is 0 for two zeros only.                   *)
LEMMA GcdDivides ==
  ASSUME NEW m \in Nat, NEW n \in Nat
  PROVE  /\ Gcd[n][m] \in Nat /\ Divides(Gcd[n][m], m) /\ Divides(Gcd[n][m], n)
         /\ n > 0 \/ m > 0 => Gcd[n][m] > 0
<1> DEFINE Good(b, a) == /\ Gcd[b][a] \in Nat /\ Divides(Gcd[b][a], a) /\ Divides(Gcd[b][a], b)
                         /\ b > 0 \/ a > 0 => Gcd[b][a] > 0
           Bad == {b \in Nat : \E a \in Nat : ~ Good(b, a)}
<1>1. CASE Bad = {}
  BY <1>1
<1>2. CASE Bad # {}
  <2>1. PICK b \in Bad : \A x \in Bad : b <= x
    BY <1>2, LeastExists
  <2>2. PICK a \in Nat : ~ Good(b, a)
    BY <2>1
  <2>3. b \in Nat
    OBVIOUS
  <2>4. CASE b = 0
    <3>1. Gcd[b][a] = a
      BY <2>3, <2>4, GcdStep
    <3>2. a = a * 1 /\ b = a * 0
      BY <2>4
    <3>3. QED
      BY <2>2, <2>4, <3>1, <3>2 DEF Divides
  <2>5. CASE b # 0
    <3>1. PICK r \in Nat : r = a % b
      BY <2>3, <2>5, Division
    <3>2. r < b
      BY <2>3, <2>5, <3>1, Division
    <3>3. Good(r, b)
      BY <2>1, <2>3, <3>2
    <3>4. Gcd[b][a] = Gcd[r][b]
      BY <2>3, <2>5, <3>1, GcdStep
    <3>5. Divides(Gcd[r][b], a)
      BY <2>3, <2>5, <3>1, <3>3, SameDivisors
    <3>6. QED
      BY <2>2, <2>3, <2>5, <3>3, <3>4, <3>5
  <2>6. QED
    BY <2>4, <2>5
<1>3. QED
  BY <1>1, <1>2

(* p / q in lowest terms is p / q.                                         *)
LEMMA NumberProperties ==
  ASSUME NEW p \in Int, NEW q \in Nat \ {0}
  PROVE  \E g \in Nat \ {0} :
           /\ Number(p, q).num \in Int /\ Number(p, q).den \in Nat \ {0}
           /\ p = g * Number(p, q).num /\ q = g * Number(p, q).den
<1>1. PICK g : g = Gcd[q][Magnitude(p)]
  OBVIOUS
<1>2. Magnitude(p) \in Nat /\ (p = Magnitude(p) \/ p = - Magnitude(p))
  BY DEF Magnitude
<1>3. g \in Nat \ {0} /\ Divides(g, Magnitude(p)) /\ Divides(g, q)
  BY <1>1, <1>2, GcdDivides
<1>4. PICK k \in Int : p = g * k
  <2>1. PICK j \in Int : Magnitude(p) = g * j
    BY <1>3 DEF Divides
  <2>2. p = g * j \/ p = g * (- j)
    BY <1>2, <1>3, <2>1
  <2>3. QED
    BY <2>1, <2>2
<1>5. PICK l \in Int : q = g * l
  BY <1>3 DEF Divides
<1>6. l > 0
  BY <1>3, <1>5
<1>7. p \div g = k /\ q \div g = l
  BY <1>3, <1>4, <1>5
<1>8. Number(p, q) = [num |-> k, den |-> l]
  BY <1>1, <1>7 DEF Number
<1>9. QED
  BY <1>3, <1>4, <1>5, <1>6, <1>8

(* A number is a fraction in the model's sense, below 0 when p is ...      *)
LEMMA NumberIsFraction ==
  ASSUME NEW p \in Int, NEW q \in Nat \ {0}
  PROVE  Number(p, q) \in Fraction /\ (p >= 0 => Number(p, q).num >= 0)
<1>1. PICK g \in Nat \ {0} :
        /\ Number(p, q).num \in Int /\ Number(p, q).den \in Nat \ {0}
        /\ p = g * Number(p, q).num /\ q = g * Number(p, q).den
  BY NumberProperties
<1>2. PICK k \in Int : k = Number(p, q).num
  BY <1>1
<1>3. p >= 0 => k >= 0
  BY <1>1, <1>2
<1>4. Number(p, q) \in Fraction
  BY <1>1 DEF Number, Fraction
<1>5. QED
  BY <1>2, <1>3, <1>4

(* ... and compares with other fractions as p / q does.                    *)
LEMMA NumberOrder ==
  ASSUME NEW p \in Int, NEW q \in Nat \ {0}, NEW x \in Fraction
  PROVE  /\ AtMost(Number(p, q), x) <=> p * x.den <= x.num * q
         /\ AtMost(x, Number(p, q)) <=> x.num * q <= p * x.den
         /\ Less(x, Number(p, q)) <=> x.num * q < p * x.den
         /\ Less(Number(p, q), x) <=> p * x.den < x.num * q
<1>1. PICK g \in Nat \ {0} :
        /\ Number(p, q).num \in Int /\ Number(p, q).den \in Nat \ {0}
        /\ p = g * Number(p, q).num /\ q = g * Number(p, q).den
  BY NumberProperties
<1>2. PICK k \in Int : k = Number(p, q).num
  BY <1>1
<1>3. PICK l \in Nat \ {0} : l = Number(p, q).den
  BY <1>1
<1>4. PICK a \in Int : a = x.num
  BY DEF Fraction
<1>5. PICK b \in Nat \ {0} : b = x.den
  BY DEF Fraction
<1>6. p = g * k /\ q = g * l
  BY <1>1, <1>2, <1>3
<1>7. p * b = g * (k * b) /\ a * q = g * (a * l) /\ k * b \in Int /\ a * l \in Int
  BY <1>6
<1>8. /\ p * b <= a * q <=> k * b <= a * l
      /\ a * q <= p * b <=> a * l <= k * b
      /\ a * q < p * b <=> a * l < k * b
      /\ p * b < a * q <=> k * b < a * l
  <2>1. ASSUME NEW u \in Int, NEW v \in Int
        PROVE  (g * u <= g * v <=> u <= v) /\ (g * u < g * v <=> u < v)
    OBVIOUS
  <2>2. QED
    BY <1>7, <2>1
<1>9. QED
  BY <1>2, <1>3, <1>4, <1>5, <1>8 DEF AtMost, Less

(* The numbers the definitions name. 0 has one form.                       *)
LEMMA SmallNumbers ==
  /\ \A q \in Nat \ {0} : Number(0, q) = Zero
  /\ Zero = [num |-> 0, den |-> 1] /\ One = [num |-> 1, den |-> 1]
  /\ Number(-1, 1) = [num |-> -1, den |-> 1] /\ Number(1, 2) = [num |-> 1, den |-> 2]
<1>1. ASSUME NEW q \in Nat \ {0} PROVE Number(0, q) = [num |-> 0, den |-> 1]
  <2>1. Magnitude(0) = 0 /\ 0 % q = 0
    BY DEF Magnitude
  <2>2. Gcd[q][0] = Gcd[0][q] /\ Gcd[0][q] = q
    BY <2>1, GcdStep
  <2>3. 0 \div q = 0 /\ q \div q = 1
    OBVIOUS
  <2>4. QED
    BY <2>1, <2>2, <2>3 DEF Number
<1>2. ASSUME NEW p \in {1, -1} PROVE Number(p, 1) = [num |-> p, den |-> 1]
  <2>1. Magnitude(p) = 1 /\ 1 % 1 = 0
    BY DEF Magnitude
  <2>2. Gcd[1][1] = Gcd[0][1] /\ Gcd[0][1] = 1
    BY <2>1, GcdStep
  <2>3. p \div 1 = p /\ 1 \div 1 = 1
    OBVIOUS
  <2>4. QED
    BY <2>1, <2>2, <2>3 DEF Number
<1>3. Zero = [num |-> 0, den |-> 1] /\ One = [num |-> 1, den |-> 1]
  BY <1>1, <1>2 DEF Zero, One
<1>4. Number(1, 2) = [num |-> 1, den |-> 2]
  <2>1. Magnitude(1) = 1 /\ 1 % 2 = 1 /\ 2 % 1 = 0
    BY DEF Magnitude
  <2>2. Gcd[2][1] = Gcd[1][2] /\ Gcd[1][2] = Gcd[0][1] /\ Gcd[0][1] = 1
    BY <2>1, GcdStep
  <2>3. 1 \div 1 = 1 /\ 2 \div 1 = 2
    OBVIOUS
  <2>4. QED
    BY <2>1, <2>2, <2>3 DEF Number
<1>5. QED
  BY <1>1, <1>2, <1>3, <1>4

(* Two numbers compare as the fractions they were given.                   *)
LEMMA NumbersOrder ==
  ASSUME NEW p \in Int, NEW q \in Nat \ {0}, NEW a \in Int, NEW b \in Nat \ {0}
  PROVE  AtMost(Number(p, q), Number(a, b)) <=> p * b <= a * q
<1>1. PICK x \in Fraction : x = [num |-> p, den |-> q]
  BY DEF Fraction
<1>2. PICK y \in Fraction : y = Number(a, b)
  BY NumberIsFraction
<1>3. AtMost(Number(p, q), y) <=> p * y.den <= y.num * q
  BY NumberOrder
<1>4. AtMost(x, y) <=> x.num * b <= a * x.den
  BY <1>2, NumberOrder
<1>5. AtMost(x, y) <=> p * y.den <= y.num * q
  BY <1>1 DEF AtMost
<1>6. QED
  BY <1>1, <1>2, <1>3, <1>4, <1>5

(* The order of fractions                                                  *)
LEMMA AtMostIsTransitive ==
  ASSUME NEW x \in Fraction, NEW y \in Fraction, NEW z \in Fraction, AtMost(x, y), AtMost(y, z)
  PROVE  AtMost(x, z)
<1>1. \A a, c, e \in Int : \A b, d, f \in Nat \ {0} :
        a * d <= c * b /\ c * f <= e * d => a * f <= e * b
  OBVIOUS
<1>2. QED
  BY <1>1 DEF AtMost, Fraction

(* Fractions not below 0, which addition keeps                             *)
NonNegative == {x \in Fraction : x.num >= 0}

LEMMA PlusIsNonNegative ==
  ASSUME NEW x \in NonNegative, NEW y \in NonNegative
  PROVE  Plus(x, y) \in NonNegative
<1>1. x.num \in Nat /\ y.num \in Nat /\ x.den \in Nat \ {0} /\ y.den \in Nat \ {0}
  BY DEF NonNegative, Fraction
<1>2. \A a, b \in Nat : \A c, d \in Nat \ {0} : a * d + b * c \in Nat /\ c * d \in Nat \ {0}
  OBVIOUS
<1>3. x.num * y.den + y.num * x.den \in Nat /\ x.den * y.den \in Nat \ {0}
  BY <1>1, <1>2
<1>4. QED
  BY <1>3, NumberIsFraction DEF Plus, NonNegative

-----------------------------------------------------------------------------
(* Sums of fractions                                                       *)

(* The partial sums of a sequence, up to its n-th number                   *)
IsSum(sum, numbers, n) ==
  sum = [k \in 0 .. n |-> IF k = 0 THEN Zero ELSE Plus(sum[k - 1], numbers[k])]

(* There are partial sums up to any length, ...                            *)
LEMMA SumExists ==
  ASSUME NEW numbers, NEW n \in Nat
  PROVE  \E sum : IsSum(sum, numbers, n)
<1> DEFINE Bad == {k \in Nat : ~ \E sum : IsSum(sum, numbers, k)}
<1>1. CASE Bad = {}
  BY <1>1
<1>2. CASE Bad # {}
  <2>1. PICK k \in Bad : \A j \in Bad : k <= j
    BY <1>2, LeastExists
  <2>2. k \in Nat
    OBVIOUS
  <2>3. CASE k = 0
    <3>1. IsSum([j \in 0 .. 0 |-> Zero], numbers, 0)
      BY DEF IsSum
    <3>2. QED
      BY <2>3, <3>1
  <2>4. CASE k # 0
    <3>1. k - 1 \in Nat /\ k - 1 \notin Bad
      BY <2>1, <2>2, <2>4
    <3>2. PICK s : IsSum(s, numbers, k - 1)
      BY <3>1
    <3> DEFINE more == [j \in 0 .. k |-> IF j = k THEN Plus(s[k - 1], numbers[k]) ELSE s[j]]
    <3>3. ASSUME NEW j \in 0 .. k
          PROVE  more[j] = IF j = 0 THEN Zero ELSE Plus(more[j - 1], numbers[j])
      <4>1. CASE j = k
        BY <2>2, <2>4, <4>1
      <4>2. CASE j # k
        <5>1. j \in 0 .. (k - 1) /\ more[j] = s[j]
          BY <2>2, <4>2
        <5>2. s[j] = IF j = 0 THEN Zero ELSE Plus(s[j - 1], numbers[j])
          BY <3>2, <5>1 DEF IsSum
        <5>3. j # 0 => more[j - 1] = s[j - 1]
          BY <2>2, <5>1
        <5>4. QED
          BY <5>1, <5>2, <5>3
      <4>3. QED
        BY <4>1, <4>2
    <3>4. IsSum(more, numbers, k)
      BY <3>3 DEF IsSum
    <3>5. QED
      BY <3>4
  <2>5. QED
    BY <2>3, <2>4
<1>3. QED
  BY <1>1, <1>2

(* ... the shorter ones are the beginning of the longer ones, ...          *)
LEMMA SumIsUnique ==
  ASSUME NEW numbers, NEW m \in Nat, NEW n \in Nat, m <= n,
         NEW s, IsSum(s, numbers, m), NEW t, IsSum(t, numbers, n)
  PROVE  \A k \in 0 .. m : s[k] = t[k]
<1> DEFINE Bad == {k \in 0 .. m : s[k] # t[k]}
<1>1. CASE Bad = {}
  BY <1>1
<1>2. CASE Bad # {}
  <2>1. Bad \subseteq Nat
    OBVIOUS
  <2>2. PICK k \in Bad : \A j \in Bad : k <= j
    BY <1>2, <2>1, LeastExists
  <2>3. k \in 0 .. m /\ k \in 0 .. n
    OBVIOUS
  <2>4. /\ s[k] = IF k = 0 THEN Zero ELSE Plus(s[k - 1], numbers[k])
        /\ t[k] = IF k = 0 THEN Zero ELSE Plus(t[k - 1], numbers[k])
    BY <2>3 DEF IsSum
  <2>5. k # 0 => s[k - 1] = t[k - 1]
    BY <2>2, <2>3
  <2>6. QED
    BY <2>4, <2>5
<1>3. QED
  BY <1>1, <1>2

(* ... so SumOf, the recursive function, is the last of them.              *)
LEMMA SumOfProperties ==
  ASSUME NEW numbers, NEW n \in Nat, Len(numbers) = n
  PROVE  \E sum : IsSum(sum, numbers, n) /\ SumOf(numbers) = sum[n]
<1> DEFINE Step(f) == f = [k \in Nat |-> IF k = 0 THEN Zero ELSE Plus(f[k - 1], numbers[k])]
           Part(k) == CHOOSE s : IsSum(s, numbers, k)
           all == [k \in Nat |-> Part(k)[k]]
<1>1. \A k \in Nat : IsSum(Part(k), numbers, k)
  BY SumExists
<1>2. Step(all)
  <2>1. ASSUME NEW k \in Nat
        PROVE  all[k] = IF k = 0 THEN Zero ELSE Plus(all[k - 1], numbers[k])
    <3>1. Part(k)[k] = IF k = 0 THEN Zero ELSE Plus(Part(k)[k - 1], numbers[k])
      <4> HIDE DEF Part
      <4>1. QED
        BY <1>1 DEF IsSum
    <3>2. ASSUME k # 0 PROVE all[k - 1] = Part(k)[k - 1]
      <4>1. k - 1 \in Nat /\ k - 1 \in 0 .. (k - 1) /\ k - 1 <= k
        BY <3>2
      <4>2. IsSum(Part(k - 1), numbers, k - 1) /\ IsSum(Part(k), numbers, k)
        BY <1>1, <4>1
      <4> HIDE DEF Part
      <4>3. Part(k - 1)[k - 1] = Part(k)[k - 1]
        BY <4>1, <4>2, SumIsUnique
      <4>4. QED
        BY <4>1, <4>3
    <3> HIDE DEF Part
    <3>3. QED
      BY <3>1, <3>2
  <2> HIDE DEF Part
  <2>2. QED
    BY <2>1
<1> DEFINE f == CHOOSE f : Step(f)
<1>3. Step(f) /\ SumOf(numbers) = f[n]
  <2>1. \E g : Step(g)
    BY <1>2
  <2>2. Step(f)
    BY <2>1
  <2>3. SumOf(numbers) = f[n]
    BY DEF SumOf
  <2>4. QED
    BY <2>2, <2>3
<1> HIDE DEF f
<1> DEFINE part == [k \in 0 .. n |-> f[k]]
<1>4. IsSum(part, numbers, n) /\ part[n] = f[n]
  <2>1. ASSUME NEW k \in 0 .. n
        PROVE  f[k] = IF k = 0 THEN Zero ELSE Plus(f[k - 1], numbers[k])
    BY <1>3
  <2>2. QED
    BY <2>1 DEF IsSum
<1>5. QED
  BY <1>3, <1>4

(* A sum of fractions not below 0 is not below 0.                          *)
LEMMA SumIsNonNegative ==
  ASSUME NEW n \in Nat, NEW numbers, Len(numbers) = n,
         \A k \in 1 .. n : numbers[k] \in NonNegative
  PROVE  SumOf(numbers) \in NonNegative
<1>1. PICK sum : IsSum(sum, numbers, n) /\ SumOf(numbers) = sum[n]
  BY SumOfProperties
<1> DEFINE Bad == {k \in 0 .. n : sum[k] \notin NonNegative}
<1>2. CASE Bad = {}
  <2>1. n \in 0 .. n
    OBVIOUS
  <2>2. QED
    BY <1>1, <1>2, <2>1
<1>3. CASE Bad # {}
  <2>1. Bad \subseteq Nat
    OBVIOUS
  <2>2. PICK k \in Bad : \A j \in Bad : k <= j
    BY <1>3, <2>1, LeastExists
  <2>3. k \in 0 .. n
    OBVIOUS
  <2>4. sum[k] = IF k = 0 THEN Zero ELSE Plus(sum[k - 1], numbers[k])
    BY <1>1, <2>3 DEF IsSum
  <2>5. Zero \in NonNegative
    BY SmallNumbers DEF NonNegative, Fraction
  <2>6. k # 0 => sum[k - 1] \in NonNegative /\ numbers[k] \in NonNegative
    BY <2>2, <2>3
  <2>7. QED
    BY <2>2, <2>4, <2>5, <2>6, PlusIsNonNegative
<1>4. QED
  BY <1>2, <1>3

(* 0 has one form in lowest terms.                                         *)
LEMMA ZeroHasOneForm ==
  ASSUME NEW p \in Int, NEW q \in Nat \ {0}, Number(p, q).num = 0
  PROVE  Number(p, q) = Zero
<1>1. PICK g \in Nat \ {0} :
        /\ Number(p, q).num \in Int /\ Number(p, q).den \in Nat \ {0}
        /\ p = g * Number(p, q).num /\ q = g * Number(p, q).den
  BY NumberProperties
<1>2. p = 0
  BY <1>1
<1>3. QED
  BY <1>2, SmallNumbers

(* There is one remainder below the divisor ...                            *)
LEMMA DivisionIsUnique ==
  ASSUME NEW n \in Nat \ {0}, NEW k \in Nat, NEW r \in Nat, r < n, NEW m \in Nat, m = n * k + r
  PROVE  m % n = r
<1>1. PICK j \in Nat : j = m \div n
  BY Division
<1>2. PICK s \in Nat : s = m % n
  BY Division
<1>3. m = n * j + s /\ s < n
  BY <1>1, <1>2, Division
<1>4. CASE j = k
  BY <1>2, <1>3, <1>4
<1>5. CASE j < k
  <2>1. k >= j + 1
    BY <1>5
  <2>2. n * k >= n * (j + 1) /\ n * (j + 1) = n * j + n
    BY <2>1
  <2>3. QED
    BY <1>3, <2>2
<1>6. CASE k < j
  <2>1. j >= k + 1
    BY <1>6
  <2>2. n * j >= n * (k + 1) /\ n * (k + 1) = n * k + n
    BY <2>1
  <2>3. QED
    BY <1>3, <2>2
<1>7. QED
  BY <1>4, <1>5, <1>6

(* ... so scaling both scales the remainder, and with it every step of      *)
(* Euclid and what it ends with.                                           *)
LEMMA RemainderScales ==
  ASSUME NEW g \in Nat \ {0}, NEW m \in Nat, NEW n \in Nat \ {0}
  PROVE  (g * m) % (g * n) = g * (m % n)
<1>1. PICK k \in Nat : k = m \div n
  BY Division
<1>2. PICK r \in Nat : r = m % n
  BY Division
<1>3. m = n * k + r /\ r < n
  BY <1>1, <1>2, Division
<1>4. PICK b \in Nat \ {0} : b = g * n
  OBVIOUS
<1>5. PICK a \in Nat : a = g * m
  OBVIOUS
<1>6. PICK s \in Nat : s = g * r
  OBVIOUS
<1>7. a = b * k + s /\ s < b
  <2>1. g * m = (g * n) * k + g * r
    BY <1>3
  <2>2. g * r < g * n
    BY <1>3
  <2>3. QED
    BY <1>4, <1>5, <1>6, <2>1, <2>2
<1>8. a % b = s
  BY <1>7, DivisionIsUnique
<1>9. QED
  BY <1>2, <1>4, <1>5, <1>6, <1>8

LEMMA GcdScales ==
  ASSUME NEW g \in Nat \ {0}, NEW m \in Nat, NEW n \in Nat
  PROVE  Gcd[g * n][g * m] = g * Gcd[n][m]
<1> DEFINE Good(b, a) == Gcd[g * b][g * a] = g * Gcd[b][a]
           Bad == {b \in Nat : \E a \in Nat : ~ Good(b, a)}
<1>1. CASE Bad = {}
  BY <1>1
<1>2. CASE Bad # {}
  <2>1. PICK b \in Bad : \A x \in Bad : b <= x
    BY <1>2, LeastExists
  <2>2. PICK a \in Nat : ~ Good(b, a)
    BY <2>1
  <2>3. b \in Nat
    OBVIOUS
  <2>4. CASE b = 0
    <3>1. g * b = 0 /\ g * a \in Nat
      BY <2>4
    <3>2. Gcd[0][a] = a /\ Gcd[0][g * a] = g * a
      BY <3>1, GcdStep
    <3>3. QED
      BY <2>2, <2>4, <3>1, <3>2
  <2>5. CASE b # 0
    <3>1. PICK r \in Nat : r = a % b
      BY <2>3, <2>5, Division
    <3>2. r < b
      BY <2>3, <2>5, <3>1, Division
    <3>3. Good(r, b)
      BY <2>1, <2>3, <3>2
    <3>4. Gcd[b][a] = Gcd[r][b]
      BY <2>3, <2>5, <3>1, GcdStep
    <3>5. g * b \in Nat \ {0} /\ g * a \in Nat
      BY <2>3, <2>5
    <3>6. Gcd[g * b][g * a] = Gcd[(g * a) % (g * b)][g * b]
      BY <3>5, GcdStep
    <3>7. (g * a) % (g * b) = g * r
      BY <2>3, <2>5, <3>1, RemainderScales
    <3>8. QED
      BY <2>2, <3>3, <3>4, <3>6, <3>7
  <2>6. QED
    BY <2>4, <2>5
<1>3. QED
  BY <1>1, <1>2

(* p / q has one form.                                                     *)
LEMMA NumberScales ==
  ASSUME NEW g \in Nat \ {0}, NEW p \in Int, NEW q \in Nat \ {0}
  PROVE  Number(g * p, g * q) = Number(p, q)
<1>1. Magnitude(p) \in Nat /\ Magnitude(g * p) = g * Magnitude(p)
  BY DEF Magnitude
<1>2. PICK m \in Nat : m = Magnitude(p)
  BY <1>1
<1>3. PICK h : h = Gcd[q][m]
  OBVIOUS
<1>4. h \in Nat \ {0} /\ Divides(h, m) /\ Divides(h, q)
  BY <1>3, GcdDivides
<1>5. Gcd[g * q][g * m] = g * h
  BY <1>3, GcdScales
<1>6. PICK k \in Int : p = h * k
  <2>1. PICK j \in Int : m = h * j
    BY <1>4 DEF Divides
  <2>2. p = m \/ p = - m
    BY <1>2 DEF Magnitude
  <2>3. p = h * j \/ p = h * (- j)
    BY <1>4, <2>1, <2>2
  <2>4. QED
    BY <2>1, <2>3
<1>7. PICK l \in Int : q = h * l
  BY <1>4 DEF Divides
<1>8. p \div h = k /\ q \div h = l
  BY <1>4, <1>6, <1>7
<1>9. PICK i \in Nat \ {0} : i = g * h
  BY <1>4
<1>10. g * p = i * k /\ g * q = i * l
  BY <1>4, <1>6, <1>7, <1>9
<1>11. (i * k) \div i = k /\ (i * l) \div i = l
  BY <1>9
<1>12. QED
  BY <1>1, <1>2, <1>3, <1>5, <1>8, <1>9, <1>10, <1>11 DEF Number

(* Equal quotients are the same fraction.                                  *)
LEMMA NumbersAgree ==
  ASSUME NEW p \in Int, NEW q \in Nat \ {0}, NEW a \in Int, NEW b \in Nat \ {0}, p * b = a * q
  PROVE  Number(p, q) = Number(a, b)
<1>1. Number(b * p, b * q) = Number(p, q) /\ Number(q * a, q * b) = Number(a, b)
  BY NumberScales
<1>2. b * p = q * a /\ b * q = q * b
  OBVIOUS
<1>3. QED
  BY <1>1, <1>2

(* A fraction in lowest terms, and what was cancelled.                     *)
LEMMA NumberForm ==
  ASSUME NEW p \in Int, NEW q \in Nat \ {0}
  PROVE  \E g \in Nat \ {0}, n \in Int, d \in Nat \ {0} :
           Number(p, q).num = n /\ Number(p, q).den = d /\ p = g * n /\ q = g * d
<1>1. PICK g \in Nat \ {0} :
        /\ Number(p, q).num \in Int /\ Number(p, q).den \in Nat \ {0}
        /\ p = g * Number(p, q).num /\ q = g * Number(p, q).den
  BY NumberProperties
<1>2. PICK n \in Int : n = Number(p, q).num
  BY <1>1
<1>3. PICK d \in Nat \ {0} : d = Number(p, q).den
  BY <1>1
<1>4. p = g * n /\ q = g * d
  BY <1>1, <1>2, <1>3
<1>5. QED
  BY <1>2, <1>3, <1>4

(* Sums, differences, products and quotients need not be in lowest terms   *)
(* before the last step.                                                   *)
LEMMA PlusOfNumbers ==
  ASSUME NEW a \in Int, NEW b \in Nat \ {0}, NEW c \in Int, NEW d \in Nat \ {0}
  PROVE  /\ Plus(Number(a, b), Number(c, d)) = Number(a * d + c * b, b * d)
         /\ Minus(Number(a, b), Number(c, d)) = Number(a * d - c * b, b * d)
         /\ Times(Number(a, b), Number(c, d)) = Number(a * c, b * d)
<1>1. PICK g \in Nat \ {0}, m \in Int, k \in Nat \ {0} :
        Number(a, b).num = m /\ Number(a, b).den = k /\ a = g * m /\ b = g * k
  BY NumberForm
<1>2. PICK h \in Nat \ {0}, n \in Int, l \in Nat \ {0} :
        Number(c, d).num = n /\ Number(c, d).den = l /\ c = h * n /\ d = h * l
  BY NumberForm
<1>3. /\ Plus(Number(a, b), Number(c, d)) = Number(m * l + n * k, k * l)
      /\ Minus(Number(a, b), Number(c, d)) = Number(m * l - n * k, k * l)
      /\ Times(Number(a, b), Number(c, d)) = Number(m * n, k * l)
  BY <1>1, <1>2 DEF Plus, Minus, Times
<1>4. PICK f \in Nat \ {0} : f = g * h
  OBVIOUS
<1>5. PICK q \in Nat \ {0} : q = k * l
  OBVIOUS
<1>6. /\ b * d = f * q
      /\ a * d + c * b = f * (m * l + n * k)
      /\ a * d - c * b = f * (m * l - n * k)
      /\ a * c = f * (m * n)
  BY <1>1, <1>2, <1>4, <1>5
<1>7. m * l + n * k \in Int /\ m * l - n * k \in Int /\ m * n \in Int
  OBVIOUS
<1>8. \A x \in Int : Number(f * x, f * q) = Number(x, q)
  BY NumberScales
<1>9. QED
  BY <1>3, <1>5, <1>6, <1>7, <1>8

LEMMA OverOfNumbers ==
  ASSUME NEW a \in Int, NEW b \in Nat \ {0}, NEW c \in Nat \ {0}, NEW d \in Nat \ {0}
  PROVE  Over(Number(a, b), Number(c, d)) = Number(a * d, b * c)
<1>1. PICK g \in Nat \ {0}, m \in Int, k \in Nat \ {0} :
        Number(a, b).num = m /\ Number(a, b).den = k /\ a = g * m /\ b = g * k
  BY NumberForm
<1>2. PICK h \in Nat \ {0}, n \in Int, l \in Nat \ {0} :
        Number(c, d).num = n /\ Number(c, d).den = l /\ c = h * n /\ d = h * l
  <2>1. c \in Int
    OBVIOUS
  <2>2. QED
    BY <2>1, NumberForm
<1>3. n > 0
  BY <1>2
<1>4. Over(Number(a, b), Number(c, d)) = Number(m * l, n * k)
  BY <1>1, <1>2, <1>3 DEF Over
<1>5. PICK f \in Nat \ {0} : f = g * h
  OBVIOUS
<1>6. PICK q \in Nat \ {0} : q = n * k
  BY <1>3
<1>7. b * c = f * q /\ a * d = f * (m * l) /\ m * l \in Int
  BY <1>1, <1>2, <1>5, <1>6
<1>8. \A x \in Int : Number(f * x, f * q) = Number(x, q)
  BY NumberScales
<1>9. QED
  BY <1>4, <1>6, <1>7, <1>8

-----------------------------------------------------------------------------
(* Matrices over a common denominator                                      *)

Matrix(a, b, c, d, q) == <<<<Number(a, q), Number(b, q)>>, <<Number(c, q), Number(d, q)>>>>
Vector(a, b, q) == <<<<Number(a, q)>>, <<Number(b, q)>>>>
Single(a, q) == <<<<Number(a, q)>>>>

(* What Product adds up for one entry, where the matrices share two lines, *)
(* or one.                                                                 *)
Dot(x, u, y, v) == SumOf(<<Times(x, u), Times(y, v)>>)
Alone(x, u) == SumOf(<<Times(x, u)>>)

(* Over a common denominator, numerators are added.                        *)
LEMMA ScaledSum ==
  ASSUME NEW a \in Int, NEW b \in Int, NEW q \in Nat \ {0}
  PROVE  /\ Plus(Number(a, q), Number(b, q)) = Number(a + b, q)
         /\ Minus(Number(a, q), Number(b, q)) = Number(a - b, q)
         /\ Plus(Zero, Number(a, q)) = Number(a, q)
<1>1. PICK s \in Int : s = a * q + b * q
  OBVIOUS
<1>2. PICK r \in Int : r = a * q - b * q
  OBVIOUS
<1>3. PICK d \in Nat \ {0} : d = q * q
  OBVIOUS
<1>4. /\ Plus(Number(a, q), Number(b, q)) = Number(s, d)
      /\ Minus(Number(a, q), Number(b, q)) = Number(r, d)
  BY <1>1, <1>2, <1>3, PlusOfNumbers
<1>5. s * q = (a + b) * d /\ r * q = (a - b) * d
  BY <1>1, <1>2, <1>3
<1>6. a + b \in Int /\ a - b \in Int
  OBVIOUS
<1>7. Number(s, d) = Number(a + b, q) /\ Number(r, d) = Number(a - b, q)
  BY <1>5, <1>6, NumbersAgree
<1>8. Plus(Number(0, 1), Number(a, q)) = Number(0 * q + a * 1, 1 * q)
  BY PlusOfNumbers
<1>9. 0 * q + a * 1 = a /\ 1 * q = q
  OBVIOUS
<1>10. QED
  BY <1>4, <1>7, <1>8, <1>9 DEF Zero

(* SumOf over two numbers and over one                                     *)
LEMMA SumOfFew ==
  ASSUME NEW x, NEW y
  PROVE  /\ SumOf(<<x, y>>) = Plus(Plus(Zero, x), y)
         /\ SumOf(<<x>>) = Plus(Zero, x)
<1>1. SumOf(<<x, y>>) = Plus(Plus(Zero, x), y)
  <2>1. Len(<<x, y>>) = 2 /\ 2 \in Nat
    OBVIOUS
  <2>2. PICK sum : IsSum(sum, <<x, y>>, 2) /\ SumOf(<<x, y>>) = sum[2]
    BY <2>1, SumOfProperties
  <2>3. sum[0] = Zero /\ sum[1] = Plus(sum[0], x) /\ sum[2] = Plus(sum[1], y)
    BY <2>2 DEF IsSum
  <2>4. QED
    BY <2>2, <2>3
<1>2. SumOf(<<x>>) = Plus(Zero, x)
  <2>1. Len(<<x>>) = 1 /\ 1 \in Nat
    OBVIOUS
  <2>2. PICK sum : IsSum(sum, <<x>>, 1) /\ SumOf(<<x>>) = sum[1]
    BY <2>1, SumOfProperties
  <2>3. sum[0] = Zero /\ sum[1] = Plus(sum[0], x)
    BY <2>2 DEF IsSum
  <2>4. QED
    BY <2>2, <2>3
<1>3. QED
  BY <1>1, <1>2

(* Integers over a common denominator.                                     *)
Cells(a, b, c, d, q) == a \in Int /\ b \in Int /\ c \in Int /\ d \in Int /\ q \in Nat \ {0}
Pair(a, b, q) == a \in Int /\ b \in Int /\ q \in Nat \ {0}

(* One entry of a product                                                  *)
LEMMA DotOfNumbers ==
  ASSUME NEW a, NEW b, NEW p, NEW c, NEW d, NEW q, Pair(a, b, p), Pair(c, d, q)
  PROVE  Dot(Number(a, p), Number(c, q), Number(b, p), Number(d, q)) = Number(a * c + b * d, p * q)
<1>1. /\ a \in Int /\ b \in Int /\ p \in Nat \ {0}
      /\ c \in Int /\ d \in Int /\ q \in Nat \ {0}
  BY DEF Pair
<1>2. /\ Times(Number(a, p), Number(c, q)) = Number(a * c, p * q)
      /\ Times(Number(b, p), Number(d, q)) = Number(b * d, p * q)
  BY <1>1, PlusOfNumbers
<1>3. PICK x \in Int, y \in Int : x = a * c /\ y = b * d
  BY <1>1
<1>4. PICK z \in Nat \ {0} : z = p * q
  BY <1>1
<1>5. Plus(Zero, Number(x, z)) = Number(x, z) /\ Plus(Number(x, z), Number(y, z)) = Number(x + y, z)
  BY ScaledSum
<1>6. Times(Number(a, p), Number(c, q)) = Number(x, z) /\ Times(Number(b, p), Number(d, q)) = Number(y, z)
  BY <1>2, <1>3, <1>4
<1>7. Dot(Number(a, p), Number(c, q), Number(b, p), Number(d, q)) =
        Plus(Plus(Zero, Number(x, z)), Number(y, z))
  BY <1>6, SumOfFew DEF Dot
<1>8. QED
  BY <1>3, <1>4, <1>5, <1>7

LEMMA AloneOfNumbers ==
  ASSUME NEW a, NEW p, NEW c, NEW q, Pair(a, c, p), Pair(a, c, q)
  PROVE  Alone(Number(a, p), Number(c, q)) = Number(a * c, p * q)
<1>1. a \in Int /\ p \in Nat \ {0} /\ c \in Int /\ q \in Nat \ {0}
  BY DEF Pair
<1>2. Times(Number(a, p), Number(c, q)) = Number(a * c, p * q)
  BY <1>1, PlusOfNumbers
<1>3. PICK x \in Int : x = a * c
  BY <1>1
<1>4. PICK z \in Nat \ {0} : z = p * q
  BY <1>1
<1>5. Plus(Zero, Number(x, z)) = Number(x, z)
  BY ScaledSum
<1>6. QED
  BY <1>2, <1>3, <1>4, <1>5, SumOfFew DEF Alone

(* Product, Transposed, Sum, Difference, Diagonal and Column of the shapes *)
(* a filter with a position and a velocity has                             *)
LEMMA ProductShapes ==
  /\ \A a, b, c, d, e, f, g, h :
       Product(<<<<a, b>>, <<c, d>>>>, <<<<e, f>>, <<g, h>>>>) =
         <<<<Dot(a, e, b, g), Dot(a, f, b, h)>>, <<Dot(c, e, d, g), Dot(c, f, d, h)>>>>
  /\ \A a, b, c, d, e, f :
       Product(<<<<a, b>>, <<c, d>>>>, <<<<e>>, <<f>>>>) = <<<<Dot(a, e, b, f)>>, <<Dot(c, e, d, f)>>>>
  /\ \A a, b, e, f, g, h :
       Product(<<<<a, b>>>>, <<<<e, f>>, <<g, h>>>>) = <<<<Dot(a, e, b, g), Dot(a, f, b, h)>>>>
  /\ \A a, b, e, f : Product(<<<<a, b>>>>, <<<<e>>, <<f>>>>) = <<<<Dot(a, e, b, f)>>>>
  /\ \A a, b, e, f :
       Product(<<<<a>>, <<b>>>>, <<<<e, f>>>>) =
         <<<<Alone(a, e), Alone(a, f)>>, <<Alone(b, e), Alone(b, f)>>>>
  /\ \A a, b, e : Product(<<<<a>>, <<b>>>>, <<<<e>>>>) = <<<<Alone(a, e)>>, <<Alone(b, e)>>>>
<1>1. \A a, b, c, d, e, f, g, h :
        Product(<<<<a, b>>, <<c, d>>>>, <<<<e, f>>, <<g, h>>>>) =
          <<<<Dot(a, e, b, g), Dot(a, f, b, h)>>, <<Dot(c, e, d, g), Dot(c, f, d, h)>>>>
  BY DEF Product, Dot
<1>2. \A a, b, c, d, e, f :
        Product(<<<<a, b>>, <<c, d>>>>, <<<<e>>, <<f>>>>) = <<<<Dot(a, e, b, f)>>, <<Dot(c, e, d, f)>>>>
  BY DEF Product, Dot
<1>3. \A a, b, e, f, g, h :
        Product(<<<<a, b>>>>, <<<<e, f>>, <<g, h>>>>) = <<<<Dot(a, e, b, g), Dot(a, f, b, h)>>>>
  BY DEF Product, Dot
<1>4. \A a, b, e, f : Product(<<<<a, b>>>>, <<<<e>>, <<f>>>>) = <<<<Dot(a, e, b, f)>>>>
  BY DEF Product, Dot
<1>5. \A a, b, e, f :
        Product(<<<<a>>, <<b>>>>, <<<<e, f>>>>) =
          <<<<Alone(a, e), Alone(a, f)>>, <<Alone(b, e), Alone(b, f)>>>>
  BY DEF Product, Alone
<1>6. \A a, b, e : Product(<<<<a>>, <<b>>>>, <<<<e>>>>) = <<<<Alone(a, e)>>, <<Alone(b, e)>>>>
  BY DEF Product, Alone
<1>7. QED
  BY <1>1, <1>2, <1>3, <1>4, <1>5, <1>6

LEMMA TransposedShapes ==
  /\ \A a, b, c, d : Transposed(<<<<a, b>>, <<c, d>>>>) = <<<<a, c>>, <<b, d>>>>
  /\ \A a, b : Transposed(<<<<a, b>>>>) = <<<<a>>, <<b>>>>
  /\ \A a, b : Transposed(<<<<a>>, <<b>>>>) = <<<<a, b>>>>
<1>1. \A a, b, c, d : Transposed(<<<<a, b>>, <<c, d>>>>) = <<<<a, c>>, <<b, d>>>>
  BY DEF Transposed
<1>2. \A a, b : Transposed(<<<<a, b>>>>) = <<<<a>>, <<b>>>>
  BY DEF Transposed
<1>3. \A a, b : Transposed(<<<<a>>, <<b>>>>) = <<<<a, b>>>>
  BY DEF Transposed
<1>4. QED
  BY <1>1, <1>2, <1>3

LEMMA SumShapes ==
  /\ \A a, b, c, d, e, f, g, h :
       /\ Sum(<<<<a, b>>, <<c, d>>>>, <<<<e, f>>, <<g, h>>>>) =
            <<<<Plus(a, e), Plus(b, f)>>, <<Plus(c, g), Plus(d, h)>>>>
       /\ Difference(<<<<a, b>>, <<c, d>>>>, <<<<e, f>>, <<g, h>>>>) =
            <<<<Minus(a, e), Minus(b, f)>>, <<Minus(c, g), Minus(d, h)>>>>
  /\ \A a, b, e, f : Sum(<<<<a>>, <<b>>>>, <<<<e>>, <<f>>>>) = <<<<Plus(a, e)>>, <<Plus(b, f)>>>>
  /\ \A a, e : Sum(<<<<a>>>>, <<<<e>>>>) = <<<<Plus(a, e)>>>>
  /\ \A a, e : Difference(<<<<a>>>>, <<<<e>>>>) = <<<<Minus(a, e)>>>>
<1>1. \A a, b, c, d, e, f, g, h :
        Sum(<<<<a, b>>, <<c, d>>>>, <<<<e, f>>, <<g, h>>>>) =
          <<<<Plus(a, e), Plus(b, f)>>, <<Plus(c, g), Plus(d, h)>>>>
  BY DEF Sum, Entrywise
<1>2. \A a, b, c, d, e, f, g, h :
        Difference(<<<<a, b>>, <<c, d>>>>, <<<<e, f>>, <<g, h>>>>) =
          <<<<Minus(a, e), Minus(b, f)>>, <<Minus(c, g), Minus(d, h)>>>>
  BY DEF Difference, Entrywise
<1>3. \A a, b, e, f : Sum(<<<<a>>, <<b>>>>, <<<<e>>, <<f>>>>) = <<<<Plus(a, e)>>, <<Plus(b, f)>>>>
  BY DEF Sum, Entrywise
<1>4. \A a, e : Sum(<<<<a>>>>, <<<<e>>>>) = <<<<Plus(a, e)>>>>
  BY DEF Sum, Entrywise
<1>5. \A a, e : Difference(<<<<a>>>>, <<<<e>>>>) = <<<<Minus(a, e)>>>>
  BY DEF Difference, Entrywise
<1>6. QED
  BY <1>1, <1>2, <1>3, <1>4, <1>5

LEMMA DiagonalShapes ==
  /\ \A x, y : Diagonal(<<x, y>>) = <<<<x, Zero>>, <<Zero, y>>>>
  /\ Identity(2) = <<<<One, Zero>>, <<Zero, One>>>>
  /\ Identity(1) = <<<<One>>>>
  /\ \A x, y : Column(<<x, y>>) = <<<<x>>, <<y>>>>
  /\ \A x : Column(<<x>>) = <<<<x>>>>
<1>1. \A x, y : Diagonal(<<x, y>>) = <<<<x, Zero>>, <<Zero, y>>>>
  BY DEF Diagonal
<1>2. \A u : Diagonal(<<u>>) = <<<<u>>>>
  BY DEF Diagonal
<1>3. [i \in 1 .. 2 |-> One] = <<One, One>> /\ [i \in 1 .. 1 |-> One] = <<One>>
  OBVIOUS
<1>4. Identity(2) = <<<<One, Zero>>, <<Zero, One>>>> /\ Identity(1) = <<<<One>>>>
  BY <1>1, <1>2, <1>3 DEF Identity
<1>5. \A x, y : Column(<<x, y>>) = <<<<x>>, <<y>>>>
  BY DEF Column
<1>6. \A x : Column(<<x>>) = <<<<x>>>>
  BY DEF Column
<1>7. QED
  BY <1>1, <1>4, <1>5, <1>6

(* The denominator may be scaled with the entries.                         *)
LEMMA RescaledMatrix ==
  ASSUME NEW k \in Nat \ {0}, NEW a, NEW b, NEW c, NEW d, NEW q, Cells(a, b, c, d, q)
  PROVE  Matrix(k * a, k * b, k * c, k * d, k * q) = Matrix(a, b, c, d, q)
BY NumberScales DEF Matrix, Cells

LEMMA RescaledVector ==
  ASSUME NEW k \in Nat \ {0}, NEW a, NEW b, NEW q, Pair(a, b, q)
  PROVE  Vector(k * a, k * b, k * q) = Vector(a, b, q)
BY NumberScales DEF Vector, Pair

(* Products                                                                *)
LEMMA MatrixTimesMatrix ==
  ASSUME NEW a, NEW b, NEW c, NEW d, NEW p, NEW e, NEW f, NEW g, NEW h, NEW q,
         Cells(a, b, c, d, p), Cells(e, f, g, h, q)
  PROVE  Product(Matrix(a, b, c, d, p), Matrix(e, f, g, h, q)) =
           Matrix(a * e + b * g, a * f + b * h, c * e + d * g, c * f + d * h, p * q)
<1>1. Pair(a, b, p) /\ Pair(c, d, p) /\ Pair(e, g, q) /\ Pair(f, h, q)
  BY DEF Cells, Pair
<1>2. /\ Dot(Number(a, p), Number(e, q), Number(b, p), Number(g, q)) = Number(a * e + b * g, p * q)
      /\ Dot(Number(a, p), Number(f, q), Number(b, p), Number(h, q)) = Number(a * f + b * h, p * q)
      /\ Dot(Number(c, p), Number(e, q), Number(d, p), Number(g, q)) = Number(c * e + d * g, p * q)
      /\ Dot(Number(c, p), Number(f, q), Number(d, p), Number(h, q)) = Number(c * f + d * h, p * q)
  BY <1>1, DotOfNumbers
<1>3. QED
  BY <1>2, ProductShapes DEF Matrix

LEMMA MatrixTimesVector ==
  ASSUME NEW a, NEW b, NEW c, NEW d, NEW p, NEW e, NEW f, NEW q,
         Cells(a, b, c, d, p), Pair(e, f, q)
  PROVE  Product(Matrix(a, b, c, d, p), Vector(e, f, q)) = Vector(a * e + b * f, c * e + d * f, p * q)
<1>1. Pair(a, b, p) /\ Pair(c, d, p)
  BY DEF Cells, Pair
<1>2. /\ Dot(Number(a, p), Number(e, q), Number(b, p), Number(f, q)) = Number(a * e + b * f, p * q)
      /\ Dot(Number(c, p), Number(e, q), Number(d, p), Number(f, q)) = Number(c * e + d * f, p * q)
  BY <1>1, DotOfNumbers
<1>3. QED
  BY <1>2, ProductShapes DEF Matrix, Vector

LEMMA TransposedVector ==
  ASSUME NEW a, NEW b, NEW q
  PROVE  Transposed(Vector(a, b, q)) = <<<<Number(a, q), Number(b, q)>>>>
BY TransposedShapes DEF Vector

LEMMA RowTimesMatrix ==
  ASSUME NEW a, NEW b, NEW p, NEW e, NEW f, NEW g, NEW h, NEW q,
         Pair(a, b, p), Cells(e, f, g, h, q)
  PROVE  Product(Transposed(Vector(a, b, p)), Matrix(e, f, g, h, q)) =
           Transposed(Vector(a * e + b * g, a * f + b * h, p * q))
<1>1. Pair(e, g, q) /\ Pair(f, h, q)
  BY DEF Cells, Pair
<1>2. /\ Dot(Number(a, p), Number(e, q), Number(b, p), Number(g, q)) = Number(a * e + b * g, p * q)
      /\ Dot(Number(a, p), Number(f, q), Number(b, p), Number(h, q)) = Number(a * f + b * h, p * q)
  BY <1>1, DotOfNumbers
<1>3. QED
  BY <1>2, ProductShapes, TransposedVector DEF Matrix

LEMMA RowTimesVector ==
  ASSUME NEW a, NEW b, NEW p, NEW e, NEW f, NEW q, Pair(a, b, p), Pair(e, f, q)
  PROVE  Product(Transposed(Vector(a, b, p)), Vector(e, f, q)) = Single(a * e + b * f, p * q)
<1>1. Dot(Number(a, p), Number(e, q), Number(b, p), Number(f, q)) = Number(a * e + b * f, p * q)
  BY DotOfNumbers
<1>2. QED
  BY <1>1, ProductShapes, TransposedVector DEF Vector, Single

LEMMA VectorTimesRow ==
  ASSUME NEW a, NEW b, NEW p, NEW e, NEW f, NEW q, Pair(a, b, p), Pair(e, f, q)
  PROVE  Product(Vector(a, b, p), Transposed(Vector(e, f, q))) = Matrix(a * e, a * f, b * e, b * f, p * q)
<1>1. /\ Pair(a, e, p) /\ Pair(a, e, q) /\ Pair(a, f, p) /\ Pair(a, f, q)
      /\ Pair(b, e, p) /\ Pair(b, e, q) /\ Pair(b, f, p) /\ Pair(b, f, q)
  BY DEF Pair
<1>2. /\ Alone(Number(a, p), Number(e, q)) = Number(a * e, p * q)
      /\ Alone(Number(a, p), Number(f, q)) = Number(a * f, p * q)
      /\ Alone(Number(b, p), Number(e, q)) = Number(b * e, p * q)
      /\ Alone(Number(b, p), Number(f, q)) = Number(b * f, p * q)
  BY <1>1, AloneOfNumbers
<1>3. QED
  BY <1>2, ProductShapes, TransposedVector DEF Matrix, Vector

LEMMA VectorTimesSingle ==
  ASSUME NEW a, NEW b, NEW p, NEW e, NEW q, Pair(a, b, p), Pair(e, e, q)
  PROVE  Product(Vector(a, b, p), Single(e, q)) = Vector(a * e, b * e, p * q)
<1>1. Pair(a, e, p) /\ Pair(a, e, q) /\ Pair(b, e, p) /\ Pair(b, e, q)
  BY DEF Pair
<1>2. /\ Alone(Number(a, p), Number(e, q)) = Number(a * e, p * q)
      /\ Alone(Number(b, p), Number(e, q)) = Number(b * e, p * q)
  BY <1>1, AloneOfNumbers
<1>3. QED
  BY <1>2, ProductShapes DEF Vector, Single

(* Sums and differences                                                    *)
LEMMA SumsOfMatrices ==
  ASSUME NEW a, NEW b, NEW c, NEW d, NEW e, NEW f, NEW g, NEW h, NEW q,
         Cells(a, b, c, d, q), Cells(e, f, g, h, q)
  PROVE  /\ Sum(Matrix(a, b, c, d, q), Matrix(e, f, g, h, q)) = Matrix(a + e, b + f, c + g, d + h, q)
         /\ Difference(Matrix(a, b, c, d, q), Matrix(e, f, g, h, q)) = Matrix(a - e, b - f, c - g, d - h, q)
<1>1. /\ Plus(Number(a, q), Number(e, q)) = Number(a + e, q)
      /\ Plus(Number(b, q), Number(f, q)) = Number(b + f, q)
      /\ Plus(Number(c, q), Number(g, q)) = Number(c + g, q)
      /\ Plus(Number(d, q), Number(h, q)) = Number(d + h, q)
  BY ScaledSum DEF Cells
<1>2. /\ Minus(Number(a, q), Number(e, q)) = Number(a - e, q)
      /\ Minus(Number(b, q), Number(f, q)) = Number(b - f, q)
      /\ Minus(Number(c, q), Number(g, q)) = Number(c - g, q)
      /\ Minus(Number(d, q), Number(h, q)) = Number(d - h, q)
  BY ScaledSum DEF Cells
<1>3. Sum(Matrix(a, b, c, d, q), Matrix(e, f, g, h, q)) = Matrix(a + e, b + f, c + g, d + h, q)
  BY <1>1, SumShapes DEF Matrix
<1>4. Difference(Matrix(a, b, c, d, q), Matrix(e, f, g, h, q)) = Matrix(a - e, b - f, c - g, d - h, q)
  BY <1>2, SumShapes DEF Matrix
<1>5. QED
  BY <1>3, <1>4

LEMMA SumOfVectors ==
  ASSUME NEW a, NEW b, NEW e, NEW f, NEW q, Pair(a, b, q), Pair(e, f, q)
  PROVE  Sum(Vector(a, b, q), Vector(e, f, q)) = Vector(a + e, b + f, q)
<1>1. /\ Plus(Number(a, q), Number(e, q)) = Number(a + e, q)
      /\ Plus(Number(b, q), Number(f, q)) = Number(b + f, q)
  BY ScaledSum DEF Pair
<1>2. QED
  BY <1>1, SumShapes DEF Vector

LEMMA SumOfSingles ==
  ASSUME NEW a, NEW e, NEW q, Pair(a, e, q)
  PROVE  /\ Sum(Single(a, q), Single(e, q)) = Single(a + e, q)
         /\ Difference(Single(a, q), Single(e, q)) = Single(a - e, q)
<1>1. /\ Plus(Number(a, q), Number(e, q)) = Number(a + e, q)
      /\ Minus(Number(a, q), Number(e, q)) = Number(a - e, q)
  BY ScaledSum DEF Pair
<1>2. QED
  BY <1>1, SumShapes DEF Single

=============================================================================
