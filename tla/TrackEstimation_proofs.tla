------------------------ MODULE TrackEstimation_proofs ------------------------
(***************************************************************************)
(* Theorems about TrackEstimation, for any set of tracks, any whole places *)
(* and elapsed times, and any number of measurements: the filter of a      *)
(* track is its own, and its state and covariance are fractions over       *)
(* common denominators that keep a positive determinant.                   *)
(***************************************************************************)
EXTENDS TrackEstimation, Fractions_proofs, SequenceTheorems

-----------------------------------------------------------------------------
(* The filter's constant matrices                                          *)
LEMMA ModelMatrices ==
  /\ transitionModel = Matrix(1, 1, 0, 1, 1) /\ Transposed(transitionModel) = Matrix(1, 0, 1, 1, 1)
  /\ measurementModel = Transposed(Vector(1, 1, 1)) /\ Transposed(measurementModel) = Vector(1, 1, 1)
  /\ Len(measurementModel) = 1
  /\ measurementNoise = Single(1, 1)
  /\ \A q \in Nat \ {0} : Identity(2) = Matrix(q, 0, 0, q, q) /\ Identity(1) = Single(q, q)
<1>1. transitionModel = Matrix(1, 1, 0, 1, 1) /\ Transposed(transitionModel) = Matrix(1, 0, 1, 1, 1)
  <2>1. transitionModel = Matrix(1, 1, 0, 1, 1)
    BY DEF transitionModel, Matrix, Zero, One
  <2>2. Transposed(Matrix(1, 1, 0, 1, 1)) = Matrix(1, 0, 1, 1, 1)
    BY TransposedShapes DEF Matrix
  <2>3. QED
    BY <2>1, <2>2
<1>2. measurementModel = Transposed(Vector(1, 1, 1)) /\ Transposed(measurementModel) = Vector(1, 1, 1)
  BY TransposedShapes DEF measurementModel, Vector, One
<1>3. Len(measurementModel) = 1
  BY DEF measurementModel
<1>4. ASSUME NEW q \in Nat \ {0}
      PROVE  Identity(2) = Matrix(q, 0, 0, q, q) /\ Identity(1) = Single(q, q)
  <2>1. Number(q, q) = One
    <3>1. q \in Int /\ q * 1 = 1 * q
      OBVIOUS
    <3>2. QED
      BY <3>1, NumbersAgree DEF One
  <2>2. Number(0, q) = Zero
    BY SmallNumbers
  <2>3. QED
    BY <2>1, <2>2, DiagonalShapes DEF Matrix, Single
<1>5. measurementNoise = Single(1, 1)
  BY <1>4 DEF measurementNoise
<1>6. QED
  BY <1>1, <1>2, <1>3, <1>4, <1>5

-----------------------------------------------------------------------------
(* One filter                                                              *)

(* The covariance of an uncertain state in integers: positive definite,    *)
(* and position and velocity are not set against each other.               *)
Uncertain(a, b, c, d) ==
  /\ a \in Nat \ {0} /\ b \in Nat /\ c \in Nat \ {0} /\ d \in Nat \ {0}
  /\ a * c > b * b

(* A filter that has predicted.                                            *)
Expects(f, m, v, n, a, b, c, d) ==
  /\ DOMAIN f = DOMAIN Prototype /\ f.initialized = TRUE
  /\ Pair(m, v, n) /\ f.predictedState = Vector(m, v, n)
  /\ Uncertain(a, b, c, d) /\ f.predictedCovarianceError = Matrix(a, b, b, c, d)

(* Less compares the cross products.                                       *)
LEMMA NumbersCompare ==
  ASSUME NEW p \in Int, NEW q \in Nat \ {0}, NEW a \in Int, NEW b \in Nat \ {0}
  PROVE  Less(Number(p, q), Number(a, b)) <=> p * b < a * q
<1>1. AtMost(Number(a, b), Number(p, q)) <=> a * q <= p * b
  BY NumbersOrder
<1>2. /\ Number(p, q).num \in Int /\ Number(p, q).den \in Int
      /\ Number(a, b).num \in Int /\ Number(a, b).den \in Int
  BY NumberIsFraction DEF Fraction
<1>3. Less(Number(p, q), Number(a, b)) <=> ~ AtMost(Number(a, b), Number(p, q))
  <2>1. \A x, y \in Int : x < y <=> ~ (y <= x)
    OBVIOUS
  <2>2. QED
    BY <1>2, <2>1 DEF Less, AtMost
<1>4. a * q \in Int /\ p * b \in Int
  OBVIOUS
<1>5. QED
  BY <1>1, <1>3, <1>4

(* The matrix that is inverted has one entry, above 0.                     *)
LEMMA InverseOfSingle ==
  ASSUME NEW s \in Nat \ {0}, NEW d \in Nat \ {0}
  PROVE  InvertMatrix(Single(s, d)) = Single(d, s) /\ IsInvertible(Single(s, d))
<1>1. Over(Number(1, 1), Number(s, d)) = Number(1 * d, 1 * s)
  BY OverOfNumbers
<1>2. 1 * d = d /\ 1 * s = s
  OBVIOUS
<1>3. InvertMatrix(Single(s, d)) = Single(d, s)
  BY <1>1, <1>2 DEF InvertMatrix, Single, One
<1>4. Number(s, d) # Zero
  <2>1. Less(Number(0, 1), Number(s, d)) <=> 0 * d < s * 1
    BY NumbersCompare
  <2>2. 0 * d < s * 1
    OBVIOUS
  <2>3. ~ Less(Zero, Zero)
    BY SmallNumbers DEF Less
  <2>4. QED
    BY <2>1, <2>2, <2>3 DEF Zero
<1>5. QED
  BY <1>3, <1>4 DEF IsInvertible, Single

(* The parts of a correction: what is inverted, the gain, the covariance,  *)
(* the state                                                               *)
LEMMA BottomIs ==
  ASSUME NEW f, NEW m, NEW v, NEW n, NEW a, NEW b, NEW c, NEW d, Expects(f, m, v, n, a, b, c, d)
  PROVE  /\ Bottom(f) = Single(a + 2 * b + c + d, d)
         /\ Product(f.predictedCovarianceError, Transposed(measurementModel)) = Vector(a + b, b + c, d)
<1>1. a \in Int /\ b \in Int /\ c \in Int /\ d \in Nat \ {0}
  BY DEF Expects, Uncertain
<1>2. Cells(a, b, b, c, d) /\ Pair(1, 1, 1)
  BY <1>1 DEF Cells, Pair
<1>3. Product(Matrix(a, b, b, c, d), Vector(1, 1, 1)) = Vector(a + b, b + c, d)
  <2>1. Product(Matrix(a, b, b, c, d), Vector(1, 1, 1)) = Vector(a * 1 + b * 1, b * 1 + c * 1, d * 1)
    BY <1>2, MatrixTimesVector
  <2>2. a * 1 + b * 1 = a + b /\ b * 1 + c * 1 = b + c /\ d * 1 = d
    BY <1>1
  <2>3. QED
    BY <2>1, <2>2
<1>4. Product(Transposed(Vector(1, 1, 1)), Matrix(a, b, b, c, d)) = Transposed(Vector(a + b, b + c, d))
  <2>1. Product(Transposed(Vector(1, 1, 1)), Matrix(a, b, b, c, d)) =
          Transposed(Vector(1 * a + 1 * b, 1 * b + 1 * c, 1 * d))
    BY <1>2, RowTimesMatrix
  <2>2. 1 * a + 1 * b = a + b /\ 1 * b + 1 * c = b + c /\ 1 * d = d
    BY <1>1
  <2>3. QED
    BY <2>1, <2>2
<1>5. Product(Transposed(Vector(a + b, b + c, d)), Vector(1, 1, 1)) = Single(a + 2 * b + c, d)
  <2>1. Pair(a + b, b + c, d)
    BY <1>1 DEF Pair
  <2>2. Product(Transposed(Vector(a + b, b + c, d)), Vector(1, 1, 1)) =
          Single((a + b) * 1 + (b + c) * 1, d * 1)
    BY <1>2, <2>1, RowTimesVector
  <2>3. (a + b) * 1 + (b + c) * 1 = a + 2 * b + c /\ d * 1 = d
    BY <1>1
  <2>4. QED
    BY <2>2, <2>3
<1>6. measurementNoise = Single(d, d)
  BY <1>1, ModelMatrices DEF measurementNoise
<1>7. Sum(Single(a + 2 * b + c, d), Single(d, d)) = Single(a + 2 * b + c + d, d)
  <2>1. PICK s \in Int : s = a + 2 * b + c
    BY <1>1
  <2>2. Pair(s, d, d)
    BY <1>1, <2>1 DEF Pair
  <2>3. Sum(Single(s, d), Single(d, d)) = Single(s + d, d)
    BY <2>2, SumOfSingles
  <2>4. QED
    BY <2>1, <2>3
<1>8. QED
  BY <1>3, <1>4, <1>5, <1>6, <1>7, ModelMatrices DEF Bottom, Expects

LEMMA GainIs ==
  ASSUME NEW f, NEW m, NEW v, NEW n, NEW a, NEW b, NEW c, NEW d, Expects(f, m, v, n, a, b, c, d),
         NEW s, s = a + 2 * b + c + d
  PROVE  /\ s \in Nat \ {0} /\ Gain(f) = Vector(a + b, b + c, s) /\ IsInvertible(Bottom(f))
         /\ Product(Gain(f), measurementModel) = Matrix(a + b, a + b, b + c, b + c, s)
         /\ Difference(Identity(2), Product(Gain(f), measurementModel)) =
              Matrix(b + c + d, - (a + b), - (b + c), a + b + d, s)
<1>1. a \in Int /\ b \in Int /\ c \in Int /\ d \in Nat \ {0}
  BY DEF Expects, Uncertain
<1>2. s \in Nat \ {0}
  BY DEF Expects, Uncertain
<1>3. InvertMatrix(Bottom(f)) = Single(d, s) /\ IsInvertible(Bottom(f))
  BY <1>1, <1>2, BottomIs, InverseOfSingle
<1>4. PICK k \in Int, l \in Int : k = a + b /\ l = b + c
  BY <1>1
<1>5. Product(Vector(k, l, d), Single(d, s)) = Vector(k, l, s)
  <2>1. Pair(k, l, d) /\ Pair(d, d, s)
    BY <1>1, <1>2 DEF Pair
  <2>2. Product(Vector(k, l, d), Single(d, s)) = Vector(k * d, l * d, d * s)
    BY <2>1, VectorTimesSingle
  <2>3. Vector(d * k, d * l, d * s) = Vector(k, l, s)
    <3>1. Pair(k, l, s)
      BY <1>2 DEF Pair
    <3>2. QED
      BY <1>1, <3>1, RescaledVector
  <2>4. k * d = d * k /\ l * d = d * l
    BY <1>1
  <2>5. QED
    BY <2>2, <2>3, <2>4
<1>6. Gain(f) = Vector(k, l, s)
  BY <1>3, <1>4, <1>5, BottomIs DEF Gain
<1>7. Product(Vector(k, l, s), Transposed(Vector(1, 1, 1))) = Matrix(k, k, l, l, s)
  <2>1. Pair(k, l, s) /\ Pair(1, 1, 1)
    BY <1>2 DEF Pair
  <2>2. Product(Vector(k, l, s), Transposed(Vector(1, 1, 1))) =
          Matrix(k * 1, k * 1, l * 1, l * 1, s * 1)
    BY <2>1, VectorTimesRow
  <2>3. k * 1 = k /\ l * 1 = l /\ s * 1 = s
    BY <1>2
  <2>4. QED
    BY <2>2, <2>3
<1>8. Product(Gain(f), measurementModel) = Matrix(k, k, l, l, s)
  BY <1>6, <1>7, ModelMatrices
<1>9. Difference(Matrix(s, 0, 0, s, s), Matrix(k, k, l, l, s)) = Matrix(s - k, 0 - k, 0 - l, s - l, s)
  <2>1. Cells(s, 0, 0, s, s) /\ Cells(k, k, l, l, s)
    BY <1>2 DEF Cells
  <2>2. QED
    BY <2>1, SumsOfMatrices
<1>10. /\ s - k = b + c + d /\ 0 - k = - (a + b)
       /\ 0 - l = - (b + c) /\ s - l = a + b + d
  BY <1>1, <1>4
<1>11. Identity(2) = Matrix(s, 0, 0, s, s)
  BY <1>2, ModelMatrices
<1>12. Difference(Identity(2), Product(Gain(f), measurementModel)) =
         Matrix(b + c + d, - (a + b), - (b + c), a + b + d, s)
  BY <1>8, <1>9, <1>10, <1>11
<1>13. QED
  BY <1>2, <1>3, <1>4, <1>6, <1>8, <1>12

LEMMA CovarianceIs ==
  ASSUME NEW f, NEW m, NEW v, NEW n, NEW a, NEW b, NEW c, NEW d, Expects(f, m, v, n, a, b, c, d),
         NEW s, s = a + 2 * b + c + d, NEW e, e = a * c - b * b, NEW q, q = s * d, NEW z
  PROVE  Correct(f, z).correctedCovarianceError =
           Matrix(e + a * d, b * d - e, b * d - e, e + c * d, q)
<1>1. a \in Int /\ b \in Int /\ c \in Int /\ d \in Nat \ {0} /\ s \in Nat \ {0}
  BY DEF Expects, Uncertain
<1>2. Difference(Identity(2), Product(Gain(f), measurementModel)) =
        Matrix(b + c + d, - (a + b), - (b + c), a + b + d, s)
  BY GainIs
<1>3. PICK g \in Int, h \in Int, k \in Int, l \in Int :
        g = b + c + d /\ h = - (a + b) /\ k = - (b + c) /\ l = a + b + d
  BY <1>1
<1>4. Cells(g, h, k, l, s) /\ Cells(a, b, b, c, d)
  BY <1>1 DEF Cells
<1>5. Product(Matrix(g, h, k, l, s), Matrix(a, b, b, c, d)) =
        Matrix(g * a + h * b, g * b + h * c, k * a + l * b, k * b + l * c, s * d)
  BY <1>4, MatrixTimesMatrix
<1>6. /\ g * a + h * b = e + a * d /\ g * b + h * c = b * d - e
      /\ k * a + l * b = b * d - e /\ k * b + l * c = e + c * d
  BY <1>1, <1>3
<1>7. Product(Matrix(b + c + d, - (a + b), - (b + c), a + b + d, s), f.predictedCovarianceError) =
        Matrix(e + a * d, b * d - e, b * d - e, e + c * d, q)
  BY <1>3, <1>5, <1>6 DEF Expects
<1>8. "correctedCovarianceError" \in DOMAIN f
  BY DEF Expects, Prototype
<1>9. QED
  BY <1>2, <1>7, <1>8 DEF Correct

LEMMA StateIs ==
  ASSUME NEW f, NEW m, NEW v, NEW n, NEW a, NEW b, NEW c, NEW d, Expects(f, m, v, n, a, b, c, d),
         NEW s, s = a + 2 * b + c + d, NEW p \in Int, NEW r, r = p * n - m - v,
         NEW z, ArrayToUblas(z, 1) = Single(p, 1)
  PROVE  Correct(f, z).correctedState = Vector(m * s + (a + b) * r, v * s + (b + c) * r, s * n)
<1>1. /\ a \in Int /\ b \in Int /\ c \in Int /\ d \in Nat \ {0} /\ s \in Nat \ {0}
      /\ m \in Int /\ v \in Int /\ n \in Nat \ {0} /\ r \in Int
  BY DEF Expects, Uncertain, Pair
<1>2. Product(measurementModel, f.predictedState) = Single(m + v, n)
  <2>1. Pair(1, 1, 1) /\ Pair(m, v, n)
    BY <1>1 DEF Pair
  <2>2. Product(Transposed(Vector(1, 1, 1)), Vector(m, v, n)) = Single(1 * m + 1 * v, 1 * n)
    BY <2>1, RowTimesVector
  <2>3. 1 * m + 1 * v = m + v /\ 1 * n = n
    BY <1>1
  <2>4. QED
    BY <2>2, <2>3, ModelMatrices DEF Expects
<1>3. Single(p, 1) = Single(p * n, n)
  <2>1. PICK x \in Int : x = p * n
    BY <1>1
  <2>2. p * n = x * 1
    BY <2>1
  <2>3. Number(p, 1) = Number(x, n)
    BY <1>1, <2>2, NumbersAgree
  <2>4. QED
    BY <2>1, <2>3 DEF Single
<1>4. Difference(Single(p, 1), Single(m + v, n)) = Single(r, n)
  <2>1. PICK x \in Int, y \in Int : x = p * n /\ y = m + v
    BY <1>1
  <2>2. Pair(x, y, n)
    BY <1>1 DEF Pair
  <2>3. Difference(Single(x, n), Single(y, n)) = Single(x - y, n)
    BY <2>2, SumOfSingles
  <2>4. x - y = r
    BY <1>1, <2>1
  <2>5. QED
    BY <1>3, <2>1, <2>3, <2>4
<1>5. PICK k \in Int, l \in Int : k = a + b /\ l = b + c
  BY <1>1
<1>6. Product(Gain(f), Single(r, n)) = Vector(k * r, l * r, s * n)
  <2>1. Pair(k, l, s) /\ Pair(r, r, n)
    BY <1>1 DEF Pair
  <2>2. Product(Vector(k, l, s), Single(r, n)) = Vector(k * r, l * r, s * n)
    BY <2>1, VectorTimesSingle
  <2>3. QED
    BY <1>5, <2>2, GainIs
<1>7. Vector(m, v, n) = Vector(s * m, s * v, s * n)
  <2>1. Pair(m, v, n) /\ s \in Nat \ {0}
    BY <1>1 DEF Pair
  <2>2. QED
    BY <2>1, RescaledVector
<1>8. PICK x \in Int, y \in Int, u \in Int, w \in Int, q \in Nat \ {0} :
        x = s * m /\ y = s * v /\ u = k * r /\ w = l * r /\ q = s * n
  BY <1>1
<1>9. Sum(Vector(x, y, q), Vector(u, w, q)) = Vector(x + u, y + w, q)
  <2>1. Pair(x, y, q) /\ Pair(u, w, q)
    BY DEF Pair
  <2>2. QED
    BY <2>1, SumOfVectors
<1>10. x + u = m * s + (a + b) * r /\ y + w = v * s + (b + c) * r
  BY <1>1, <1>5, <1>8
<1>11. Sum(f.predictedState, Product(Gain(f), Single(r, n))) =
         Vector(m * s + (a + b) * r, v * s + (b + c) * r, s * n)
  BY <1>6, <1>7, <1>8, <1>9, <1>10 DEF Expects
<1>12. "correctedState" \in DOMAIN f
  BY DEF Expects, Prototype
<1>13. QED
  BY <1>2, <1>4, <1>11, <1>12, ModelMatrices DEF Correct

(* A prediction                                                            *)
LEMMA PredictIs ==
  ASSUME NEW f, DOMAIN f = DOMAIN Prototype,
         NEW m, NEW v, NEW n, Pair(m, v, n), f.correctedState = Vector(m, v, n),
         NEW a, NEW b, NEW c, NEW d, Cells(a, b, b, c, d),
         f.correctedCovarianceError = Matrix(a, b, b, c, d)
  PROVE  /\ DOMAIN Predict(f) = DOMAIN Prototype /\ Predict(f).initialized = f.initialized
         /\ Predict(f).predictedState = Vector(m + v, v, n)
         /\ Predict(f).predictedCovarianceError = Matrix(a + 2 * b + c + d, b + c, b + c, c + d, d)
<1>1. /\ a \in Int /\ b \in Int /\ c \in Int /\ d \in Nat \ {0}
      /\ m \in Int /\ v \in Int /\ n \in Nat \ {0}
  BY DEF Cells, Pair
<1>2. Product(transitionModel, f.correctedState) = Vector(m + v, v, n)
  <2>1. Cells(1, 1, 0, 1, 1)
    BY DEF Cells
  <2>2. Product(Matrix(1, 1, 0, 1, 1), Vector(m, v, n)) = Vector(1 * m + 1 * v, 0 * m + 1 * v, 1 * n)
    BY <2>1, MatrixTimesVector
  <2>3. 1 * m + 1 * v = m + v /\ 0 * m + 1 * v = v /\ 1 * n = n
    BY <1>1
  <2>4. QED
    BY <2>2, <2>3, ModelMatrices
<1>3. Product(f.correctedCovarianceError, Transposed(transitionModel)) = Matrix(a + b, b, b + c, c, d)
  <2>1. Cells(1, 0, 1, 1, 1)
    BY DEF Cells
  <2>2. Product(Matrix(a, b, b, c, d), Matrix(1, 0, 1, 1, 1)) =
          Matrix(a * 1 + b * 1, a * 0 + b * 1, b * 1 + c * 1, b * 0 + c * 1, d * 1)
    BY <2>1, MatrixTimesMatrix
  <2>3. /\ a * 1 + b * 1 = a + b /\ a * 0 + b * 1 = b /\ b * 1 + c * 1 = b + c
        /\ b * 0 + c * 1 = c /\ d * 1 = d
    BY <1>1
  <2>4. QED
    BY <2>2, <2>3, ModelMatrices
<1>4. PICK k \in Int, l \in Int : k = a + b /\ l = b + c
  BY <1>1
<1>5. Product(Matrix(1, 1, 0, 1, 1), Matrix(k, b, l, c, d)) = Matrix(k + l, b + c, l, c, d)
  <2>1. Cells(1, 1, 0, 1, 1) /\ Cells(k, b, l, c, d)
    BY <1>1 DEF Cells
  <2>2. Product(Matrix(1, 1, 0, 1, 1), Matrix(k, b, l, c, d)) =
          Matrix(1 * k + 1 * l, 1 * b + 1 * c, 0 * k + 1 * l, 0 * b + 1 * c, 1 * d)
    BY <2>1, MatrixTimesMatrix
  <2>3. /\ 1 * k + 1 * l = k + l /\ 1 * b + 1 * c = b + c /\ 0 * k + 1 * l = l
        /\ 0 * b + 1 * c = c /\ 1 * d = d
    BY <1>1
  <2>4. QED
    BY <2>2, <2>3
<1>6. Sum(Matrix(k + l, l, l, c, d), processNoise) = Matrix(k + l + d, l, l, c + d, d)
  <2>1. PICK x \in Int : x = k + l
    OBVIOUS
  <2>2. Cells(x, l, l, c, d) /\ Cells(d, 0, 0, d, d)
    BY <1>1 DEF Cells
  <2>3. Sum(Matrix(x, l, l, c, d), Matrix(d, 0, 0, d, d)) = Matrix(x + d, l + 0, l + 0, c + d, d)
    BY <2>2, SumsOfMatrices
  <2>4. processNoise = Matrix(d, 0, 0, d, d)
    BY <1>1, ModelMatrices DEF processNoise
  <2>5. l + 0 = l
    OBVIOUS
  <2>6. QED
    BY <2>1, <2>3, <2>4, <2>5
<1>7. k + l + d = a + 2 * b + c + d
  BY <1>1, <1>4
<1>8. Sum(Product(transitionModel, Product(f.correctedCovarianceError, Transposed(transitionModel))),
          processNoise) = Matrix(a + 2 * b + c + d, b + c, b + c, c + d, d)
  BY <1>3, <1>4, <1>5, <1>6, <1>7, ModelMatrices
<1>9. QED
  BY <1>2, <1>8 DEF Predict, Prototype

(* A correction sets nothing but the corrected state and covariance.       *)
LEMMA CorrectKeeps ==
  ASSUME NEW f, DOMAIN f = DOMAIN Prototype, NEW z
  PROVE  DOMAIN Correct(f, z) = DOMAIN Prototype /\ Correct(f, z).initialized = f.initialized
BY DEF Correct, Prototype

(* A corrected covariance, predicted, is an uncertain state again: the     *)
(* noise keeps its determinant above 0 for ever.                           *)
LEMMA StaysUncertain ==
  ASSUME NEW a, NEW b, NEW c, NEW d, Uncertain(a, b, c, d),
         NEW s, s = a + 2 * b + c + d, NEW e, e = a * c - b * b, NEW q, q = s * d
  PROVE  /\ Cells(e + a * d, b * d - e, b * d - e, e + c * d, q)
         /\ Uncertain((e + a * d) + 2 * (b * d - e) + (e + c * d) + q,
                      (b * d - e) + (e + c * d), (e + c * d) + q, q)
<1>1. a \in Nat \ {0} /\ b \in Nat /\ c \in Nat \ {0} /\ d \in Nat \ {0} /\ s \in Nat \ {0}
  BY DEF Uncertain
<1>2. PICK t \in Nat \ {0}, u \in Nat, w \in Nat \ {0}, x \in Nat, y \in Nat :
        t = a * d /\ u = b * d /\ w = c * d /\ x = a * c /\ y = b * b
  <2>1. a * d \in Nat \ {0} /\ b * d \in Nat /\ c * d \in Nat \ {0} /\ a * c \in Nat /\ b * b \in Nat
    BY <1>1
  <2>2. QED
    BY <2>1
<1>3. e \in Nat \ {0}
  BY <1>2 DEF Uncertain
<1>4. q \in Nat \ {0}
  BY <1>1
<1>5. PICK o \in Nat \ {0} : o = d * d
  BY <1>1
<1>6. q = t + 2 * u + w + o
  BY <1>1, <1>2, <1>5
<1>7. PICK h \in Nat, i \in Nat, j \in Nat : h = t + 2 * u + w + q /\ i = u + w /\ j = e + w + q
  BY <1>2, <1>3, <1>4
<1>8. h > q /\ j > q /\ i < q
  <2>1. t \in Nat \ {0} /\ u \in Nat /\ w \in Nat \ {0} /\ o \in Nat \ {0}
    OBVIOUS
  <2>2. QED
    BY <1>3, <1>4, <1>6, <1>7, <2>1
<1>9. h * j > i * i
  <2>1. \A k, l, m, n \in Nat : k > m /\ l > m /\ n < m => k * l > n * n
    <3>1. ASSUME NEW k \in Nat, NEW l \in Nat, NEW m \in Nat, NEW n \in Nat, k > m, l > m, n < m
          PROVE  k * l > n * n
      <4>1. k * l > m * m
        BY <3>1
      <4>2. m * m >= n * n
        BY <3>1
      <4>3. k * l \in Nat /\ m * m \in Nat /\ n * n \in Nat
        OBVIOUS
      <4>4. QED
        BY <4>1, <4>2, <4>3
    <3>2. QED
      BY <3>1
  <2>2. QED
    BY <1>4, <1>7, <1>8, <2>1
<1>10. /\ (e + a * d) + 2 * (b * d - e) + (e + c * d) + q = h
       /\ (b * d - e) + (e + c * d) = i /\ (e + c * d) + q = j
  BY <1>2, <1>3, <1>4, <1>7
<1>11. Uncertain(h, i, j, q)
  BY <1>4, <1>8, <1>9, <1>7 DEF Uncertain
<1>12. Cells(e + a * d, b * d - e, b * d - e, e + c * d, q)
  BY <1>2, <1>3, <1>4 DEF Cells
<1>13. QED
  BY <1>10, <1>11, <1>12

(* After a correction and a prediction the filter expects something again. *)
LEMMA StepExpects ==
  ASSUME NEW f, NEW m, NEW v, NEW n, NEW a, NEW b, NEW c, NEW d, Expects(f, m, v, n, a, b, c, d),
         NEW z, NEW k, NEW l, NEW o, Pair(k, l, o), Correct(f, z).correctedState = Vector(k, l, o)
  PROVE  \E g, h, i, j : Expects(Predict(Correct(f, z)), k + l, l, o, g, h, i, j)
<1>1. /\ a \in Int /\ b \in Int /\ c \in Int /\ d \in Nat \ {0}
      /\ k \in Int /\ l \in Int /\ o \in Nat \ {0} /\ Uncertain(a, b, c, d)
  BY DEF Expects, Uncertain, Pair
<1>2. PICK s : s = a + 2 * b + c + d
  OBVIOUS
<1>3. PICK e : e = a * c - b * b
  OBVIOUS
<1>4. PICK q : q = s * d
  OBVIOUS
<1>5. Correct(f, z).correctedCovarianceError = Matrix(e + a * d, b * d - e, b * d - e, e + c * d, q)
  BY <1>2, <1>3, <1>4, CovarianceIs
<1>6. /\ Cells(e + a * d, b * d - e, b * d - e, e + c * d, q)
      /\ Uncertain((e + a * d) + 2 * (b * d - e) + (e + c * d) + q,
                   (b * d - e) + (e + c * d), (e + c * d) + q, q)
  BY <1>1, <1>2, <1>3, <1>4, StaysUncertain
<1>7. PICK A, B, C : A = e + a * d /\ B = b * d - e /\ C = e + c * d
  OBVIOUS
<1>8. /\ DOMAIN Predict(Correct(f, z)) = DOMAIN Prototype
      /\ Predict(Correct(f, z)).initialized = TRUE
      /\ Predict(Correct(f, z)).predictedState = Vector(k + l, l, o)
      /\ Predict(Correct(f, z)).predictedCovarianceError = Matrix(A + 2 * B + C + q, B + C, B + C, C + q, q)
  <2>1. DOMAIN Correct(f, z) = DOMAIN Prototype /\ Correct(f, z).initialized = TRUE
    BY CorrectKeeps DEF Expects
  <2>2. Correct(f, z).correctedCovarianceError = Matrix(A, B, B, C, q) /\ Cells(A, B, B, C, q)
    BY <1>5, <1>6, <1>7
  <2>3. QED
    BY <2>1, <2>2, PredictIs
<1>9. Uncertain(A + 2 * B + C + q, B + C, C + q, q)
  BY <1>6, <1>7
<1>10. Pair(k + l, l, o)
  BY <1>1 DEF Pair
<1>11. Expects(Predict(Correct(f, z)), k + l, l, o, A + 2 * B + C + q, B + C, C + q, q)
  BY <1>8, <1>9, <1>10 DEF Expects
<1>12. QED
  BY <1>11

LEMMA TransposedMatrix ==
  ASSUME NEW a, NEW b, NEW c, NEW d, NEW q
  PROVE  Transposed(Matrix(a, b, c, d, q)) = Matrix(a, c, b, d, q)
BY TransposedShapes DEF Matrix

(* For the filter's gain the short form of the covariance is the long one. *)
LEMMA JosephIs ==
  ASSUME NEW f, NEW m, NEW v, NEW n, NEW a, NEW b, NEW c, NEW d, Expects(f, m, v, n, a, b, c, d), NEW z
  PROVE  Correct(f, z).correctedCovarianceError = Joseph(f)
<1>1. a \in Int /\ b \in Int /\ c \in Int /\ d \in Nat \ {0}
  BY DEF Expects, Uncertain
<1>2. PICK s : s = a + 2 * b + c + d
  OBVIOUS
<1>3. PICK e \in Int : e = a * c - b * b
  BY <1>1
<1>4. s \in Nat \ {0}
  BY <1>2, GainIs
<1>5. PICK q \in Nat \ {0} : q = s * d
  BY <1>1, <1>4
<1>6. PICK k \in Int, l \in Int : k = a + b /\ l = b + c
  BY <1>1
<1>7. PICK A \in Int, B \in Int, C \in Int : A = e + a * d /\ B = b * d - e /\ C = e + c * d
  BY <1>1
<1>8. /\ Gain(f) = Vector(k, l, s)
      /\ Difference(Identity(2), Product(Gain(f), measurementModel)) = Matrix(l + d, - k, - l, k + d, s)
  <2>1. b + c + d = l + d /\ a + b + d = k + d
    BY <1>1, <1>6
  <2>2. QED
    BY <1>2, <1>6, <2>1, GainIs
<1>9. Correct(f, z).correctedCovarianceError = Matrix(A, B, B, C, q)
  BY <1>2, <1>3, <1>5, <1>7, CovarianceIs
<1>10. Product(Difference(Identity(2), Product(Gain(f), measurementModel)), f.predictedCovarianceError) =
         Matrix(A, B, B, C, q)
  <2>1. "correctedCovarianceError" \in DOMAIN f
    BY DEF Expects, Prototype
  <2>2. QED
    BY <1>9, <2>1 DEF Correct
<1>11. PICK g \in Int, h \in Int, i \in Int, j \in Int : g = l + d /\ h = - k /\ i = - l /\ j = k + d
  BY <1>1
<1>12. Product(Matrix(A, B, B, C, q), Matrix(g, i, h, j, s)) =
         Matrix(A * g + B * h, A * i + B * j, B * g + C * h, B * i + C * j, q * s)
  <2>1. Cells(A, B, B, C, q) /\ Cells(g, i, h, j, s)
    BY <1>4 DEF Cells
  <2>2. QED
    BY <2>1, MatrixTimesMatrix
<1>13. Product(Product(Gain(f), measurementNoise), Transposed(Gain(f))) =
         Matrix(k * k, k * l, l * k, l * l, s * s)
  <2>1. Pair(k, l, s) /\ Pair(1, 1, 1)
    BY <1>4 DEF Pair
  <2>2. Product(Vector(k, l, s), Single(1, 1)) = Vector(k * 1, l * 1, s * 1)
    BY <2>1, VectorTimesSingle
  <2>3. k * 1 = k /\ l * 1 = l /\ s * 1 = s
    BY <1>4
  <2>4. Product(Vector(k, l, s), Transposed(Vector(k, l, s))) = Matrix(k * k, k * l, l * k, l * l, s * s)
    BY <2>1, VectorTimesRow
  <2>5. QED
    BY <1>8, <2>2, <2>3, <2>4, ModelMatrices
<1>14. Matrix(k * k, k * l, l * k, l * l, s * s) =
         Matrix(d * (k * k), d * (k * l), d * (l * k), d * (l * l), d * (s * s))
  <2>1. Cells(k * k, k * l, l * k, l * l, s * s)
    BY <1>4 DEF Cells
  <2>2. QED
    BY <1>1, <2>1, RescaledMatrix
<1>15. PICK u \in Int, w \in Int, x \in Int, y \in Int :
         u = A * g + B * h /\ w = A * i + B * j /\ x = B * g + C * h /\ y = B * i + C * j
  OBVIOUS
<1>16. PICK kk \in Int, kl \in Int, ll \in Int : kk = d * (k * k) /\ kl = d * (k * l) /\ ll = d * (l * l)
  BY <1>1
<1>17. k * l = l * k
  OBVIOUS
<1>18. q * s = d * (s * s) /\ q * s \in Nat \ {0}
  BY <1>1, <1>4, <1>5
<1>19. Sum(Matrix(u, w, x, y, q * s), Matrix(kk, kl, kl, ll, q * s)) =
         Matrix(u + kk, w + kl, x + kl, y + ll, q * s)
  <2>1. PICK o \in Nat \ {0} : o = q * s
    BY <1>18
  <2>3. Sum(Matrix(u, w, x, y, o), Matrix(kk, kl, kl, ll, o)) =
          Matrix(u + kk, w + kl, x + kl, y + ll, o)
    <3>1. /\ Plus(Number(u, o), Number(kk, o)) = Number(u + kk, o)
          /\ Plus(Number(w, o), Number(kl, o)) = Number(w + kl, o)
          /\ Plus(Number(x, o), Number(kl, o)) = Number(x + kl, o)
          /\ Plus(Number(y, o), Number(ll, o)) = Number(y + ll, o)
      BY ScaledSum
    <3>2. QED
      BY <3>1, SumShapes DEF Matrix
  <2>4. QED
    BY <2>1, <2>3
<1>20. A + B = d * k /\ B + C = d * l /\ s = k + l + d
  BY <1>1, <1>2, <1>6, <1>7
<1>21. u + kk = s * A
  <2>1. u = A * (l + d) - B * k
    BY <1>1, <1>11, <1>15
  <2>2. kk = (A + B) * k
    BY <1>1, <1>16, <1>20
  <2>3. QED
    BY <1>1, <1>20, <2>1, <2>2
<1>22. w + kl = s * B
  <2>1. w = B * (k + d) - A * l
    BY <1>1, <1>11, <1>15
  <2>2. kl = (A + B) * l
    BY <1>1, <1>16, <1>20
  <2>3. QED
    BY <1>1, <1>20, <2>1, <2>2
<1>23. x + kl = s * B
  <2>1. x = B * (l + d) - C * k
    BY <1>1, <1>11, <1>15
  <2>2. kl = (B + C) * k
    BY <1>1, <1>16, <1>20
  <2>3. QED
    BY <1>1, <1>20, <2>1, <2>2
<1>24. y + ll = s * C
  <2>1. y = C * (k + d) - B * l
    BY <1>1, <1>11, <1>15
  <2>2. ll = (B + C) * l
    BY <1>1, <1>16, <1>20
  <2>3. QED
    BY <1>1, <1>20, <2>1, <2>2
<1>25. Matrix(s * A, s * B, s * B, s * C, s * q) = Matrix(A, B, B, C, q)
  <2>1. /\ Number(s * A, s * q) = Number(A, q) /\ Number(s * B, s * q) = Number(B, q)
        /\ Number(s * C, s * q) = Number(C, q)
    BY <1>4, NumberScales
  <2>2. QED
    BY <2>1 DEF Matrix
<1>26. q * s = s * q
  BY <1>4
<1>27. Sum(Matrix(u, w, x, y, q * s), Matrix(kk, kl, kl, ll, q * s)) = Matrix(A, B, B, C, q)
  BY <1>19, <1>21, <1>22, <1>23, <1>24, <1>25, <1>26
<1>28. Product(Product(Difference(Identity(2), Product(Gain(f), measurementModel)),
                       f.predictedCovarianceError),
               Transposed(Difference(Identity(2), Product(Gain(f), measurementModel)))) =
         Matrix(u, w, x, y, q * s)
  BY <1>8, <1>10, <1>11, <1>12, <1>15, TransposedMatrix
<1>29. Product(Product(Gain(f), measurementNoise), Transposed(Gain(f))) =
         Matrix(kk, kl, kl, ll, q * s)
  BY <1>13, <1>14, <1>16, <1>17, <1>18
<1>30. QED
  BY <1>9, <1>27, <1>28, <1>29 DEF Joseph

(* The covariance of an uncertain state is symmetric and positive definite,*)
(* and a measurement makes the position more certain.                      *)
LEMMA CovarianceStaysOne ==
  ASSUME NEW f, NEW m, NEW v, NEW n, NEW a, NEW b, NEW c, NEW d, Expects(f, m, v, n, a, b, c, d), NEW z
  PROVE  LET P == f.predictedCovarianceError
         IN  /\ P[1][2] = P[2][1] /\ Less(Zero, P[1][1])
             /\ Less(Zero, Minus(Times(P[1][1], P[2][2]), Times(P[1][2], P[2][1])))
             /\ Less(Correct(f, z).correctedCovarianceError[1][1], P[1][1])
<1>1. a \in Nat \ {0} /\ b \in Nat /\ c \in Nat \ {0} /\ d \in Nat \ {0}
  BY DEF Expects, Uncertain
<1>2. f.predictedCovarianceError = Matrix(a, b, b, c, d)
  BY DEF Expects
<1>3. PICK e \in Nat \ {0} : e = a * c - b * b
  <2>1. PICK x \in Nat, y \in Nat : x = a * c /\ y = b * b
    BY <1>1
  <2>2. x > y
    BY <2>1 DEF Expects, Uncertain
  <2>3. x - y \in Nat \ {0}
    BY <2>2
  <2>4. QED
    BY <2>1, <2>3
<1>4. Less(Zero, Number(a, d))
  <2>1. Less(Number(0, 1), Number(a, d)) <=> 0 * d < a * 1
    BY <1>1, NumbersCompare
  <2>2. QED
    BY <1>1, <2>1 DEF Zero
<1>5. Less(Zero, Minus(Times(Number(a, d), Number(c, d)), Times(Number(b, d), Number(b, d))))
  <2>1. /\ Times(Number(a, d), Number(c, d)) = Number(a * c, d * d)
        /\ Times(Number(b, d), Number(b, d)) = Number(b * b, d * d)
    BY <1>1, PlusOfNumbers
  <2>2. PICK x \in Int, y \in Int, w \in Nat \ {0} : x = a * c /\ y = b * b /\ w = d * d
    BY <1>1
  <2>3. Minus(Number(x, w), Number(y, w)) = Number(x - y, w)
    BY ScaledSum
  <2>4. Less(Number(0, 1), Number(e, w)) <=> 0 * w < e * 1
    BY NumbersCompare
  <2>5. 0 * w < e * 1
    OBVIOUS
  <2>6. QED
    BY <1>3, <2>1, <2>2, <2>3, <2>4, <2>5 DEF Zero
<1>6. PICK s \in Nat \ {0} : s = a + 2 * b + c + d
  BY <1>1
<1>7. PICK q \in Nat \ {0} : q = s * d
  BY <1>1, <1>6
<1>8. PICK x \in Int : x = e + a * d
  BY <1>1
<1>9. Correct(f, z).correctedCovarianceError[1][1] = Number(x, q)
  BY <1>3, <1>6, <1>7, <1>8, CovarianceIs DEF Matrix
<1>10. x * d < a * q
  <2>1. a * s = x + (a + b) * (a + b)
    BY <1>1, <1>3, <1>6, <1>8
  <2>2. (a + b) * (a + b) > 0
    BY <1>1
  <2>3. x < a * s
    BY <1>1, <2>1, <2>2
  <2>4. PICK y \in Int : y = a * s
    BY <1>1, <1>6
  <2>5. x * d < y * d
    BY <1>1, <2>3, <2>4
  <2>6. y * d = a * q
    BY <1>1, <1>6, <1>7, <2>4
  <2>7. QED
    BY <2>5, <2>6
<1>11. Less(Number(x, q), Number(a, d))
  BY <1>1, <1>10, NumbersCompare
<1>12. QED
  BY <1>2, <1>4, <1>5, <1>9, <1>11 DEF Matrix

(* Of a measurement only the position is taken.                            *)
LEMMA MeasurementTaken ==
  ASSUME NEW x, NEW y
  PROVE  ArrayToUblas(<<x, y>>, 1) = <<<<x>>>> /\ ArrayToUblas(<<x>>, 1) = <<<<x>>>>
<1>1. ASSUME NEW s, s[1] = x
      PROVE  SubSeq(s, 1, 1) = <<x>>
  <2>1. \A i \in 1 .. 1 : s[i] \in {x}
    BY <1>1
  <2>2. /\ SubSeq(s, 1, 1) \in Seq({x})
        /\ Len(SubSeq(s, 1, 1)) = IF 1 <= 1 THEN 1 - 1 + 1 ELSE 0
    BY <2>1, SubSeqProperties
  <2>3. \A r \in Seq({x}) : Len(r) = 1 => r = <<x>>
    OBVIOUS
  <2>4. Len(SubSeq(s, 1, 1)) = 1
    BY <2>2
  <2>5. QED
    BY <2>2, <2>3, <2>4
<1>2. QED
  BY <1>1, DiagonalShapes DEF ArrayToUblas

(* What a measurement is expected to be: position plus velocity            *)
LEMMA MeasurementExpected ==
  ASSUME NEW m, NEW v, NEW n, Pair(m, v, n)
  PROVE  Product(measurementModel, Vector(m, v, n))[1][1] = Number(m + v, n)
<1>1. m \in Int /\ v \in Int /\ n \in Nat \ {0}
  BY DEF Pair
<1>2. Pair(1, 1, 1)
  BY DEF Pair
<1>3. Product(Transposed(Vector(1, 1, 1)), Vector(m, v, n)) = Single(1 * m + 1 * v, 1 * n)
  BY <1>2, RowTimesVector
<1>4. 1 * m + 1 * v = m + v /\ 1 * n = n
  BY <1>1
<1>5. QED
  BY <1>3, <1>4, ModelMatrices DEF Single

(* After a correction the expected measurement lies between the one        *)
(* expected before and the measurement.                                    *)
LEMMA CorrectionIsBetween ==
  ASSUME NEW f, NEW m, NEW v, NEW n, NEW a, NEW b, NEW c, NEW d, Expects(f, m, v, n, a, b, c, d),
         NEW p \in Int
  PROVE  LET z == Number(p, 1)
             before == Product(measurementModel, f.predictedState)[1][1]
             after == Product(measurementModel, Correct(f, <<z>>).correctedState)[1][1]
         IN  \/ before = z /\ after = z
             \/ Less(before, after) /\ Less(after, z)
             \/ Less(z, after) /\ Less(after, before)
<1>1. /\ a \in Nat \ {0} /\ b \in Nat /\ c \in Nat \ {0} /\ d \in Nat \ {0}
      /\ m \in Int /\ v \in Int /\ n \in Nat \ {0}
  BY DEF Expects, Uncertain, Pair
<1>2. PICK s \in Nat \ {0} : s = a + 2 * b + c + d
  BY <1>1
<1>3. PICK x \in Int : x = m + v
  BY <1>1
<1>4. PICK pn \in Int : pn = p * n
  BY <1>1
<1>5. PICK r \in Int : r = pn - x
  OBVIOUS
<1>6. Product(measurementModel, f.predictedState)[1][1] = Number(x, n)
  BY <1>3, MeasurementExpected DEF Expects
<1>7. PICK y \in Int, w \in Nat \ {0} : y = x * s + (s - d) * r /\ w = s * n
  BY <1>1
<1>8. Product(measurementModel, Correct(f, <<Number(p, 1)>>).correctedState)[1][1] = Number(y, w)
  <2>1. ArrayToUblas(<<Number(p, 1)>>, 1) = Single(p, 1)
    BY MeasurementTaken DEF Single
  <2>2. Correct(f, <<Number(p, 1)>>).correctedState = Vector(m * s + (a + b) * r, v * s + (b + c) * r, s * n)
    <3>1. r = p * n - m - v
      BY <1>1, <1>3, <1>4, <1>5
    <3>2. QED
      BY <1>2, <2>1, <3>1, StateIs
  <2>3. PICK k \in Int, l \in Int : k = m * s + (a + b) * r /\ l = v * s + (b + c) * r
    BY <1>1
  <2>4. k + l = y
    BY <1>1, <1>2, <1>3, <1>7, <2>3
  <2>5. Pair(k, l, w)
    BY DEF Pair
  <2>6. Product(measurementModel, Vector(k, l, w))[1][1] = Number(k + l, w)
    BY <2>5, MeasurementExpected
  <2>7. QED
    BY <1>7, <2>2, <2>3, <2>4, <2>6
<1>9. PICK g \in Nat \ {0} : g = s - d
  BY <1>1, <1>2
<1>10. PICK u \in Int, gr \in Int : u = x * s /\ gr = g * r
  BY <1>1
<1>11. y = u + gr
  BY <1>7, <1>9, <1>10
<1>12. p * w = u + gr + d * r /\ p * w \in Int
  <2>1. pn * s = p * w
    BY <1>1, <1>4, <1>7
  <2>2. pn = x + r
    BY <1>5
  <2>3. pn * s = x * s + r * (g + d)
    BY <1>1, <1>9, <2>2
  <2>4. QED
    BY <1>1, <1>10, <2>1, <2>3
<1>13. x * w = u * n
  BY <1>1, <1>7, <1>10
<1>14. CASE r = 0
  <2>1. gr = 0 /\ d * r = 0
    BY <1>1, <1>10, <1>14
  <2>2. x * 1 = p * n /\ y * 1 = p * w
    BY <1>1, <1>4, <1>5, <1>11, <1>12, <1>14, <2>1
  <2>3. Number(x, n) = Number(p, 1) /\ Number(y, w) = Number(p, 1)
    BY <1>1, <2>2, NumbersAgree
  <2>4. QED
    BY <1>6, <1>8, <2>3
<1>15. CASE r > 0
  <2>1. gr > 0 /\ d * r > 0
    BY <1>1, <1>10, <1>15
  <2>2. x * w < y * n
    <3>1. y > u
      BY <1>11, <2>1
    <3>2. u * n < y * n
      BY <1>1, <3>1
    <3>3. QED
      BY <1>13, <3>2
  <2>3. y * 1 < p * w
    BY <1>1, <1>11, <1>12, <2>1
  <2>4. Less(Number(x, n), Number(y, w)) /\ Less(Number(y, w), Number(p, 1))
    BY <1>1, <2>2, <2>3, NumbersCompare
  <2>5. QED
    BY <1>6, <1>8, <2>4
<1>16. CASE r < 0
  <2>1. gr < 0 /\ d * r < 0
    BY <1>1, <1>10, <1>16
  <2>2. y * n < x * w
    <3>1. y < u
      BY <1>11, <2>1
    <3>2. y * n < u * n
      BY <1>1, <3>1
    <3>3. QED
      BY <1>13, <3>2
  <2>3. p * w < y * 1
    BY <1>1, <1>11, <1>12, <2>1
  <2>4. Less(Number(y, w), Number(x, n)) /\ Less(Number(p, 1), Number(y, w))
    BY <1>1, <2>2, <2>3, NumbersCompare
  <2>5. QED
    BY <1>6, <1>8, <2>4
<1>17. QED
  BY <1>14, <1>15, <1>16

(* A sum of whole numbers is one, and a sum of equal ones a multiple.      *)
LEMMA SumOfWhole ==
  ASSUME NEW n \in Nat, NEW numbers, Len(numbers) = n,
         NEW group, \A i \in 1 .. n : group[i] \in Int /\ numbers[i] = Number(group[i], 1)
  PROVE  /\ \E k \in Int : SumOf(numbers) = Number(k, 1)
         /\ \A p \in Int : (\A i \in 1 .. n : group[i] = p) => SumOf(numbers) = Number(n * p, 1)
<1>1. PICK sum : IsSum(sum, numbers, n) /\ SumOf(numbers) = sum[n]
  BY SumOfProperties
<1>2. \A k \in 0 .. n : sum[k] = IF k = 0 THEN Number(0, 1) ELSE Plus(sum[k - 1], numbers[k])
  BY <1>1 DEF IsSum, Zero
<1>3. \A k, l \in Int : Plus(Number(k, 1), Number(l, 1)) = Number(k + l, 1)
  BY ScaledSum
<1>4. \E k \in Int : SumOf(numbers) = Number(k, 1)
  <2> DEFINE Bad == {k \in 0 .. n : ~ \E l \in Int : sum[k] = Number(l, 1)}
  <2>1. CASE Bad = {}
    <3>1. n \in 0 .. n
      OBVIOUS
    <3>2. QED
      BY <1>1, <2>1, <3>1
  <2>2. CASE Bad # {}
    <3>1. Bad \subseteq Nat
      OBVIOUS
    <3>2. PICK k \in Bad : \A j \in Bad : k <= j
      BY <2>2, <3>1, LeastExists
    <3>3. k \in 0 .. n
      OBVIOUS
    <3>4. k # 0
      BY <1>2, <3>2
    <3>5. k - 1 \in 0 .. n /\ k \in 1 .. n /\ ~ (k <= k - 1)
      BY <3>3, <3>4
    <3>6. PICK l \in Int : sum[k - 1] = Number(l, 1)
      BY <3>2, <3>5
    <3>7. PICK x \in Int : x = group[k] /\ numbers[k] = Number(x, 1)
      BY <3>5
    <3>8. sum[k] = Number(l + x, 1)
      BY <1>2, <1>3, <3>3, <3>4, <3>6, <3>7
    <3>9. QED
      BY <3>2, <3>8
  <2>3. QED
    BY <2>1, <2>2
<1>5. ASSUME NEW p \in Int, \A i \in 1 .. n : group[i] = p
      PROVE  SumOf(numbers) = Number(n * p, 1)
  <2> DEFINE Bad == {k \in 0 .. n : sum[k] # Number(k * p, 1)}
  <2>1. CASE Bad = {}
    <3>1. n \in 0 .. n
      OBVIOUS
    <3>2. QED
      BY <1>1, <2>1, <3>1
  <2>2. CASE Bad # {}
    <3>1. Bad \subseteq Nat
      OBVIOUS
    <3>2. PICK k \in Bad : \A j \in Bad : k <= j
      BY <2>2, <3>1, LeastExists
    <3>3. k \in 0 .. n
      OBVIOUS
    <3>4. k # 0
      <4>1. 0 * p = 0
        OBVIOUS
      <4>2. QED
        BY <1>2, <3>2, <4>1
    <3>5. k - 1 \in 0 .. n /\ k \in 1 .. n /\ ~ (k <= k - 1)
      BY <3>3, <3>4
    <3>6. sum[k - 1] = Number((k - 1) * p, 1)
      BY <3>2, <3>5
    <3>7. numbers[k] = Number(p, 1)
      BY <1>5, <3>5
    <3>8. PICK l \in Int : l = (k - 1) * p
      BY <3>5
    <3>9. sum[k] = Number(l + p, 1)
      BY <1>2, <1>3, <3>3, <3>4, <3>6, <3>7, <3>8
    <3>10. l + p = k * p
      BY <3>3, <3>8
    <3>11. QED
      BY <3>2, <3>9, <3>10
  <2>3. QED
    BY <2>1, <2>2
<1>6. QED
  BY <1>4, <1>5

(* The mean of a group is a number, and that of equal places the place.    *)
LEMMA MeanIsNumber ==
  ASSUME NEW n \in Nat \ {0}, NEW group \in [1 .. n -> Int]
  PROVE  /\ \E k \in Int : Mean(group) = Number(k, n)
         /\ \A p \in Int : {group[i] : i \in DOMAIN group} = {p} => Mean(group) = Number(p, 1)
<1> DEFINE numbers == [i \in DOMAIN group |-> Number(group[i], 1)]
<1>1. DOMAIN group = 1 .. n /\ Len(group) = n
  OBVIOUS
<1>2. Len(numbers) = n /\ \A i \in 1 .. n : group[i] \in Int /\ numbers[i] = Number(group[i], 1)
  BY <1>1
<1>3. Mean(group) = Over(SumOf(numbers), Number(n, 1))
  BY <1>1 DEF Mean
<1> HIDE DEF numbers
<1>4. \A k \in Int : Over(Number(k, 1), Number(n, 1)) = Number(k, n)
  <2>1. ASSUME NEW k \in Int PROVE Over(Number(k, 1), Number(n, 1)) = Number(k, n)
    <3>1. Over(Number(k, 1), Number(n, 1)) = Number(k * 1, 1 * n)
      BY OverOfNumbers
    <3>2. k * 1 = k /\ 1 * n = n
      OBVIOUS
    <3>3. QED
      BY <3>1, <3>2
  <2>2. QED
    BY <2>1
<1>5. \E k \in Int : Mean(group) = Number(k, n)
  <2>1. PICK k \in Int : SumOf(numbers) = Number(k, 1)
    BY <1>2, SumOfWhole
  <2>2. QED
    BY <1>3, <1>4, <2>1
<1>6. ASSUME NEW p \in Int, {group[i] : i \in DOMAIN group} = {p}
      PROVE  Mean(group) = Number(p, 1)
  <2>1. \A i \in 1 .. n : group[i] = p
    BY <1>1, <1>6
  <2>2. SumOf(numbers) = Number(n * p, 1)
    BY <1>2, <2>1, SumOfWhole
  <2>3. PICK l \in Int : l = n * p
    OBVIOUS
  <2>4. l * 1 = p * n
    BY <2>3
  <2>5. Number(l, n) = Number(p, 1)
    BY <2>4, NumbersAgree
  <2>6. QED
    BY <1>3, <1>4, <2>2, <2>3, <2>5
<1>7. QED
  BY <1>5, <1>6

(* A filter that was cloned from the one nobody uses and initialized       *)
(* expects the track to stay, one noise beside of it.                      *)
LEMMA InitializeExpects ==
  ASSUME NEW k \in Int, NEW n \in Nat \ {0}
  PROVE  Expects(InitializeFilter(Prototype, Number(k, n)), k, 0, n, 1, 0, 1, 1)
<1> DEFINE f == [Prototype EXCEPT !.correctedState = Vector(k, 0, n),
                                  !.correctedCovarianceError = Matrix(0, 0, 0, 0, 1),
                                  !.initialized = TRUE]
<1>1. Number(0, n) = Zero /\ Number(0, 1) = Zero
  BY SmallNumbers DEF Zero
<1>2. Column(<<Number(k, n), Zero>>) = Vector(k, 0, n)
  BY <1>1, DiagonalShapes DEF Vector
<1>3. Diagonal(<<Zero, Zero>>) = Matrix(0, 0, 0, 0, 1)
  BY <1>1, DiagonalShapes DEF Matrix
<1>4. InitializeFilter(Prototype, Number(k, n)) = Predict(f)
  BY <1>2, <1>3 DEF InitializeFilter, Initialize, InitializeState, CoordsToStateVector
<1>5. /\ DOMAIN f = DOMAIN Prototype /\ f.initialized = TRUE
      /\ f.correctedState = Vector(k, 0, n) /\ f.correctedCovarianceError = Matrix(0, 0, 0, 0, 1)
  BY DEF Prototype
<1> HIDE DEF f
<1>6. Pair(k, 0, n) /\ Cells(0, 0, 0, 0, 1)
  BY DEF Pair, Cells
<1>7. /\ DOMAIN Predict(f) = DOMAIN Prototype /\ Predict(f).initialized = TRUE
      /\ Predict(f).predictedState = Vector(k + 0, 0, n)
      /\ Predict(f).predictedCovarianceError = Matrix(0 + 2 * 0 + 0 + 1, 0 + 0, 0 + 0, 0 + 1, 1)
  BY <1>5, <1>6, PredictIs
<1>8. k + 0 = k /\ 0 + 2 * 0 + 0 + 1 = 1 /\ 0 + 0 = 0 /\ 0 + 1 = 1
  OBVIOUS
<1>9. Uncertain(1, 0, 1, 1)
  BY DEF Uncertain
<1>10. QED
  BY <1>4, <1>6, <1>7, <1>8, <1>9 DEF Expects

(* A velocity is a fraction, and 0 if the position did not change.         *)
LEMMA OverIsFraction ==
  ASSUME NEW x \in Fraction, NEW y \in Fraction, NEW k \in Int, k # 0
  PROVE  /\ Over(Minus(x, y), [num |-> k, den |-> 1]) \in Fraction
         /\ x = y => Over(Minus(x, y), [num |-> k, den |-> 1]) = Zero
<1>1. PICK a \in Int, b \in Nat \ {0} : x.num = a /\ x.den = b
  BY DEF Fraction
<1>2. PICK c \in Int, d \in Nat \ {0} : y.num = c /\ y.den = d
  BY DEF Fraction
<1>3. PICK p \in Int, q \in Nat \ {0} : p = a * d - c * b /\ q = b * d
  OBVIOUS
<1>4. Minus(x, y) = Number(p, q)
  BY <1>1, <1>2, <1>3 DEF Minus
<1>5. PICK g \in Nat \ {0}, m \in Int, l \in Nat \ {0} :
        Number(p, q).num = m /\ Number(p, q).den = l /\ p = g * m /\ q = g * l
  BY NumberForm
<1>6. Over(Minus(x, y), [num |-> k, den |-> 1]) =
        IF k < 0 THEN Number(- m * 1, - k * l) ELSE Number(m * 1, k * l)
  BY <1>4, <1>5 DEF Over
<1>7. CASE k < 0
  <2>1. PICK o \in Nat \ {0} : o = - k * l
    BY <1>7
  <2>2. - m * 1 = - m /\ - m \in Int
    OBVIOUS
  <2>3. Over(Minus(x, y), [num |-> k, den |-> 1]) = Number(- m, o)
    BY <1>6, <1>7, <2>1, <2>2
  <2>4. x = y => - m = 0
    BY <1>1, <1>2, <1>3, <1>5
  <2>5. Number(- m, o) \in Fraction /\ Number(0, o) = Zero
    BY <2>2, NumberIsFraction, SmallNumbers
  <2>6. QED
    BY <2>3, <2>4, <2>5
<1>8. CASE k > 0
  <2>1. PICK o \in Nat \ {0} : o = k * l
    BY <1>8
  <2>2. m * 1 = m /\ ~ (k < 0)
    BY <1>8
  <2>3. Over(Minus(x, y), [num |-> k, den |-> 1]) = Number(m, o)
    BY <1>6, <2>1, <2>2
  <2>4. x = y => m = 0
    BY <1>1, <1>2, <1>3, <1>5
  <2>5. Number(m, o) \in Fraction /\ Number(0, o) = Zero
    BY NumberIsFraction, SmallNumbers
  <2>6. QED
    BY <2>3, <2>4, <2>5
<1>9. QED
  BY <1>7, <1>8

(* The estimate of a track with a filter of its own, whose reports came    *)
(* from the places seen.                                                   *)
Estimates(t, track, f, seen) ==
  /\ DOMAIN track = {"estimationFilter_", "lon", "lonVel", "predictedLon", "lonPredictionVar"}
  /\ track.estimationFilter_ = t
  /\ track.lon \in Fraction /\ track.lonVel \in Fraction
  /\ track.predictedLon = f.predictedState[1][1]
  /\ track.lonPredictionVar = f.predictedCovarianceError[1][1]
  /\ \E m, v, n, a, b, c, d : Expects(f, m, v, n, a, b, c, d)
  /\ seen # {}
  /\ \A p \in Place : seen = {p} =>
       f.predictedState = Vector(p, 0, 1) /\ track.lon = Number(p, 1) /\ track.lonVel = Zero

FiltersInv ==
  /\ DOMAIN filters = {filter_} \cup TrackId /\ DOMAIN tracks = TrackId
  /\ filters[filter_] = Prototype

GhostsInv == applied \in [TrackId -> 0 .. MaxReports] /\ places \in [TrackId -> SUBSET Place]

EstimatesInv == \A t \in Live : Estimates(t, tracks[t], filters[t], places[t])

IInv == FiltersInv /\ GhostsInv /\ EstimatesInv

LEMMA InvInit == Init => IInv
<1> SUFFICES ASSUME Init PROVE IInv
  OBVIOUS
<1>1. FiltersInv
  BY FilterAssumption DEF Init, FiltersInv
<1>2. GhostsInv
  BY PlaceAssumption DEF Init, GhostsInv
<1>3. Live = {}
  BY DEF Init, Live
<1>4. QED
  BY <1>1, <1>2, <1>3 DEF IInv, EstimatesInv

(* What storePredictions leaves.                                           *)
LEMMA Stored ==
  ASSUME NEW track, NEW f,
         DOMAIN track = {"estimationFilter_", "lon", "lonVel", "predictedLon", "lonPredictionVar"}
  PROVE  LET stored == StorePredictions(track, f)
         IN  /\ DOMAIN stored = DOMAIN track /\ stored.estimationFilter_ = track.estimationFilter_
             /\ stored.lon = track.lon /\ stored.lonVel = track.lonVel
             /\ stored.predictedLon = f.predictedState[1][1]
             /\ stored.lonPredictionVar = f.predictedCovarianceError[1][1]
BY DEF StorePredictions

LEMMA NewEstimates ==
  ASSUME NEW t, NEW group \in Groups
  PROVE  LET lon == Mean(group)
             f == InitializeFilter(Prototype, lon)
         IN  Estimates(t, NewTrack(t, f, lon), f, {group[i] : i \in DOMAIN group})
<1>1. PICK n \in 1 .. MaxGroup : group \in [1 .. n -> Place]
  BY DEF Groups
<1>2. n \in Nat \ {0} /\ group \in [1 .. n -> Int] /\ DOMAIN group = 1 .. n /\ 1 \in 1 .. n
  <2>1. n \in Nat \ {0} /\ 1 \in 1 .. n
    BY PlaceAssumption
  <2>2. Place \subseteq Int
    BY PlaceAssumption
  <2>3. \A i \in 1 .. n : group[i] \in Int
    BY <1>1, <2>2
  <2>4. DOMAIN group = 1 .. n /\ group = [i \in 1 .. n |-> group[i]]
    BY <1>1
  <2>5. QED
    BY <2>1, <2>3, <2>4
<1>3. PICK lon : lon = Mean(group)
  OBVIOUS
<1>4. PICK f : f = InitializeFilter(Prototype, lon)
  OBVIOUS
<1>5. PICK k \in Int : lon = Number(k, n)
  BY <1>2, <1>3, MeanIsNumber
<1>6. Expects(f, k, 0, n, 1, 0, 1, 1)
  BY <1>2, <1>4, <1>5, InitializeExpects
<1>7. ASSUME NEW p \in Place, {group[i] : i \in DOMAIN group} = {p}
      PROVE  f.predictedState = Vector(p, 0, 1) /\ lon = Number(p, 1)
  <2>1. p \in Int
    BY PlaceAssumption
  <2>2. lon = Number(p, 1)
    BY <1>2, <1>3, <1>7, <2>1, MeanIsNumber
  <2>3. Expects(f, p, 0, 1, 1, 0, 1, 1)
    BY <1>4, <2>1, <2>2, InitializeExpects
  <2>4. QED
    BY <2>2, <2>3 DEF Expects
<1>8. {group[i] : i \in DOMAIN group} # {}
  BY <1>2
<1>9. Zero \in Fraction /\ lon \in Fraction
  BY <1>2, <1>5, NumberIsFraction DEF Zero
<1>10. PICK track : track = NewTrack(t, f, lon)
  OBVIOUS
<1>11. /\ DOMAIN track = {"estimationFilter_", "lon", "lonVel", "predictedLon", "lonPredictionVar"}
       /\ track.estimationFilter_ = t /\ track.lon = lon /\ track.lonVel = Zero
       /\ track.predictedLon = f.predictedState[1][1]
       /\ track.lonPredictionVar = f.predictedCovarianceError[1][1]
  BY <1>10, Stored DEF NewTrack
<1>12. Estimates(t, track, f, {group[i] : i \in DOMAIN group})
  BY <1>6, <1>7, <1>8, <1>9, <1>11 DEF Estimates
<1>13. QED
  BY <1>3, <1>4, <1>10, <1>12

(* What applyMeasurement makes of a track and its filter.                  *)
LEMMA MeasuredEstimates ==
  ASSUME NEW t, NEW track, NEW f, NEW seen \in SUBSET Place, Estimates(t, track, f, seen),
         NEW longitude \in Place, NEW timePassed \in TimePassed
  PROVE  LET vec == CoordsToStateVector(Number(longitude, 1), track.lonVel)
             corrected == Correct(f, vec)
             newLon == corrected.correctedState[1][1]
             newVel == IF timePassed = 0 THEN track.lonVel
                       ELSE Over(Minus(newLon, track.lon), [num |-> timePassed, den |-> 1])
             predicted == Predict(corrected)
         IN  Estimates(t, StorePredictions([track EXCEPT !.lon = newLon, !.lonVel = newVel], predicted),
                       predicted, seen \cup {longitude})
<1>1. longitude \in Int /\ timePassed \in Int
  BY PlaceAssumption
<1>2. PICK vec : vec = CoordsToStateVector(Number(longitude, 1), track.lonVel)
  OBVIOUS
<1>3. PICK corrected : corrected = Correct(f, vec)
  OBVIOUS
<1>4. PICK newLon : newLon = corrected.correctedState[1][1]
  OBVIOUS
<1>5. PICK newVel : newVel = IF timePassed = 0 THEN track.lonVel
                             ELSE Over(Minus(newLon, track.lon), [num |-> timePassed, den |-> 1])
  OBVIOUS
<1>6. PICK predicted : predicted = Predict(corrected)
  OBVIOUS
<1>7. ArrayToUblas(vec, 1) = Single(longitude, 1)
  BY <1>2, MeasurementTaken DEF CoordsToStateVector, Single
<1>8. ASSUME NEW m, NEW v, NEW n, NEW a, NEW b, NEW c, NEW d, Expects(f, m, v, n, a, b, c, d)
      PROVE  /\ newLon \in Fraction
             /\ \E k, l, o, g, h, i, j : Expects(predicted, k, l, o, g, h, i, j)
             /\ m = longitude /\ v = 0 /\ n = 1 =>
                  newLon = Number(longitude, 1) /\ predicted.predictedState = Vector(longitude, 0, 1)
  <2>1. /\ a \in Int /\ b \in Int /\ c \in Int /\ d \in Nat \ {0}
        /\ m \in Int /\ v \in Int /\ n \in Nat \ {0}
    BY <1>8 DEF Expects, Uncertain, Pair
  <2>2. PICK s : s = a + 2 * b + c + d
    OBVIOUS
  <2>3. s \in Nat \ {0}
    BY <1>8, <2>2, GainIs
  <2>4. PICK r \in Int : r = longitude * n - m - v
    BY <1>1, <2>1
  <2>5. corrected.correctedState = Vector(m * s + (a + b) * r, v * s + (b + c) * r, s * n)
    BY <1>1, <1>3, <1>7, <1>8, <2>2, <2>4, StateIs
  <2>6. PICK k \in Int, l \in Int, o \in Nat \ {0} :
          k = m * s + (a + b) * r /\ l = v * s + (b + c) * r /\ o = s * n
    BY <2>1, <2>3
  <2>7. Pair(k, l, o) /\ corrected.correctedState = Vector(k, l, o)
    BY <2>5, <2>6 DEF Pair
  <2>8. newLon = Number(k, o)
    BY <1>4, <2>7 DEF Vector
  <2>9. newLon \in Fraction
    BY <2>8, NumberIsFraction
  <2>10. PICK g, h, i, j : Expects(predicted, k + l, l, o, g, h, i, j)
    BY <1>3, <1>6, <1>8, <2>7, StepExpects
  <2>11. ASSUME m = longitude, v = 0, n = 1
         PROVE  newLon = Number(longitude, 1) /\ predicted.predictedState = Vector(longitude, 0, 1)
    <3>1. r = 0
      BY <1>1, <2>4, <2>11
    <3>2. k = longitude * s /\ l = 0 /\ o = s
      BY <1>1, <2>1, <2>3, <2>6, <2>11, <3>1
    <3>3. Number(k, o) = Number(longitude, 1)
      <4>1. k * 1 = longitude * o
        BY <3>2
      <4>2. QED
        BY <1>1, <4>1, NumbersAgree
    <3>4. Number(0, o) = Number(0, 1)
      BY SmallNumbers DEF Zero
    <3>5. predicted.predictedState = Vector(k, 0, o)
      <4>1. k + l = k
        BY <3>2
      <4>2. QED
        BY <2>10, <3>2, <4>1 DEF Expects
    <3>6. QED
      BY <2>8, <3>3, <3>4, <3>5 DEF Vector
  <2>12. QED
    BY <2>9, <2>10, <2>11
<1>9. PICK m, v, n, a, b, c, d : Expects(f, m, v, n, a, b, c, d)
  BY DEF Estimates
<1>10. newLon \in Fraction /\ \E k, l, o, g, h, i, j : Expects(predicted, k, l, o, g, h, i, j)
  BY <1>8, <1>9
<1>11. newVel \in Fraction
  BY <1>1, <1>5, <1>10, OverIsFraction DEF Estimates
<1>12. ASSUME NEW p \in Place, seen \cup {longitude} = {p}
       PROVE  /\ predicted.predictedState = Vector(p, 0, 1)
              /\ newLon = Number(p, 1) /\ newVel = Zero
  <2>1. seen = {p} /\ longitude = p
    BY <1>12 DEF Estimates
  <2>2. f.predictedState = Vector(p, 0, 1) /\ track.lon = Number(p, 1) /\ track.lonVel = Zero
    BY <2>1 DEF Estimates
  <2>3. Expects(f, p, 0, 1, a, b, c, d)
    <3>1. Pair(p, 0, 1)
      BY <1>1, <2>1 DEF Pair
    <3>2. QED
      BY <1>9, <2>2, <3>1 DEF Expects
  <2>4. newLon = Number(p, 1) /\ predicted.predictedState = Vector(p, 0, 1)
    BY <1>8, <2>1, <2>3
  <2>5. newVel = Zero
    BY <1>1, <1>5, <1>10, <2>2, <2>4, OverIsFraction DEF Estimates
  <2>6. QED
    BY <2>4, <2>5
<1>13. PICK moved : moved = [track EXCEPT !.lon = newLon, !.lonVel = newVel]
  OBVIOUS
<1>14. /\ DOMAIN moved = {"estimationFilter_", "lon", "lonVel", "predictedLon", "lonPredictionVar"}
       /\ moved.estimationFilter_ = t /\ moved.lon = newLon /\ moved.lonVel = newVel
  BY <1>13 DEF Estimates
<1>15. PICK stored : stored = StorePredictions(moved, predicted)
  OBVIOUS
<1>16. /\ DOMAIN stored = {"estimationFilter_", "lon", "lonVel", "predictedLon", "lonPredictionVar"}
       /\ stored.estimationFilter_ = t /\ stored.lon = newLon /\ stored.lonVel = newVel
       /\ stored.predictedLon = predicted.predictedState[1][1]
       /\ stored.lonPredictionVar = predicted.predictedCovarianceError[1][1]
  BY <1>14, <1>15, Stored
<1>17. Estimates(t, stored, predicted, seen \cup {longitude})
  BY <1>10, <1>11, <1>12, <1>16 DEF Estimates
<1>18. QED
  BY <1>2, <1>3, <1>4, <1>5, <1>6, <1>13, <1>15, <1>17

(* Each action                                                             *)
LEMMA InitializeKeeps ==
  ASSUME IInv, NEW t \in TrackId, InitializeTrack(t)
  PROVE  IInv'
<1>1. PICK group \in Groups :
        /\ filters' = [filters EXCEPT ![t] = InitializeFilter(filters[filter_], Mean(group))]
        /\ tracks' = [tracks EXCEPT ![t] =
             NewTrack(t, InitializeFilter(filters[filter_], Mean(group)), Mean(group))]
        /\ places' = [places EXCEPT ![t] = {group[i] : i \in DOMAIN group}]
        /\ applied' = applied
  BY DEF InitializeTrack, Clone
<1>2. filter_ # t /\ filters[filter_] = Prototype
  BY FilterAssumption DEF IInv, FiltersInv
<1>3. FiltersInv'
  BY <1>1, <1>2 DEF IInv, FiltersInv
<1>4. GhostsInv'
  <2>1. {group[i] : i \in DOMAIN group} \in SUBSET Place
    BY DEF Groups
  <2>2. QED
    BY <1>1, <2>1 DEF IInv, GhostsInv
<1>5. EstimatesInv'
  <2>1. ASSUME NEW u \in Live' PROVE Estimates(u, tracks'[u], filters'[u], places'[u])
    <3>1. u \in TrackId
      BY DEF Live
    <3>2. CASE u = t
      <4>1. /\ filters'[u] = InitializeFilter(Prototype, Mean(group))
            /\ tracks'[u] = NewTrack(t, InitializeFilter(Prototype, Mean(group)), Mean(group))
            /\ places'[u] = {group[i] : i \in DOMAIN group}
        BY <1>1, <1>2, <3>2 DEF IInv, FiltersInv, GhostsInv
      <4>2. QED
        BY <3>2, <4>1, NewEstimates
    <3>3. CASE u # t
      <4>1. filters'[u] = filters[u] /\ tracks'[u] = tracks[u] /\ places'[u] = places[u]
        BY <1>1, <3>1, <3>3 DEF IInv, FiltersInv, GhostsInv
      <4>2. u \in Live
        BY <3>1, <4>1 DEF Live
      <4>3. QED
        BY <4>1, <4>2 DEF IInv, EstimatesInv
    <3>4. QED
      BY <3>2, <3>3
  <2>2. QED
    BY <2>1 DEF EstimatesInv
<1>6. QED
  BY <1>3, <1>4, <1>5 DEF IInv

LEMMA ApplyKeeps ==
  ASSUME IInv, NEW t \in TrackId, ApplyMeasurement(t)
  PROVE  IInv'
<1>1. t \in Live /\ Estimates(t, tracks[t], filters[t], places[t])
  BY DEF ApplyMeasurement, Live, IInv, EstimatesInv
<1>2. tracks[t].estimationFilter_ = t /\ FilterOf(t) = filters[t]
  BY <1>1 DEF Estimates, FilterOf
<1>3. PICK longitude \in Place, timePassed \in TimePassed :
       LET track == tracks[t]
           vec == CoordsToStateVector(Number(longitude, 1), track.lonVel)
           corrected == Correct(FilterOf(t), vec)
           newLon == corrected.correctedState[1][1]
           newVel == IF timePassed = 0 THEN track.lonVel
                     ELSE Over(Minus(newLon, track.lon), [num |-> timePassed, den |-> 1])
           predicted == Predict(corrected)
       IN  /\ filters' = [filters EXCEPT ![track.estimationFilter_] = predicted]
           /\ tracks' = [tracks EXCEPT ![t] =
                StorePredictions([track EXCEPT !.lon = newLon, !.lonVel = newVel], predicted)]
           /\ places' = [places EXCEPT ![t] = @ \cup {longitude}]
  BY DEF ApplyMeasurement
<1>4. PICK predicted, track :
        /\ filters' = [filters EXCEPT ![t] = predicted]
        /\ tracks' = [tracks EXCEPT ![t] = track]
        /\ places' = [places EXCEPT ![t] = @ \cup {longitude}]
        /\ Estimates(t, track, predicted, places[t] \cup {longitude})
  <2>1. places[t] \in SUBSET Place
    BY DEF IInv, GhostsInv
  <2>2. QED
    BY <1>1, <1>2, <1>3, <2>1, MeasuredEstimates
<1>5. applied' = [applied EXCEPT ![t] = @ + 1] /\ applied[t] < MaxReports
  BY DEF ApplyMeasurement
<1>6. filter_ # t
  BY FilterAssumption
<1>7. FiltersInv'
  BY <1>4, <1>6 DEF IInv, FiltersInv
<1>8. GhostsInv'
  <2>1. applied[t] + 1 \in 0 .. MaxReports
    BY <1>5, PlaceAssumption DEF IInv, GhostsInv
  <2>2. QED
    BY <1>4, <1>5, <2>1 DEF IInv, GhostsInv
<1>9. EstimatesInv'
  <2>1. ASSUME NEW u \in Live' PROVE Estimates(u, tracks'[u], filters'[u], places'[u])
    <3>1. u \in TrackId
      BY DEF Live
    <3>2. CASE u = t
      <4>1. filters'[u] = predicted /\ tracks'[u] = track /\ places'[u] = places[t] \cup {longitude}
        BY <1>4, <3>2 DEF IInv, FiltersInv, GhostsInv
      <4>2. QED
        BY <1>4, <3>2, <4>1
    <3>3. CASE u # t
      <4>1. filters'[u] = filters[u] /\ tracks'[u] = tracks[u] /\ places'[u] = places[u]
        BY <1>4, <3>1, <3>3 DEF IInv, FiltersInv, GhostsInv
      <4>2. u \in Live
        BY <3>1, <4>1 DEF Live
      <4>3. QED
        BY <4>1, <4>2 DEF IInv, EstimatesInv
    <3>4. QED
      BY <3>2, <3>3
  <2>2. QED
    BY <2>1 DEF EstimatesInv
<1>10. QED
  BY <1>7, <1>8, <1>9 DEF IInv

LEMMA RemoveKeeps ==
  ASSUME IInv, NEW t \in TrackId, RemoveTrack(t)
  PROVE  IInv'
<1>1. FiltersInv'
  BY FilterAssumption DEF IInv, FiltersInv, RemoveTrack
<1>2. GhostsInv'
  BY PlaceAssumption DEF IInv, GhostsInv, RemoveTrack
<1>3. EstimatesInv'
  <2>1. ASSUME NEW u \in Live' PROVE Estimates(u, tracks'[u], filters'[u], places'[u])
    <3>1. u \in TrackId /\ tracks'[u] # NoTrack
      BY DEF Live
    <3>2. u # t
      BY <3>1 DEF RemoveTrack, IInv, FiltersInv
    <3>3. filters'[u] = filters[u] /\ tracks'[u] = tracks[u] /\ places'[u] = places[u]
      BY <3>1, <3>2 DEF RemoveTrack, IInv, FiltersInv, GhostsInv
    <3>4. u \in Live
      BY <3>1, <3>3 DEF Live
    <3>5. QED
      BY <3>3, <3>4 DEF IInv, EstimatesInv
  <2>2. QED
    BY <2>1 DEF EstimatesInv
<1>4. QED
  BY <1>1, <1>2, <1>3 DEF IInv

LEMMA Inductive == IInv /\ [Next]_vars => IInv'
<1> SUFFICES ASSUME IInv, [Next]_vars PROVE IInv'
  OBVIOUS
<1>1. CASE UNCHANGED vars
  <2>1. /\ UNCHANGED <<filters, tracks, places, applied>>
        /\ (Live' = Live)
    BY <1>1 DEF vars, Live
  <2>2. FiltersInv' /\ GhostsInv'
    BY <2>1 DEF IInv, FiltersInv, GhostsInv
  <2>3. EstimatesInv'
    BY <2>1 DEF IInv, EstimatesInv
  <2>4. QED
    BY <2>2, <2>3 DEF IInv
<1>2. ASSUME NEW t \in TrackId, InitializeTrack(t) PROVE IInv'
  BY <1>2, InitializeKeeps
<1>3. ASSUME NEW t \in TrackId, ApplyMeasurement(t) PROVE IInv'
  BY <1>3, ApplyKeeps
<1>4. ASSUME NEW t \in TrackId, RemoveTrack(t) PROVE IInv'
  BY <1>4, RemoveKeeps
<1>5. QED
  BY <1>1, <1>2, <1>3, <1>4 DEF Next

LEMMA Invariance == Spec => []IInv
<1>1. QED
  BY InvInit, Inductive, PTL DEF Spec

(* The types hold in every reachable state.                                *)
LEMMA TypesHold == IInv => TypeOK
<1> SUFFICES ASSUME IInv, NEW t \in TrackId
             PROVE  /\ applied[t] \in 0 .. MaxReports /\ places[t] \subseteq Place
                    /\ tracks[t] # NoTrack =>
                         /\ tracks[t].estimationFilter_ \in DOMAIN filters
                         /\ \A x \in {"lon", "lonVel", "predictedLon", "lonPredictionVar"} :
                              IsNumber(tracks[t][x])
  BY DEF TypeOK
<1>1. applied[t] \in 0 .. MaxReports /\ places[t] \subseteq Place
  BY DEF IInv, GhostsInv
<1>2. ASSUME tracks[t] # NoTrack
      PROVE  /\ tracks[t].estimationFilter_ \in DOMAIN filters
             /\ \A x \in {"lon", "lonVel", "predictedLon", "lonPredictionVar"} :
                  IsNumber(tracks[t][x])
  <2>1. Estimates(t, tracks[t], filters[t], places[t])
    BY <1>2 DEF IInv, EstimatesInv, Live
  <2>2. PICK m, v, n, a, b, c, d : Expects(filters[t], m, v, n, a, b, c, d)
    BY <2>1 DEF Estimates
  <2>3. tracks[t].predictedLon = Number(m, n) /\ tracks[t].lonPredictionVar = Number(a, d)
    BY <2>1, <2>2 DEF Estimates, Expects, Vector, Matrix
  <2>4. m \in Int /\ n \in Nat \ {0} /\ a \in Int /\ d \in Nat \ {0}
    BY <2>2 DEF Expects, Pair, Uncertain
  <2>5. Number(m, n) \in Fraction /\ Number(a, d) \in Fraction
    BY <2>4, NumberIsFraction
  <2>6. \A x \in Fraction : IsNumber(x)
    BY DEF Fraction, IsNumber
  <2>7. tracks[t].lon \in Fraction /\ tracks[t].lonVel \in Fraction
    BY <2>1 DEF Estimates
  <2>8. IsNumber(tracks[t].lon) /\ IsNumber(tracks[t].lonVel)
    BY <2>6, <2>7
  <2>9. IsNumber(tracks[t].predictedLon) /\ IsNumber(tracks[t].lonPredictionVar)
    BY <2>3, <2>5, <2>6
  <2>10. tracks[t].estimationFilter_ \in DOMAIN filters
    BY <2>1 DEF Estimates, IInv, FiltersInv
  <2>11. QED
    BY <2>8, <2>9, <2>10
<1>3. QED
  BY <1>1, <1>2

(* The filter of a live track is its own, and expects something.           *)
LEMMA LiveTracksExpect ==
  ASSUME IInv, NEW t \in Live
  PROVE  /\ FilterOf(t) = filters[t] /\ Estimates(t, tracks[t], filters[t], places[t])
         /\ \E m, v, n, a, b, c, d : Expects(FilterOf(t), m, v, n, a, b, c, d)
<1>1. Estimates(t, tracks[t], filters[t], places[t])
  BY DEF IInv, EstimatesInv
<1>2. FilterOf(t) = filters[t]
  BY <1>1 DEF Estimates, FilterOf
<1>3. \E m, v, n, a, b, c, d : Expects(filters[t], m, v, n, a, b, c, d)
  BY <1>1 DEF Estimates
<1>4. QED
  BY <1>1, <1>2, <1>3

(* Tracks do not influence each other through the filter they are cloned   *)
(* from: a track whose reports all came from one place is there, at rest,  *)
(* and expected there, after any number of reports and whatever the others *)
(* measure.                                                                *)
THEOREM TracksAreApart == Spec => []TracksStayApart
<1>1. IInv => TracksStayApart
  <2> SUFFICES ASSUME IInv, NEW t \in Live, NEW p \in Place, places[t] = {p}
               PROVE  /\ tracks[t].lon = Number(p, 1)
                      /\ tracks[t].predictedLon = Number(p, 1)
                      /\ tracks[t].lonVel = Zero
                      /\ FilterOf(t).predictedState[2][1] = Zero
    BY DEF TracksStayApart
  <2>1. FilterOf(t) = filters[t] /\ Estimates(t, tracks[t], filters[t], places[t])
    BY LiveTracksExpect
  <2>2. QED
    BY <2>1 DEF Estimates, Vector, Zero
<1>2. QED
  BY <1>1, Invariance, PTL

(* After a correction the expected measurement lies strictly between what  *)
(* was expected before and the measurement, however long the track lived.  *)
THEOREM MeasurementsAttract == Spec => []CorrectionApproaches
<1>1. IInv => CorrectionApproaches
  <2> SUFFICES ASSUME IInv, NEW t \in Live, NEW p \in Place
               PROVE  LET f == FilterOf(t)
                          z == Number(p, 1)
                          before == Product(measurementModel, f.predictedState)[1][1]
                          after == Product(measurementModel, Correct(f, <<z>>).correctedState)[1][1]
                      IN  \/ before = z /\ after = z
                          \/ Less(before, after) /\ Less(after, z)
                          \/ Less(z, after) /\ Less(after, before)
    BY DEF CorrectionApproaches
  <2>1. PICK f : f = FilterOf(t)
    OBVIOUS
  <2>2. PICK m, v, n, a, b, c, d : Expects(f, m, v, n, a, b, c, d)
    BY <2>1, LiveTracksExpect
  <2>3. p \in Int
    BY PlaceAssumption
  <2>4. QED
    BY <2>1, <2>2, <2>3, CorrectionIsBetween
<1>2. QED
  BY <1>1, Invariance, PTL

(* No measurement meets a filter that fails its assertions; the covariance *)
(* stays symmetric and positive definite, is what the best gain gives, and *)
(* is smaller after each correction.                                       *)
THEOREM TheGainIsTheBest == Spec => []CovarianceIsOptimal
<1>1. IInv => CovarianceIsOptimal
  <2> SUFFICES ASSUME IInv PROVE CovarianceIsOptimal
    OBVIOUS
  <2>1. TypeOK
    BY TypesHold
  <2>2. ASSUME NEW t \in Live
        PROVE  LET f == FilterOf(t)
                   P == f.predictedCovarianceError
                   corrected == Correct(f, <<Zero>>).correctedCovarianceError
               IN  /\ MayCorrect(f)
                   /\ P[1][2] = P[2][1]
                   /\ Less(Zero, P[1][1])
                   /\ Less(Zero, Minus(Times(P[1][1], P[2][2]), Times(P[1][2], P[2][1])))
                   /\ corrected = Joseph(f)
                   /\ Less(corrected[1][1], P[1][1])
    <3>1. PICK f : f = FilterOf(t)
      OBVIOUS
    <3>2. PICK m, v, n, a, b, c, d : Expects(f, m, v, n, a, b, c, d)
      BY <3>1, LiveTracksExpect
    <3>3. MayCorrect(f)
      <4>1. IsInvertible(Bottom(f))
        BY <3>2, GainIs
      <4>2. QED
        BY <3>2, <4>1 DEF MayCorrect, Expects
    <3>4. Correct(f, <<Zero>>).correctedCovarianceError = Joseph(f)
      BY <3>2, JosephIs
    <3>5. LET P == f.predictedCovarianceError
          IN  /\ P[1][2] = P[2][1] /\ Less(Zero, P[1][1])
              /\ Less(Zero, Minus(Times(P[1][1], P[2][2]), Times(P[1][2], P[2][1])))
              /\ Less(Correct(f, <<Zero>>).correctedCovarianceError[1][1], P[1][1])
      BY <3>2, CovarianceStaysOne
    <3>6. QED
      BY <3>1, <3>3, <3>4, <3>5
  <2>3. QED
    BY <2>1, <2>2 DEF CovarianceIsOptimal
<1>2. QED
  BY <1>1, Invariance, PTL

===============================================================================
