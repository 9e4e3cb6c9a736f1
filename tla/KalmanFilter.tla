----------------------------- MODULE KalmanFilter -----------------------------
(***************************************************************************)
(* KalmanFilter (src/src/Model/estimationfilter.hpp) with the matrices of  *)
(* DataManager::initializeKalmanFilter, in exact arithmetic.               *)
(*                                                                         *)
(* Each of the matrices is made of two equal blocks, one for longitude and *)
(* one for latitude, so the filter is two filters of one axis that do not  *)
(* know of each other: this is one of them.  Its state is a position and a *)
(* velocity, a measurement is a position, and what a measurement is        *)
(* expected to be is position plus velocity.  Variances are in units of    *)
(* the noise, 0.001, which is the same for process and measurement.        *)
(* There is no control: predict is always called without u.                *)
(***************************************************************************)
EXTENDS Fractions

transitionModel == <<<<One, One>>, <<Zero, One>>>>

measurementModel == <<<<One, One>>>>

processNoise == Identity(2)

measurementNoise == Identity(1)

NoMatrix == <<>>

(* The filter initializeKalmanFilter constructs.                           *)
Prototype ==
  [initialized |-> FALSE,
   predictedState |-> NoMatrix, correctedState |-> NoMatrix,
   predictedCovarianceError |-> NoMatrix, correctedCovarianceError |-> NoMatrix]

(* predict()                                                               *)
Predict(f) ==
  LET mult == Product(f.correctedCovarianceError, Transposed(transitionModel)) IN
  [f EXCEPT !.predictedState = Product(transitionModel, f.correctedState),
            !.predictedCovarianceError = Sum(Product(transitionModel, mult), processNoise)]

InitializeState(f, state, covarianceError) ==
  Predict([f EXCEPT !.correctedState = state,
                    !.correctedCovarianceError = covarianceError,
                    !.initialized = TRUE])

(* initialize(state, varianceError)                                        *)
Initialize(f, state, varianceError) ==
  InitializeState(f, Column(state), Diagonal(varianceError))

(* Of a measurement the filter takes as many elements as its model has     *)
(* rows: the positions, not the velocities Track puts behind them.         *)
ArrayToUblas(vec, no) == Column(SubSeq(vec, 1, no))

(* What is inverted is a number here, and in the program a diagonal matrix.*)
Bottom(f) ==
  Sum(Product(Product(measurementModel, f.predictedCovarianceError),
              Transposed(measurementModel)),
      measurementNoise)

IsInvertible(m) == m[1][1] # Zero

InvertMatrix(m) == <<<<Over(One, m[1][1])>>>>

(* Mutant: the gain is not multiplied with the transposed measurement model*)
(* but with the first column of the covariance.                            *)
GainOfPosition(f) ==
  Product(Product(f.predictedCovarianceError, Column(<<One, Zero>>)), InvertMatrix(Bottom(f)))

Gain(f) ==
  Product(Product(f.predictedCovarianceError, Transposed(measurementModel)),
          InvertMatrix(Bottom(f)))

(* Mutant: the state of the last correction is corrected again.            *)
CorrectCorrected(f, z) ==
  LET residual == Difference(ArrayToUblas(z, Len(measurementModel)),
                             Product(measurementModel, f.predictedState))
      KH == Product(Gain(f), measurementModel)
  IN  [f EXCEPT !.correctedState = Sum(f.correctedState, Product(Gain(f), residual)),
                !.correctedCovarianceError =
                   Product(Difference(Identity(2), KH), f.predictedCovarianceError)]

(* correct(z)                                                              *)
Correct(f, z) ==
  LET residual == Difference(ArrayToUblas(z, Len(measurementModel)),
                             Product(measurementModel, f.predictedState))
      KH == Product(Gain(f), measurementModel)
  IN  [f EXCEPT !.correctedState = Sum(f.predictedState, Product(Gain(f), residual)),
                !.correctedCovarianceError =
                   Product(Difference(Identity(2), KH), f.predictedCovarianceError)]

=============================================================================
