--------------------------- MODULE MCBlockingQueue ---------------------------
(***************************************************************************)
(* Two producers, as in the application, pushing twice each, and two       *)
(* consumers, one more than the application has.  Threads are not          *)
(* symmetric for the liveness property.                                    *)
(***************************************************************************)
EXTENDS BlockingQueue
=============================================================================
