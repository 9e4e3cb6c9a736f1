--------------------------- MODULE MCReportManager ---------------------------
(***************************************************************************)
(* Five rows in packets of two: three of one second, two of the next.  Of  *)
(* the first three, 2 and 5 are tied, and where 1 is before them they lie  *)
(* on both sides of a border of pages; inserted after 3 or 4 the rows of   *)
(* the first second come late, and there are enough of them for the next   *)
(* page to go back to that second.                                         *)
(***************************************************************************)
EXTENDS ReportManager

MCSensorTime == (1 :> 1) @@ (2 :> 1) @@ (3 :> 2) @@ (4 :> 2) @@ (5 :> 1)
MCStamp == (1 :> 1) @@ (2 :> 2) @@ (3 :> 1) @@ (4 :> 2) @@ (5 :> 2)
=============================================================================
