-------------------------------- MODULE Sums --------------------------------
(***************************************************************************)
(* Python's sum, as the data models use it for averages and totals: over   *)
(* the batteries of a snapshot and over the points of a price series.      *)
(* Sums_proofs says of it what both need.                                  *)
(***************************************************************************)
EXTENDS Integers, FiniteSets
Fun == INSTANCE Functions

\* The sum of the values of a function with a finite domain.
SumOf(f) == Fun!SumFunction(f)

=============================================================================
