------------------------- MODULE MCCompanyExecution -------------------------
EXTENDS CompanyExecution, TLC
CONSTANTS a, b, w
(* One person does both tasks. *)
SharedWorld == (a :> w) @@ (b :> w)
SoleWorld == a :> w
Symmetry == Permutations({a, b})
=============================================================================
