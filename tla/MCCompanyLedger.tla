-------------------------- MODULE MCCompanyLedger --------------------------
(* Two calls of one world and one of a worker's attempt: an operation more    *)
(* than can overrun before a stale acknowledgement would let one through.    *)
EXTENDS CompanyLedger, TLC
CONSTANTS p1, p2, p3, chat, talk, step, w1, a1
MCPermits == {p1, p2, p3}
MCOps == {chat, talk, step}
MCScope == (chat :> w1) @@ (talk :> w1) @@ (step :> a1)
Symmetry == Permutations(MCPermits)
TwoOps == {chat, step}
TwoScopes == (chat :> w1) @@ (step :> a1)
=============================================================================
