------------------------- MODULE MCDashboardSession -------------------------
(* The requests are interchangeable; a liveness run must not say so.       *)
EXTENDS DashboardSession, TLC

CONSTANTS a1, r1, r2

MCAccounts == {a1}
MCRequests == {r1, r2}
MCSymmetry == Permutations(MCRequests)
=============================================================================
