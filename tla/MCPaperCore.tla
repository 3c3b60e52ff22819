----------------------------- MODULE MCPaperCore -----------------------------
(***************************************************************************)
(* Instances of PaperCore for TLC.                                         *)
(***************************************************************************)
EXTENDS PaperCore, TLC

CONSTANTS d1, d2

Request(id, plan, domain, need1, need2) ==
    [id |-> id, plan |-> plan, domain |-> domain, need |-> <<need1, need2>>]

\* Two domains that compete for both balances, and what a confused caller does:
\* the same request id with other content, in the same and in another domain,
\* and a plan id that is in use under another request id.
MCRequests == {
    Request(1, 1, d1, 2, 1),
    Request(1, 1, d1, 1, 1),
    Request(1, 3, d2, 0, 1),
    Request(2, 2, d2, 1, 2),
    Request(3, 2, d1, 1, 0) }

MCRequestIds == 1 .. 3
MCPlanIds == 1 .. 3
MCFreeValues == {2, 3}

CoreSymmetry == Permutations(Cores)
=============================================================================
