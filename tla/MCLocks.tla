------------------------------- MODULE MCLocks -------------------------------
(***************************************************************************)
(* An instance of Locks for TLC.                                           *)
(***************************************************************************)
EXTENDS Locks, TLC

CONSTANTS d1, d2, p1, p2, s1, s2, s3, c1, c2, c3

MCRequest(id, plan, dom, need1, need2) ==
    [id |-> id, plan |-> plan, domain |-> dom, need |-> <<need1, need2>>]

\* Two plans that compete for both balances and a request id under which two
\* cores of one domain, or of two, may wait for one another.
MCRequests ==
    {MCRequest(1, 1, d1, 2, 1), MCRequest(1, 3, d2, 0, 1), MCRequest(2, 2, d2, 1, 2)}

\* Two cores share a pool of two sessions, which is too small for both, and a
\* third core with a session of its own competes from another process.
MCPoolOf == (s1 :> p1) @@ (s2 :> p1) @@ (s3 :> p2)
MCHome == (c1 :> p1) @@ (c2 :> p1) @@ (c3 :> p2)

\* First callers of two processes, of which one has an older binary, over one database
\* with an old list of two files, or of a file nobody knows.
MCCallerHome == (c1 :> p1) @@ (c2 :> p2)
MCLatest == (p1 :> 4) @@ (p2 :> 3)
MCLegacies == {{1, 2}, {1, 5}}
=============================================================================
