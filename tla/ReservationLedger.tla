-------------------------- MODULE ReservationLedger --------------------------
(***************************************************************************)
(* What the B-01 reservation core promises its callers, without            *)
(* transactions, locks or cores: a ledger in which initialising a balance  *)
(* and reserving a whole plan are indivisible.  PaperCore implements it.   *)
(***************************************************************************)
EXTENDS Integers

CONSTANTS NBalances, Requests, FreeValues

VARIABLES known, free, reserved, plans

ledgerVars == <<known, free, reserved, plans>>

Keys == 1 .. NBalances

Init ==
    /\ known = {}
    /\ free = [b \in Keys |-> 0]
    /\ reserved = [b \in Keys |-> 0]
    /\ plans = {}

\* A balance is replaced only while no plan has a reservation on it.
Initialise(b, f) ==
    /\ \A q \in plans : q.need[b] = 0
    /\ known' = known \cup {b}
    /\ free' = [free EXCEPT ![b] = f]
    /\ reserved' = [reserved EXCEPT ![b] = 0]
    /\ UNCHANGED plans

\* A plan enters the ledger whole: its request, plan and domain are new, and
\* every balance it names exists and covers it.
Reserve(q) ==
    /\ \A r \in plans : r.id # q.id /\ r.plan # q.plan /\ r.domain # q.domain
    /\ \A b \in Keys : q.need[b] > 0 => b \in known /\ reserved[b] + q.need[b] <= free[b]
    /\ plans' = plans \cup {q}
    /\ reserved' = [b \in Keys |-> reserved[b] + q.need[b]]
    /\ UNCHANGED <<known, free>>

Next ==
    \/ \E b \in Keys, f \in FreeValues : Initialise(b, f)
    \/ \E q \in Requests : Reserve(q)

Spec == Init /\ [][Next]_ledgerVars
=============================================================================
