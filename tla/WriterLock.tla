----------------------------- MODULE WriterLock -----------------------------
(***************************************************************************)
(* What a domain lock promises: a core becomes the writer of a domain only *)
(* while no core owns the domain, and stays its owner until it is released *)
(* or the server takes the lock away without the writer noticing.          *)
(* DomainLock implements it; PaperCore builds on it.                       *)
(***************************************************************************)
CONSTANTS Cores, Domains, None

VARIABLES
    writer, \* the domain each core writes for
    owns    \* whether it still owns that domain's lock

lockVars == <<writer, owns>>

Init ==
    /\ writer = [c \in Cores |-> None]
    /\ owns = [c \in Cores |-> FALSE]

Acquire(c, d) ==
    /\ writer[c] = None
    /\ \A e \in Cores : ~(owns[e] /\ writer[e] = d)
    /\ writer' = [writer EXCEPT ![c] = d]
    /\ owns' = [owns EXCEPT ![c] = TRUE]

\* Writers end: one by one, or together when their process dies.
Release(S) ==
    /\ writer' = [c \in Cores |-> IF c \in S THEN None ELSE writer[c]]
    /\ owns' = [c \in Cores |-> IF c \in S THEN FALSE ELSE owns[c]]

Lose(c) ==
    /\ owns' = [owns EXCEPT ![c] = FALSE]
    /\ UNCHANGED writer

Next ==
    \/ \E c \in Cores, d \in Domains : Acquire(c, d)
    \/ \E S \in SUBSET Cores : Release(S)
    \/ \E c \in Cores : Lose(c)

Spec == Init /\ [][Next]_lockVars
=============================================================================
