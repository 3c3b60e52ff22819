------------------------------- MODULE Fencing -------------------------------
(***************************************************************************)
(* FencingManager (crates/core/src/fencing.rs): roles, heartbeats and       *)
(* fencing tokens of the nodes of a primary and its standbys.  It is one    *)
(* object in memory; nothing but its own tests calls it, so its callers are *)
(* taken to do what its operations are for: one node is registered as the   *)
(* primary, and nodes report, are looked at and are failed over to in any   *)
(* order.                                                                  *)
(***************************************************************************)
EXTENDS Integers, Sequences, FiniteSets

CONSTANTS
    Nodes,
    MaxTime,    \* bound: the clock
    MaxTokens,  \* bound: tokens generated
    Timeout,    \* timeout_ms of detect_failure
    Ttl,        \* the life of a token (an hour)
    None

FencingAssumption == {MaxTime, MaxTokens, Timeout, Ttl} \subseteq Nat

VARIABLES
    time,
    nodes,      \* the registered nodes: [role, status, beat]
    tokens,     \* all tokens generated, in order: [creator, expires]
    current,    \* current_token: an index of tokens, or None
    deposed     \* history: the nodes that were replaced as primary since they last were made it

vars == <<time, nodes, tokens, current, deposed>>

Init ==
    /\ time = 0
    /\ nodes = <<>>
    /\ tokens = <<>> /\ current = None
    /\ deposed = {}

Tick ==
    /\ time < MaxTime
    /\ time' = time + 1
    /\ UNCHANGED <<nodes, tokens, current, deposed>>

\* register_node: a node starts as the only primary, or as a standby.
Register(n) ==
    /\ n \notin DOMAIN nodes
    /\ \E role \in IF DOMAIN nodes = {} THEN {"primary", "standby"} ELSE {"standby"} :
          nodes' = [m \in DOMAIN nodes \cup {n} |->
                       IF m = n THEN [role |-> role, status |-> "online", beat |-> time]
                                ELSE nodes[m]]
    /\ UNCHANGED <<time, tokens, current, deposed>>

IsPrimary(n) == n \in DOMAIN nodes /\ nodes[n].role = "primary" /\ nodes[n].status = "online"

\* generate_token: the identifier, made of the time and of the number of tokens, is
\* no other token's.
Generated(n) ==
    /\ Len(tokens) < MaxTokens
    /\ tokens' = Append(tokens, [creator |-> n, expires |-> time + Ttl])
    /\ current' = Len(tokens) + 1

GenerateToken(n) ==
    /\ IsPrimary(n)
    /\ Generated(n)
    /\ UNCHANGED <<time, nodes, deposed>>

\* validate_token.
Valid(t) == t \in DOMAIN tokens /\ time < tokens[t].expires

\* Mutant of Demoted: the primary that is online makes way.
Demoted_Online(m) == IF IsPrimary(m) THEN [nodes[m] EXCEPT !.role = "standby"] ELSE nodes[m]

\* Every primary makes way, whether it is online or not.
Demoted(m) ==
    IF nodes[m].role = "primary" THEN [nodes[m] EXCEPT !.role = "standby"] ELSE nodes[m]

\* failover: to a node that is online, with a token of its own.
Failover(n) ==
    /\ n \in DOMAIN nodes /\ nodes[n].status = "online"
    /\ nodes' = [m \in DOMAIN nodes |-> IF m = n THEN [nodes[m] EXCEPT !.role = "primary"]
                                                 ELSE Demoted(m)]
    /\ Generated(n)
    /\ deposed' = (deposed \cup {m \in DOMAIN nodes : nodes[m].role = "primary"}) \ {n}
    /\ UNCHANGED time

\* update_heartbeat: whoever reports is online again, in the role it has.
Heartbeat(n) ==
    /\ n \in DOMAIN nodes
    /\ nodes' = [nodes EXCEPT ![n] = [role |-> @.role, status |-> "online", beat |-> time]]
    /\ UNCHANGED <<time, tokens, current, deposed>>

\* detect_failure.
DetectFailure(n) ==
    /\ n \in DOMAIN nodes /\ nodes[n].status = "online"
    /\ time - nodes[n].beat > Timeout
    /\ nodes' = [nodes EXCEPT ![n].status = "failed"]
    /\ UNCHANGED <<time, tokens, current, deposed>>

Next ==
    \/ Tick
    \/ \E n \in Nodes : Register(n) \/ GenerateToken(n) \/ Failover(n) \/ Heartbeat(n) \/ DetectFailure(n)

Spec == Init /\ [][Next]_vars

-----------------------------------------------------------------------------
\* One node at most is the primary, also when one that had failed reports again after
\* the failover; and the current token is the primary's.
OnePrimary ==
    /\ \A n, m \in DOMAIN nodes : IsPrimary(n) /\ IsPrimary(m) => n = m
    /\ \A n \in deposed : ~IsPrimary(n)
    /\ current # None => /\ tokens[current].creator \notin deposed
                         /\ nodes[tokens[current].creator].role = "primary"

\* Not so: the token of a node that was replaced is no longer valid (C-06).
DeposedIsFenced == \A t \in DOMAIN tokens : tokens[t].creator \in deposed => ~Valid(t)
=============================================================================
