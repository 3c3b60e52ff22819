---------------------------- MODULE OrderProtocol ----------------------------
(***************************************************************************)
(* What B-02 promises about its orders, without rows, versions, locks or   *)
(* cores: each order is submitted once, an unknown outcome is only ever    *)
(* resolved by finding the order, an exchange order id belongs to one      *)
(* order of its venue for ever, and trades are only ever added, once per   *)
(* trade key and to the order they name, cancelled or not.                 *)
(***************************************************************************)
EXTENDS Integers

CONSTANTS Intents, VenueOf, OrderIds, Trades, None

VARIABLES
    submission, cancel, order, \* of each intent
    trades                     \* the trades booked, each with its intent

protocolVars == <<submission, cancel, order, trades>>

Init ==
    /\ submission = [i \in Intents |-> "NOT_SENT"]
    /\ cancel = [i \in Intents |-> "NONE"]
    /\ order = [i \in Intents |-> None]
    /\ trades = {}

Submit(i) ==
    /\ submission[i] = "NOT_SENT"
    /\ submission' = [submission EXCEPT ![i] = "IN_FLIGHT"]
    /\ UNCHANGED <<cancel, order, trades>>

\* The order is known to be at its venue: from the answer to the submission, or
\* from a later query when that answer was lost.
Bind(i, o) ==
    /\ submission[i] \in {"IN_FLIGHT", "UNKNOWN"}
    /\ \A j \in Intents : VenueOf[j] = VenueOf[i] => order[j] # o
    /\ submission' = [submission EXCEPT ![i] = "ACCEPTED"]
    /\ order' = [order EXCEPT ![i] = o]
    /\ UNCHANGED <<cancel, trades>>

\* Only the answer to the submission itself rejects an order.
Reject(i) ==
    /\ submission[i] = "IN_FLIGHT"
    /\ submission' = [submission EXCEPT ![i] = "DEFINITELY_REJECTED"]
    /\ UNCHANGED <<cancel, order, trades>>

LoseAnswer(i) ==
    /\ submission[i] = "IN_FLIGHT"
    /\ submission' = [submission EXCEPT ![i] = "UNKNOWN"]
    /\ UNCHANGED <<cancel, order, trades>>

RequestCancel(i) ==
    /\ submission[i] = "ACCEPTED"
    /\ cancel[i] \in {"NONE", "UNKNOWN"}
    /\ cancel' = [cancel EXCEPT ![i] = "REQUESTED"]
    /\ UNCHANGED <<submission, order, trades>>

AnswerCancel(i, answer) ==
    /\ cancel[i] \in {"REQUESTED", "UNKNOWN"}
    /\ cancel' = [cancel EXCEPT ![i] = answer]
    /\ UNCHANGED <<submission, order, trades>>

\* A trade of the bound order is booked under a key no booked trade has.
Book(i, t) ==
    /\ order[i] = t.order
    /\ VenueOf[i] = t.venue
    /\ \A r \in trades :
          ~(r.trade.venue = t.venue /\ r.trade.order = t.order /\ r.trade.id = t.id)
    /\ trades' = trades \cup {[intent |-> i, trade |-> t]}
    /\ UNCHANGED <<submission, cancel, order>>

Next ==
    \E i \in Intents :
        \/ Submit(i) \/ Reject(i) \/ LoseAnswer(i) \/ RequestCancel(i)
        \/ \E o \in OrderIds : Bind(i, o)
        \/ \E answer \in {"UNKNOWN", "CONFIRMED"} : AnswerCancel(i, answer)
        \/ \E t \in Trades : Book(i, t)

Spec == Init /\ [][Next]_protocolVars
=============================================================================
