----------------------------- MODULE OrderFacts -----------------------------
(***************************************************************************)
(* The B-02 order facts: crates/core/src/order.rs over the tables of       *)
(* migrations/0002_order_facts.sql.                                        *)
(*                                                                         *)
(* Every handler of OrderCore but ensure_intent has one shape: a           *)
(* transaction locks the order's row and reads it (lock_fact), checks that *)
(* the fact to record fits the row, and writes the next row, one immutable *)
(* action fact numbered with the next version, and perhaps an              *)
(* investigation or a trade.  A handler here is the step that locks and    *)
(* decides; what it decided stays in tx[c], invisible to the others, until *)
(* Commit writes it or Abort drops it.                                     *)
(*                                                                         *)
(* Several cores work on one order: a lost lock session lets a second core *)
(* be acquired for a domain (PaperCore), and lock_fact goes by the intent  *)
(* id alone, whatever the domain of the core.                              *)
(***************************************************************************)
EXTENDS Integers, FiniteSets, Sums

CONSTANTS
    Cores,    \* OrderCore values, of any number of processes
    Intents,  \* B-01 order intents
    VenueOf,  \* the venue of each intent
    Ordered,  \* the quantity each intent orders
    OrderIds, \* exchange order ids
    QueryIds, \* ids of order queries
    Trades,   \* the trade reports that may arrive
    MaxVersion, \* bound: the facts recorded of one order
    None      \* no order id, no query, no trade, no transaction

\* A report's digest covers its whole content; fee_asset, price and the like
\* are all in `content'.
TradeType == [venue : {VenueOf[i] : i \in Intents}, order : OrderIds,
              id : Nat, quantity : Nat, content : Nat]

OrderAssumption ==
    /\ Ordered \in [Intents -> Nat \ {0}]
    /\ Trades \subseteq TradeType
    /\ MaxVersion \in Nat
    /\ None \notin OrderIds \cup QueryIds \cup Trades

VARIABLES
    known,          \* intents with an order_facts row
    fact,           \* the row of each intent
    actions,        \* rows of order_action_facts
    investigations, \* rows of order_investigations
    trades,         \* rows of trade_facts: a report and the intent it is booked on
    tx              \* what the open transaction of each core will write

tables == <<known, fact, actions, investigations, trades>>
vars == <<known, fact, actions, investigations, trades, tx>>

SubmissionStatus == {"NOT_SENT", "IN_FLIGHT", "ACCEPTED", "DEFINITELY_REJECTED", "UNKNOWN"}
CancelStatus == {"NONE", "REQUESTED", "UNKNOWN", "CONFIRMED"}
ReconciliationStatus == {"PENDING", "MATCHED", "CONFLICT"}
ActionNames == {
    "SUBMIT_STARTED", "SUBMIT_ACCEPTED", "SUBMIT_REJECTED", "SUBMIT_UNKNOWN",
    "QUERY_NOT_FOUND", "QUERY_FOUND",
    "CANCEL_REQUESTED", "CANCEL_UNKNOWN", "CANCEL_CONFIRMED",
    "TRADE_RECORDED", "TRADE_DUPLICATE", "TRADE_CONFLICT"}

OrderFactSnapshot ==
    [submission : SubmissionStatus, cancel : CancelStatus,
     reconciliation : ReconciliationStatus, order : OrderIds \cup {None},
     filled : Nat, version : 0 .. MaxVersion]

\* The row ensure_intent inserts.
NewFact == [submission |-> "NOT_SENT", cancel |-> "NONE", reconciliation |-> "PENDING",
            order |-> None, filled |-> 0, version |-> 0]

TradeKey(t) == <<t.venue, t.order, t.id>>

\* trade_digest covers everything a report says.
TradeDigest(t) == <<t.venue, t.order, t.id, t.quantity, t.content>>

\* snapshot and its parsers: a row with a status they do not know is an error.
Readable(row) ==
    /\ row.submission \in SubmissionStatus
    /\ row.cancel \in CancelStatus
    /\ row.reconciliation \in ReconciliationStatus

\* recover_nonterminal: the orders a restart still has to settle.
RecoverNonterminal ==
    {i \in known : Readable(fact[i]) /\ fact[i].submission # "DEFINITELY_REJECTED"}

-----------------------------------------------------------------------------

\* No open transaction holds the row of i.
RowLockFree(i) == \A c \in Cores : tx[c] # None => tx[c].intent # i

\* lock_fact: core c gets the row of i.
LockFact(c, i) ==
    /\ tx[c] = None
    /\ i \in known
    /\ RowLockFree(i)
    /\ Readable(fact[i])
    /\ fact[i].version < MaxVersion

\* The transaction of c will write row `new' as the next version of i, with the
\* action fact, the investigation and the trade given.
Prepare(c, i, new, action, query, trade) ==
    /\ tx' = [tx EXCEPT ![c] =
                [intent |-> i, action |-> action, query |-> query, trade |-> trade,
                 row |-> [new EXCEPT !.version = fact[i].version + 1]]]
    /\ UNCHANGED tables

Init ==
    /\ known = {}
    /\ fact = [i \in Intents |-> NewFact]
    /\ actions = {}
    /\ investigations = {}
    /\ trades = {}
    /\ tx = [c \in Cores |-> None]

\* ensure_intent: one statement, INSERT ... ON CONFLICT DO NOTHING.
EnsureIntent(i) ==
    /\ i \notin known
    /\ known' = known \cup {i}
    /\ UNCHANGED <<fact, actions, investigations, trades, tx>>

\* submit_started
SubmitStarted(c, i) ==
    /\ LockFact(c, i)
    /\ fact[i].submission = "NOT_SENT"
    /\ Prepare(c, i, [fact[i] EXCEPT !.submission = "IN_FLIGHT"], "SUBMIT_STARTED", None, None)

\* submit_result, SubmitResult::Accepted
SubmitAccepted(c, i, o) ==
    /\ LockFact(c, i)
    /\ fact[i].submission = "IN_FLIGHT"
    /\ Prepare(c, i, [fact[i] EXCEPT !.submission = "ACCEPTED", !.order = o],
               "SUBMIT_ACCEPTED", None, None)

\* submit_result, SubmitResult::DefinitelyRejected
SubmitRejected(c, i) ==
    /\ LockFact(c, i)
    /\ fact[i].submission = "IN_FLIGHT"
    /\ Prepare(c, i, [fact[i] EXCEPT !.submission = "DEFINITELY_REJECTED"],
               "SUBMIT_REJECTED", None, None)

\* submit_result, SubmitResult::Unknown
SubmitUnknown(c, i) ==
    /\ LockFact(c, i)
    /\ fact[i].submission = "IN_FLIGHT"
    /\ Prepare(c, i, [fact[i] EXCEPT !.submission = "UNKNOWN"], "SUBMIT_UNKNOWN", None, None)

\* query_result, QueryResult::NotFound
QueryNotFound(c, i, q) ==
    /\ LockFact(c, i)
    /\ fact[i].submission = "UNKNOWN"
    /\ Prepare(c, i, fact[i], "QUERY_NOT_FOUND", q, None)

\* Mutant of QueryFound: any order may be investigated.
QueryFound_AnyTime(c, i, q, o) ==
    /\ LockFact(c, i)
    /\ fact[i].submission \in {"UNKNOWN", "ACCEPTED"}
    /\ Prepare(c, i, [fact[i] EXCEPT !.submission = "ACCEPTED", !.order = o],
               "QUERY_FOUND", q, None)

\* query_result, QueryResult::Found
QueryFound(c, i, q, o) ==
    /\ LockFact(c, i)
    /\ fact[i].submission = "UNKNOWN"
    /\ Prepare(c, i, [fact[i] EXCEPT !.submission = "ACCEPTED", !.order = o],
               "QUERY_FOUND", q, None)

\* cancel_requested
CancelRequested(c, i) ==
    /\ LockFact(c, i)
    /\ fact[i].submission = "ACCEPTED"
    /\ fact[i].cancel \in {"NONE", "UNKNOWN"}
    /\ Prepare(c, i, [fact[i] EXCEPT !.cancel = "REQUESTED"], "CANCEL_REQUESTED", None, None)

\* cancel_result
CancelResult(c, i, status) ==
    /\ LockFact(c, i)
    /\ fact[i].submission = "ACCEPTED"
    /\ fact[i].cancel \in {"REQUESTED", "UNKNOWN"}
    /\ Prepare(c, i, [fact[i] EXCEPT !.cancel = status],
               IF status = "UNKNOWN" THEN "CANCEL_UNKNOWN" ELSE "CANCEL_CONFIRMED", None, None)

\* validate_trade: a report of nothing is refused.
ValidateTrade(t) == t.quantity > 0

\* The identity check of record_trade.
MatchesIdentity(i, t) == fact[i].order = t.order /\ VenueOf[i] = t.venue

\* record_trade accepts the report t on the row of i, which it has locked.
TradeArrives(c, i, t) ==
    /\ ValidateTrade(t)
    /\ LockFact(c, i)
    /\ MatchesIdentity(i, t)

\* What the committed rows hold under the key of t.
Booked(t) == {r \in trades : TradeKey(r.trade) = TradeKey(t)}

\* record_trade: the key is new.  The fill is added; a fill beyond the order is a
\* conflict.
RecordTrade(c, i, t) ==
    /\ TradeArrives(c, i, t)
    /\ Booked(t) = {}
    /\ LET filled == fact[i].filled + t.quantity
           status == IF filled <= Ordered[i] THEN "MATCHED" ELSE "CONFLICT"
       IN  Prepare(c, i, [fact[i] EXCEPT !.filled = filled, !.reconciliation = status],
                   "TRADE_RECORDED", None, t)

\* Mutant of DuplicateTrade: the fill is counted again.
DuplicateTrade_Recounts(c, i, t) ==
    /\ TradeArrives(c, i, t)
    /\ \E r \in Booked(t) : TradeDigest(r.trade) = TradeDigest(t)
    /\ Prepare(c, i, [fact[i] EXCEPT !.filled = @ + t.quantity], "TRADE_DUPLICATE", None, None)

\* record_trade: the key is known and so is the content.
DuplicateTrade(c, i, t) ==
    /\ TradeArrives(c, i, t)
    /\ \E r \in Booked(t) : TradeDigest(r.trade) = TradeDigest(t)
    /\ Prepare(c, i, fact[i], "TRADE_DUPLICATE", None, None)

\* record_trade: the key is known with other content.  The conflict is committed
\* before the call fails.
ConflictingTrade(c, i, t) ==
    /\ TradeArrives(c, i, t)
    /\ \E r \in Booked(t) : TradeDigest(r.trade) # TradeDigest(t)
    /\ Prepare(c, i, [fact[i] EXCEPT !.reconciliation = "CONFLICT"], "TRADE_CONFLICT", None, None)

\* The unique indexes accept what a transaction writes: exchange_order_id within
\* its venue, the query id, the trade key, and one action fact per version.  A
\* statement that meets an uncommitted clashing row waits for that transaction,
\* which decides as if the statement came after it.
NoUniqueViolation(w) ==
    /\ \A i \in known \ {w.intent} :
          VenueOf[i] = VenueOf[w.intent] /\ w.row.order # None => fact[i].order # w.row.order
    /\ w.query \notin {r.query : r \in investigations}
    /\ w.trade # None => Booked(w.trade) = {}
    /\ \A a \in actions : ~(a.intent = w.intent /\ a.version = w.row.version)

\* The commit becomes durable, whether or not the caller learns of it.
Commit(c) ==
    /\ tx[c] # None
    /\ LET w == tx[c]
       IN  /\ NoUniqueViolation(w)
           /\ fact' = [fact EXCEPT ![w.intent] = w.row]
           /\ actions' = actions \cup
                 {[intent |-> w.intent, version |-> w.row.version, action |-> w.action]}
           /\ investigations' =
                 IF w.query = None THEN investigations
                 ELSE investigations \cup {[query |-> w.query, intent |-> w.intent]}
           /\ trades' = IF w.trade = None THEN trades
                        ELSE trades \cup {[intent |-> w.intent, trade |-> w.trade]}
    /\ tx' = [tx EXCEPT ![c] = None]
    /\ UNCHANGED known

\* A unique index refuses a statement, a statement fails, the future of the call
\* is dropped or the process dies: the transaction rolls back.
Abort(c) ==
    /\ tx[c] # None
    /\ tx' = [tx EXCEPT ![c] = None]
    /\ UNCHANGED tables

Next ==
    \/ \E i \in Intents : EnsureIntent(i)
    \/ \E c \in Cores : Commit(c) \/ Abort(c)
    \/ \E c \in Cores, i \in Intents :
          \/ SubmitStarted(c, i)
          \/ \E o \in OrderIds : SubmitAccepted(c, i, o)
          \/ SubmitRejected(c, i)
          \/ SubmitUnknown(c, i)
          \/ \E q \in QueryIds : QueryNotFound(c, i, q)
          \/ \E q \in QueryIds, o \in OrderIds : QueryFound(c, i, q, o)
          \/ CancelRequested(c, i)
          \/ \E s \in {"UNKNOWN", "CONFIRMED"} : CancelResult(c, i, s)
          \/ \E t \in Trades : RecordTrade(c, i, t) \/ DuplicateTrade(c, i, t)
                                   \/ ConflictingTrade(c, i, t)

Spec == Init /\ [][Next]_vars

-----------------------------------------------------------------------------
\* Every variable stays in its range.
TypeOK ==
    /\ known \subseteq Intents
    /\ fact \in [Intents -> OrderFactSnapshot]
    /\ actions \subseteq [intent : Intents, version : 1 .. MaxVersion, action : ActionNames]
    /\ investigations \subseteq [query : QueryIds, intent : Intents]
    /\ trades \subseteq [intent : Intents, trade : Trades]
    /\ tx \in [Cores -> {None} \cup
                 [intent : Intents, action : ActionNames, query : QueryIds \cup {None},
                  trade : Trades \cup {None}, row : OrderFactSnapshot]]

\* What a handler read under the row lock is still the row when it writes: its
\* version is the next one and it may not undo a fill or a binding that another
\* core committed meanwhile.
SnapshotHeld ==
    \A c \in Cores : tx[c] # None =>
        LET now == fact[tx[c].intent] next == tx[c].row
        IN  /\ next.version = now.version + 1
            /\ next.filled >= now.filled
            /\ now.order # None => next.order = now.order

\* B02-R07: the filled quantity of an order is the sum of the distinct trades
\* booked on it, however often and in whatever order they are reported; beyond the
\* quantity of the order, the row says CONFLICT whatever is reported next.
FilledIsSumOfTrades ==
    \A i \in Intents :
        /\ LET own == {r \in trades : r.intent = i}
           IN  fact[i].filled = SumOver([r \in own |-> r.trade.quantity], own)
        /\ fact[i].filled > Ordered[i] => fact[i].reconciliation = "CONFLICT"

\* A trade key is booked once, on the one intent that is bound to its exchange
\* order: two intents of a venue never share an order id, and an order is bound
\* exactly when it is accepted.  An order with trades, or with a cancellation on its
\* way, is among those a restart recovers.
TradesBelong ==
    /\ \A r, s \in trades : TradeKey(r.trade) = TradeKey(s.trade) => r = s
    /\ \A r \in trades : MatchesIdentity(r.intent, r.trade)
    /\ \A i, j \in Intents :
          VenueOf[i] = VenueOf[j] /\ fact[i].order = fact[j].order => fact[i].order = None \/ i = j
    /\ \A i \in Intents : fact[i].order # None <=> fact[i].submission = "ACCEPTED"
    /\ {r.intent : r \in trades} \cup {i \in Intents : fact[i].cancel # "NONE"}
          \subseteq RecoverNonterminal

\* B02-R03: an intent is submitted at most once.  Neither UNKNOWN nor a restart
\* leads back to a state from which it could be submitted again.
SubmittedOnce ==
    \A a, b \in actions :
        (a.action = "SUBMIT_STARTED" /\ b.action = "SUBMIT_STARTED" /\ a.intent = b.intent)
            => a = b

SubmissionAfter ==
    [SUBMIT_STARTED |-> "IN_FLIGHT", SUBMIT_ACCEPTED |-> "ACCEPTED",
     SUBMIT_REJECTED |-> "DEFINITELY_REJECTED", SUBMIT_UNKNOWN |-> "UNKNOWN",
     QUERY_NOT_FOUND |-> "UNKNOWN", QUERY_FOUND |-> "ACCEPTED"]

CancelAfter ==
    [CANCEL_REQUESTED |-> "REQUESTED", CANCEL_UNKNOWN |-> "UNKNOWN",
     CANCEL_CONFIRMED |-> "CONFIRMED"]

ActionsOf(i) == {a \in actions : a.intent = i}

\* The latest of the action facts of i that `after' interprets leads to `status';
\* without any, the status is still the initial one.
LatestExplains(i, after, initial, status) ==
    LET facts == {a \in ActionsOf(i) : a.action \in DOMAIN after}
    IN  IF facts = {} THEN status = initial
        ELSE \E a \in facts : /\ \A b \in facts : b.version <= a.version
                              /\ status = after[a.action]

\* The immutable action facts explain the current row: they are numbered without
\* a gap or a duplicate up to the row's version, and the latest submission and
\* cancellation facts name the states the row is in.
ActionsExplainRow ==
    \A i \in Intents :
        /\ {a.version : a \in ActionsOf(i)} = 1 .. fact[i].version
        /\ Cardinality(ActionsOf(i)) = fact[i].version
        /\ LatestExplains(i, SubmissionAfter, "NOT_SENT", fact[i].submission)
        /\ LatestExplains(i, CancelAfter, "NONE", fact[i].cancel)

\* B-02 design, section 6: changed trade fields put the order in CONFLICT for
\* manual investigation and are not silently overwritten.
ConflictIsKept ==
    [][\A i \in Intents :
          fact[i].reconciliation = "CONFLICT" => fact'[i].reconciliation = "CONFLICT"]_vars

\* Rows, locks, versions and retries together implement the protocol of a single
\* order.
Protocol == INSTANCE OrderProtocol WITH
    submission <- [i \in Intents |-> fact[i].submission],
    cancel <- [i \in Intents |-> fact[i].cancel],
    order <- [i \in Intents |-> fact[i].order]
ImplementsProtocol == Protocol!Spec
=============================================================================
