---------------------------- MODULE AccountLedger ----------------------------
(***************************************************************************)
(* The double-entry ledger (accounting.rs): a business event is appended   *)
(* with its lines in one transaction, once per business key, and is never  *)
(* changed.  An account stands for the pair of account and venue.          *)
(***************************************************************************)
EXTENDS Integers, Sequences, FiniteSets, Sums

CONSTANTS
    Cores,
    Events,   \* [id, key, account, lines]: what callers try to record
    None

LedgerDirection == {"DEBIT", "CREDIT"}

VARIABLES
    posted,   \* ledger_events with their ledger_lines: a row by event id, or None
    tx,       \* the open transaction of a core, or None
    told      \* history: <<id, key>> of every event a caller was answered

vars == <<posted, tx, told>>

EventIds == {e.id : e \in Events}
Keys == {e.key : e \in Events}
Accounts == {e.account : e \in Events} \cup
            {l.account : l \in UNION {{e.lines[i] : i \in DOMAIN e.lines} : e \in Events}}
LineAssets == {l.asset : l \in UNION {{e.lines[i] : i \in DOMAIN e.lines} : e \in Events}}

Line == [account : Accounts, asset : LineAssets, direction : LedgerDirection, amount : Int]

LedgerAssumption ==
    \A e \in Events : /\ e.lines \in Seq(Line)
                      /\ None # [key |-> e.key, lines |-> e.lines]

\* Sum of the amounts of some of the lines.
SumOf(lines, some) == SumOver([i \in some |-> lines[i].amount], some)

Side(lines, account, asset, direction) ==
    SumOf(lines, {i \in DOMAIN lines : /\ lines[i].account = account
                                       /\ lines[i].asset = asset
                                       /\ lines[i].direction = direction})

\* Debit minus credit, as balance() computes it over one event's lines.
Net(lines, account, asset) ==
    Side(lines, account, asset, "DEBIT") - Side(lines, account, asset, "CREDIT")

\* Mutant of Valid: the event balances over all assets.
Valid_AccountOnly(e) ==
    /\ Len(e.lines) >= 2
    /\ \A i \in DOMAIN e.lines : e.lines[i].account = e.account /\ e.lines[i].amount > 0
    /\ LET Total(d) == SumOf(e.lines, {i \in DOMAIN e.lines : e.lines[i].direction = d})
       IN  Total("DEBIT") = Total("CREDIT")

\* validate_event: at least two lines, all of the event's account, positive, and
\* balanced in each asset.
Valid(e) ==
    /\ Len(e.lines) >= 2
    /\ \A i \in DOMAIN e.lines : e.lines[i].account = e.account /\ e.lines[i].amount > 0
    /\ \A asset \in LineAssets : Net(e.lines, e.account, asset) = 0

TypeOK ==
    /\ DOMAIN posted = EventIds
    /\ \A k \in EventIds : posted[k] # None => posted[k].key \in Keys
    /\ told \subseteq EventIds \X Keys
    /\ \A c \in Cores : tx[c] # None => /\ tx[c].event \in Events
                                        /\ tx[c].lines \in -1..Len(tx[c].event.lines)

Init ==
    /\ posted = [k \in EventIds |-> None]
    /\ tx = [c \in Cores |-> None]
    /\ told = {}

-----------------------------------------------------------------------------
Recorded == {k \in EventIds : posted[k] # None}
Under(key) == {k \in Recorded : posted[k].key = key}

\* The business key is known: the same event is answered again (its id alone is
\* compared), another is refused.
Replay(c, e) ==
    /\ tx[c] = None /\ Valid(e)
    /\ e.id \in Under(e.key)
    /\ told' = told \cup {<<e.id, e.key>>}
    /\ UNCHANGED <<posted, tx>>

Begin(c, e) ==
    /\ tx[c] = None /\ Valid(e)
    /\ Under(e.key) = {}
    /\ tx' = [tx EXCEPT ![c] = [event |-> e, lines |-> -1]]
    /\ UNCHANGED <<posted, told>>

\* Primary key and unique business key: an uncommitted row makes the insert
\* wait, a committed one refuses it.
KeysFree(c) ==
    LET e == tx[c].event
    IN  /\ e.id \notin Recorded /\ Under(e.key) = {}
        /\ \A d \in Cores \ {c} : tx[d] # None /\ tx[d].lines >= 0 =>
              tx[d].event.id # e.id /\ tx[d].event.key # e.key

AppendEvent(c) ==
    /\ tx[c] # None /\ tx[c].lines = -1
    /\ KeysFree(c)
    /\ tx' = [tx EXCEPT ![c].lines = 0]
    /\ UNCHANGED <<posted, told>>

AppendLine(c) ==
    /\ tx[c] # None /\ tx[c].lines \in 0..(Len(tx[c].event.lines) - 1)
    /\ tx' = [tx EXCEPT ![c].lines = @ + 1]
    /\ UNCHANGED <<posted, told>>

\* The event and its lines become visible; load_event answers the caller.
Commit(c) ==
    /\ tx[c] # None /\ tx[c].lines = Len(tx[c].event.lines)
    /\ LET e == tx[c].event
       IN  /\ posted' = [posted EXCEPT ![e.id] = [key |-> e.key, lines |-> e.lines]]
           /\ told' = told \cup {<<e.id, e.key>>}
    /\ tx' = [tx EXCEPT ![c] = None]

Abort(c) ==
    /\ tx[c] # None
    /\ tx' = [tx EXCEPT ![c] = None]
    /\ UNCHANGED <<posted, told>>

Next ==
    \E c \in Cores :
        \/ \E e \in Events : Replay(c, e) \/ Begin(c, e)
        \/ AppendEvent(c) \/ AppendLine(c) \/ Commit(c) \/ Abort(c)

Spec == Init /\ [][Next]_vars

-----------------------------------------------------------------------------
(* What the module promises.                                               *)

\* What balance() adds up over all committed lines is zero in every account and
\* asset at any moment a reader looks, between any steps of two recording cores:
\* only whole and balanced events are ever seen (B-04 requirement R01).
BooksBalance ==
    \A account \in Accounts, asset \in LineAssets :
        SumOver([k \in Recorded |-> Net(posted[k].lines, account, asset)], Recorded) = 0

\* A business key is recorded once: whoever was answered finds that event under
\* the key, and it is the only one, however many cores record at once.
RecordedOnce ==
    /\ \A t \in told : Under(t[2]) = {t[1]}
    /\ \A j, k \in Recorded : posted[j].key = posted[k].key => j = k

\* Not kept (B-04 requirement R02 forbids drift of the content under a key): an
\* event whose recording is answered is recorded with the lines given.
ReplayKeepsContent ==
    [][\A c \in Cores, e \in Events : Replay(c, e) => posted[e.id].lines = e.lines]_vars

=============================================================================
