--------------------------- MODULE ControlCommands ---------------------------
(***************************************************************************)
(* Operator commands (control.rs): a request is stored once as a command,  *)
(* is completed or expires, and leaves an audit row for what was decided.  *)
(*                                                                         *)
(* Cores may work at once (the domain lock of an old core can be lost), so *)
(* each awaited statement that can wait or fail is a step.  The time a     *)
(* caller passes is its own: calls need not come in the order of times.    *)
(***************************************************************************)
EXTENDS Integers, Sequences, FiniteSets

CONSTANTS
    Cores,
    Requests,   \* [command, request, expires]: what may be submitted
    Results,    \* results a caller may report with a completion
    MaxTime,    \* bound: callers pass a time in 1..MaxTime
    MaxAudits,  \* bound: audit rows of one command
    None

VARIABLES
    commands,   \* control_commands: a row, or None
    audits,     \* control_audit_logs, by command in order
    tx,         \* the open transaction of a core, or None
    acked       \* history: the requests a caller was answered with success

vars == <<commands, audits, tx, acked>>

CommandIds == {r.command : r \in Requests}
Completions == {"SUCCEEDED", "FAILED", "PARTIAL"}
ControlStatus == {"RECEIVED", "EXECUTING", "EXPIRED"} \cup Completions
Moments == 1..MaxTime

Row == [request : {r.request : r \in Requests}, expires : Nat,
        status : ControlStatus, result : Results \cup {None, "expired"}]

ControlAssumption ==
    /\ \A r \in Requests : r.expires \in Nat \ {0}
    /\ None \notin Results \cup Row
    /\ MaxTime \in Nat /\ MaxAudits \in Nat

TypeOK ==
    /\ commands \in [CommandIds -> Row \cup {None}]
    /\ audits \in [CommandIds -> Seq(ControlStatus \cup Results)]
    /\ acked \subseteq Requests
    /\ \A c \in Cores : tx[c] # None =>
          /\ tx[c].step \in {"insert", "inserted", "complete"}
          /\ tx[c].command \in CommandIds
          /\ tx[c].row \in Row

Init ==
    /\ commands = [k \in CommandIds |-> None]
    /\ audits = [k \in CommandIds |-> <<>>]
    /\ tx = [c \in Cores |-> None]
    /\ acked = {}

-----------------------------------------------------------------------------
Stored == {k \in CommandIds : commands[k] # None}
Bound(request) == {k \in Stored : commands[k].request = request}

\* submit finds the request: the same command is answered again, another refused.
SubmitReplay(c, r) ==
    /\ tx[c] = None
    /\ r.command \in Bound(r.request)
    /\ acked' = acked \cup {r}
    /\ UNCHANGED <<commands, audits, tx>>

\* submit does not find it and prepares the row, already expired if it is late.
SubmitNew(c, r, now) ==
    /\ tx[c] = None
    /\ Bound(r.request) = {}
    /\ tx' = [tx EXCEPT ![c] =
          [step |-> "insert", command |-> r.command,
           row |-> [request |-> r.request, expires |-> r.expires, result |-> None,
                    status |-> IF r.expires <= now THEN "EXPIRED" ELSE "RECEIVED"]]]
    /\ UNCHANGED <<commands, audits, acked>>

\* Mutant of KeysFree: no unique index on request_id, the lookup alone guards it.
KeysFree_CommandOnly(c) ==
    /\ tx[c].command \notin Stored
    /\ \A d \in Cores \ {c} : tx[d] # None /\ tx[d].step = "inserted" =>
          tx[d].command # tx[c].command

\* The unique keys: a committed row with either id refuses the insert, an
\* uncommitted one makes it wait.
KeysFree(c) ==
    /\ tx[c].command \notin Stored
    /\ Bound(tx[c].row.request) = {}
    /\ \A d \in Cores \ {c} : tx[d] # None /\ tx[d].step = "inserted" =>
          /\ tx[d].command # tx[c].command
          /\ tx[d].row.request # tx[c].row.request

InsertCommand(c) ==
    /\ tx[c] # None /\ tx[c].step = "insert"
    /\ KeysFree(c)
    /\ tx' = [tx EXCEPT ![c].step = "inserted"]
    /\ UNCHANGED <<commands, audits, acked>>

\* The command and its first audit row become visible together.
CommitSubmit(c) ==
    /\ tx[c] # None /\ tx[c].step = "inserted"
    /\ commands' = [commands EXCEPT ![tx[c].command] = tx[c].row]
    /\ audits' = [audits EXCEPT ![tx[c].command] = <<tx[c].row.status>>]
    /\ acked' = acked \cup {r \in Requests : /\ r.command = tx[c].command
                                             /\ r.request = tx[c].row.request
                                             /\ r.expires = tx[c].row.expires}
    /\ tx' = [tx EXCEPT ![c] = None]

\* Mutant of RowFree: complete reads the row without FOR UPDATE.
RowFree_NoLock(c, k) == TRUE

\* SELECT ... FOR UPDATE.
RowFree(c, k) ==
    \A d \in Cores \ {c} : ~(tx[d] # None /\ tx[d].step = "complete" /\ tx[d].command = k)

\* What complete decides on the locked row: an expired or late command becomes
\* (or stays) EXPIRED, whatever it was; else the caller's result is taken.
Settled(row, status, result, now) ==
    IF row.status = "EXPIRED" \/ row.expires <= now
    THEN [row EXCEPT !.status = "EXPIRED", !.result = "expired"]
    ELSE [row EXCEPT !.status = status, !.result = result]

Complete(c, k, status, result, now) ==
    /\ tx[c] = None
    /\ k \in Stored
    /\ RowFree(c, k)
    /\ LET row == Settled(commands[k], status, result, now)
       IN  /\ row.status \in Completions \cup {"EXPIRED"}
           /\ tx' = [tx EXCEPT ![c] = [step |-> "complete", command |-> k, row |-> row]]
    /\ UNCHANGED <<commands, audits, acked>>

\* Mutant of CommitComplete: the completion is committed before, and without, its audit row.
CommitComplete_NoAudit(c) ==
    /\ tx[c] # None /\ tx[c].step = "complete"
    /\ commands' = [commands EXCEPT ![tx[c].command] = tx[c].row]
    /\ tx' = [tx EXCEPT ![c] = None]
    /\ UNCHANGED <<audits, acked>>

\* Only a completion is audited; the expiry in complete is not.
CommitComplete(c) ==
    /\ tx[c] # None /\ tx[c].step = "complete"
    /\ LET k == tx[c].command
           row == tx[c].row
       IN  /\ commands' = [commands EXCEPT ![k] = row]
           /\ IF row.status = "EXPIRED" THEN UNCHANGED audits
              ELSE /\ Len(audits[k]) < MaxAudits
                   /\ audits' = [audits EXCEPT ![k] = Append(@, row.result)]
    /\ tx' = [tx EXCEPT ![c] = None]
    /\ UNCHANGED acked

\* A statement fails, the process ends or the connection is lost.
Abort(c) ==
    /\ tx[c] # None
    /\ tx' = [tx EXCEPT ![c] = None]
    /\ UNCHANGED <<commands, audits, acked>>

Next ==
    \E c \in Cores :
        \/ \E r \in Requests : SubmitReplay(c, r) \/ \E now \in Moments : SubmitNew(c, r, now)
        \/ InsertCommand(c) \/ CommitSubmit(c) \/ CommitComplete(c) \/ Abort(c)
        \/ \E k \in CommandIds, status \in ControlStatus, result \in Results, now \in Moments :
              Complete(c, k, status, result, now)

Spec == Init /\ [][Next]_vars

-----------------------------------------------------------------------------
(* What the module promises.                                               *)

\* An EXPIRED command is never executed or completed any more, whichever cores
\* complete it and whatever their clocks say (B-04 requirement R09; the row
\* lock of complete is what keeps a decision from being overtaken).
ExpiredIsFinal ==
    [][\A k \in CommandIds : commands[k] # None /\ commands[k].status = "EXPIRED"
          => commands'[k] # None /\ commands'[k].status = "EXPIRED"]_vars

\* A request id stands for one command for good: whoever was told that a request
\* was taken finds that very command under it, and no other command has its id.
RequestsBound ==
    /\ \A r \in acked : Bound(r.request) = {r.command}
    /\ \A j, k \in Stored : commands[j].request = commands[k].request => j = k

\* The result a command shows is the last one audited, so every result it ever
\* showed is found in the log; only an expiry shows without an entry.
ResultsTraced ==
    \A k \in Stored :
        /\ audits[k] # <<>>
        /\ commands[k].status \in Completions => audits[k][Len(audits[k])] = commands[k].result
        /\ commands[k].status \in Completions => Len(audits[k]) > 1

=============================================================================
