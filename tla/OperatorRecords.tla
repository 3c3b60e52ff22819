--------------------------- MODULE OperatorRecords ---------------------------
(***************************************************************************)
(* The records operators keep in memory: alerts (crates/core/src/          *)
(* alert_manager.rs), operations (operations.rs), the listed alerts of     *)
(* alert.rs and the backup tasks of backup_strategy.rs.                    *)
(*                                                                         *)
(* Every manager names a record by the caller's clock and the number of    *)
(* records it has, answers with a copy, and moves a record it is given the *)
(* id of to any state, whatever state it is in.  Alerts and operations are *)
(* maps behind a lock that create takes twice, to count and to insert; the *)
(* other two are lists that one caller changes at a time.  The managers    *)
(* share nothing, so a behaviour is about one kind of record.  Times,      *)
(* texts and levels, which no manager reads, are left out.                 *)
(***************************************************************************)
EXTENDS Integers, FiniteSets

CONSTANTS
    Callers,
    Times,      \* the clocks of the callers
    Retentions, \* the ages a configuration of backups may allow
    MaxRecords, \* bound: records created
    None

RecordsAssumption ==
    /\ Times \subseteq Nat
    /\ Retentions \subseteq Nat
    /\ MaxRecords \in Nat

VARIABLES
    kind,      \* "alert", "operation", "listed" or "task"
    records,   \* the records; in a list they are in the order of their serial numbers
    counted,   \* per caller, the id it has made for the record it will insert
    retention, \* the retention configured for the backups, or None
    created,   \* how many records there have been
    given      \* the records that callers were given and nobody has removed

vars == <<kind, records, counted, retention, created, given>>

AlertStatus == {"PENDING", "ACKNOWLEDGED", "RESOLVED", "IGNORED"}
ListedStatus == {"PENDING", "ACKNOWLEDGED", "RESOLVED", "IGNORED"}
OperationStatus == {"PENDING", "RUNNING", "COMPLETED", "FAILED", "CANCELLED"}
TaskStatus == {"PENDING", "RUNNING", "COMPLETED", "FAILED", "CANCELLED"}

Statuses == [alert |-> AlertStatus, listed |-> ListedStatus,
             operation |-> OperationStatus, task |-> TaskStatus]

Ids == Times \X Nat

Init ==
    /\ kind \in DOMAIN Statuses
    /\ records = {}
    /\ counted = [c \in Callers |-> None]
    /\ retention = None
    /\ created = 0
    /\ given = {}

\* format!("alert-{}-{}", now_ms, len)
NewId(ms) == <<ms, Cardinality(records)>>

\* The record with an id that a caller of clock ms receives, new.
New(id, ms) == [id |-> id, ms |-> ms, serial |-> created + 1, status |-> "PENDING"]

Give(r) ==
    /\ created' = r.serial
    /\ given' = given \cup {[id |-> r.id, ms |-> r.ms, serial |-> r.serial]}

-----------------------------------------------------------------------------
(* The maps: alerts and operations                                         *)

\* create reads the number of records under a read lock, which it gives up ...
Count(k, c, ms) ==
    /\ kind = k
    /\ counted[c] = None
    /\ created < MaxRecords
    /\ counted' = [counted EXCEPT ![c] = [id |-> NewId(ms), ms |-> ms]]
    /\ UNCHANGED <<kind, records, retention, created, given>>

\* ... and inserts under the write lock, whatever the id now stands for.
Insert(k, c) ==
    /\ kind = k
    /\ counted[c] # None
    /\ created < MaxRecords
    /\ LET r == New(counted[c].id, counted[c].ms)
       IN  records' = {q \in records : q.id # r.id} \cup {r} /\ Give(r)
    /\ counted' = [counted EXCEPT ![c] = None]
    /\ UNCHANGED <<kind, retention>>

CountAlert(c, ms) == Count("alert", c, ms)
CountOperation(c, ms) == Count("operation", c, ms)
InsertAlert(c) == Insert("alert", c)
InsertOperation(c) == Insert("operation", c)

Clear(k) ==
    /\ kind = k
    /\ records # {}
    /\ records' = {}
    /\ given' = {}
    /\ UNCHANGED <<kind, counted, retention, created>>

ClearAlerts == Clear("alert")
ClearOperations == Clear("operation")

-----------------------------------------------------------------------------
(* The lists: the alerts of alert.rs and the backup tasks                  *)

Push(ms) ==
    /\ created < MaxRecords
    /\ LET r == New(NewId(ms), ms) IN records' = records \cup {r} /\ Give(r)
    /\ UNCHANGED <<kind, counted, retention>>

CreateListed(ms) == kind = "listed" /\ Push(ms)

\* A task needs the configuration it is named for.
CreateTask(ms) == kind = "task" /\ retention # None /\ Push(ms)

AddConfig(r) ==
    /\ kind = "task"
    /\ retention' = r
    /\ UNCHANGED <<kind, records, counted, created, given>>

\* Tasks of every status are removed by age, measured by the configuration of now.
CleanupExpired(now) ==
    LET left == {r \in records : now - r.ms <= retention}
    IN  /\ kind = "task"
        /\ records # {}
        /\ records' = left
        /\ given' = {g \in given : \E r \in left : r.serial = g.serial}
        /\ UNCHANGED <<kind, counted, retention, created>>

-----------------------------------------------------------------------------
\* The record an id finds: the only one in a map, the first in a list.
Found(id) == {r \in records : r.id = id /\ \A q \in records : q.id = id => r.serial <= q.serial}

\* It is moved, from whatever status.
Mark(k, id, status) ==
    /\ kind = k
    /\ status \in Statuses[k] \ {"PENDING"}
    /\ \E r \in Found(id) : records' = (records \ {r}) \cup {[r EXCEPT !.status = status]}
    /\ UNCHANGED <<kind, counted, retention, created, given>>

JudgeAlert(id, status) == Mark("alert", id, status)
StepOperation(id, status) == Mark("operation", id, status)
JudgeListed(id, status) == Mark("listed", id, status)
StepTask(id, status) == Mark("task", id, status)

Next ==
    \/ \E c \in Callers, ms \in Times : CountAlert(c, ms) \/ CountOperation(c, ms)
    \/ \E c \in Callers : InsertAlert(c) \/ InsertOperation(c)
    \/ ClearAlerts \/ ClearOperations
    \/ \E ms \in Times : CreateListed(ms) \/ CreateTask(ms) \/ CleanupExpired(ms)
    \/ \E r \in Retentions : AddConfig(r)
    \/ \E id \in {g.id : g \in given}, status \in UNION {Statuses[k] : k \in DOMAIN Statuses} :
          \/ JudgeAlert(id, status) \/ StepOperation(id, status)
          \/ JudgeListed(id, status) \/ StepTask(id, status)

Spec == Init /\ [][Next]_vars

-----------------------------------------------------------------------------
RecordType == [id : Ids, ms : Times, serial : Nat, status : Statuses[kind]]

TypeOK ==
    /\ kind \in DOMAIN Statuses
    /\ records \subseteq RecordType
    /\ \A c \in Callers : counted[c] = None \/ counted[c] \in [id : Ids, ms : Times]
    /\ retention \in Retentions \cup {None}
    /\ created \in 0 .. MaxRecords
    /\ given \subseteq [id : Ids, ms : Times, serial : 1 .. MaxRecords]

Twin(g) == \E h \in given : h # g /\ h.id = g.id

\* Whoever was given a record reaches that record by its id: acknowledging or finishing
\* it moves no other.  Only records created in one millisecond may fall under one id, in
\* a map because two creates count before either inserts, in the list of tasks because
\* a cleanup has shortened it; the listed alerts never do.
OwnUnlessTwin ==
    \A g \in given :
        /\ Twin(g) \/ (Found(g.id) # {} /\ \A r \in Found(g.id) : r.serial = g.serial)
        /\ \A h \in given : h.id = g.id => h.ms = g.ms
        /\ kind = "listed" => ~Twin(g)

\* A statement of E02-R01 and E03-R01 (creating an alert or an operation works): what
\* create has answered with is there until it is cleared.  It does not hold: of two that
\* count together in one millisecond, the second replaces the first.
CreatedIsKept ==
    kind \in {"alert", "operation"} =>
        \A g \in given : \E r \in records : r.serial = g.serial

\* A statement of the diagrams in E-03, 3 and D-04, 4: PENDING, RUNNING, then COMPLETED,
\* FAILED or CANCELLED.  It does not hold: no method looks at the status it replaces, so
\* what is over may be started again.
FollowsDiagram ==
    [][\A r \in records, q \in records' :
          /\ kind \in {"operation", "task"}
          /\ r.serial = q.serial
          /\ r.status \in {"COMPLETED", "FAILED", "CANCELLED"}
          => q.status = r.status]_vars
=============================================================================
