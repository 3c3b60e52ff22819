----------------------------- MODULE AppServer -----------------------------
(***************************************************************************)
(* CodexAppServer (agent/app_server.rs): the client of a runtime, a child   *)
(* process with helpers of its own in one process group.  Requests go to    *)
(* its stdin and are matched with the lines of its stdout by a reader task, *)
(* which hands the runtime's own requests and notifications to the session. *)
(*                                                                         *)
(* The runtime answers when it likes, in any order, or not at all, and uses *)
(* request numbers of its own that may equal the client's.                  *)
(***************************************************************************)
EXTENDS Integers, Sequences, SequencesExt, FiniteSets

CONSTANTS
    MaxRequests,    \* bound: requests of the client
    MaxLines,       \* bound: lines the runtime writes of its own accord
    None

ClientAssumption ==
    /\ MaxRequests \in Nat /\ MaxLines \in Nat
    /\ None \notin {"request", "notification", "noise"}

VARIABLES
    group,      \* the processes alive: "main", "helper", or both; stdout is open while one is
    stdin,      \* frames written and not yet read, the numbers of requests
    asked,      \* the requests the runtime has read and not answered
    stdout,     \* lines written and not yet read
    written,    \* history: the messages among the lines written
    reader,     \* the reader task: "reading", "ended" after EOF, or "aborted"
    pending,    \* PendingMap: the numbers of the requests in flight
    answer,     \* what the channel of the request in flight holds, or None
    messages,   \* messages for the session, unbounded
    heard,      \* history: the messages the session has received
    client      \* [pc, id, step, wrong]: its call in progress, the steps of its start done,
                \* and, a history, whether an answer was another request's

processes == <<group, asked>>
vars == <<processes, stdin, stdout, written, reader, pending, answer, messages, heard, client>>

Ids == 1 .. MaxRequests

\* connect and start_thread: each asks the runtime in turn, and must succeed but for
\* the list of skills.
StartSteps == <<"initialize", "skills/extraRoots/set", "thread/start", "skills/list">>
Ready == client.step = Len(StartSteps)

TypeOK ==
    /\ group \subseteq {"main", "helper"}
    /\ reader \in {"reading", "ended", "aborted"}
    /\ pending \subseteq Ids /\ asked \subseteq Ids
    /\ client.pc \in {"idle", "waiting", "closing", "gone"}

Init ==
    /\ group = {"main"}
    /\ stdin = <<>> /\ asked = {} /\ stdout = <<>> /\ written = <<>>
    /\ reader = "reading"
    /\ pending = {} /\ answer = None
    /\ messages = <<>> /\ heard = <<>>
    /\ client = [pc |-> "idle", id |-> 0, step |-> 0, wrong |-> FALSE]

-----------------------------------------------------------------------------
(* The runtime.                                                            *)

ReadFrame ==
    /\ "main" \in group /\ stdin # <<>>
    /\ asked' = asked \cup {Head(stdin)}
    /\ stdin' = Tail(stdin)
    /\ UNCHANGED <<group, stdout, written, reader, pending, answer, messages, heard, client>>

Reply(id) ==
    /\ "main" \in group /\ id \in asked
    /\ \E ok \in BOOLEAN : stdout' = Append(stdout, [id |-> id, method |-> None, ok |-> ok])
    /\ asked' = asked \ {id}
    /\ UNCHANGED <<group, stdin, written, reader, pending, answer, messages, heard, client>>

\* A request of its own, or a notification (id 0); or a line that is neither, one of
\* which waits at a time.
Write(line) ==
    /\ "main" \in group /\ Len(written) < MaxLines
    /\ line.method = "noise" => line \notin ToSet(stdout)
    /\ stdout' = Append(stdout, line)
    /\ written' = IF line.method = "noise" THEN written ELSE Append(written, line)
    /\ UNCHANGED <<processes, stdin, reader, pending, answer, messages, heard, client>>

OwnLines == [id : Ids, method : {"request"}] \cup [id : {0}, method : {"notification", "noise"}]

HelperStarts ==
    /\ group = {"main"}
    /\ group' = {"main", "helper"}
    /\ UNCHANGED <<asked, stdin, stdout, written, reader, pending, answer, messages, heard, client>>

\* A process ends; what is in the pipe can still be read, frames can not.
ProcessEnds(p) ==
    /\ p \in group
    /\ group' = group \ {p}
    /\ stdin' = IF p = "main" THEN <<>> ELSE stdin
    /\ asked' = IF p = "main" THEN {} ELSE asked
    /\ UNCHANGED <<stdout, written, reader, pending, answer, messages, heard, client>>

-----------------------------------------------------------------------------
(* The reader task.                                                        *)

\* Mutant of IsResponse: an id is looked for before a method.
IsResponse_ById(line) == line.id # 0

\* classify: what has a method is a request or a notification, whatever its id.
IsResponse(line) == line.method = None

\* dispatch_line: the answer of a request that is not in flight is dropped, and so is
\* a line that cannot be understood.
ReadLine ==
    /\ reader = "reading" /\ stdout # <<>>
    /\ LET line == Head(stdout) IN
       IF IsResponse(line)
       THEN /\ pending' = pending \ {line.id}
            /\ answer' = IF line.id \in pending THEN line ELSE answer
            /\ UNCHANGED messages
       ELSE /\ messages' = IF line.method = "noise" THEN messages ELSE Append(messages, line)
            /\ UNCHANGED <<pending, answer>>
    /\ stdout' = Tail(stdout)
    /\ UNCHANGED <<processes, stdin, written, reader, heard, client>>

Closed == [id |-> 0, method |-> None, ok |-> FALSE]

\* EOF, once no process holds the pipe: fail_all, and the session's channel ends.
ReadEof ==
    /\ reader = "reading" /\ stdout = <<>> /\ group = {}
    /\ reader' = "ended"
    /\ answer' = IF pending = {} THEN answer ELSE Closed
    /\ pending' = {}
    /\ UNCHANGED <<processes, stdin, stdout, written, messages, heard, client>>

-----------------------------------------------------------------------------
(* The client.                                                             *)

\* Drop: the whole group is killed, and the reader stopped.
Drop ==
    /\ group' = {} /\ stdin' = <<>> /\ asked' = {}
    /\ reader' = IF reader = "reading" THEN "aborted" ELSE reader

\* request: the entry is made before the frame is written, and unmade if it cannot be.
Request ==
    /\ client.pc = "idle" /\ client.id < MaxRequests
    /\ LET id == client.id + 1 IN
       IF "main" \in group
       THEN /\ pending' = pending \cup {id}
            /\ stdin' = Append(stdin, id)
            /\ answer' = None
            /\ client' = [client EXCEPT !.pc = "waiting", !.id = id]
            /\ UNCHANGED <<processes, reader>>
       ELSE /\ client' = [client EXCEPT !.id = id, !.pc = IF Ready THEN "idle" ELSE "gone"]
            /\ IF Ready THEN UNCHANGED <<processes, stdin, reader>> ELSE Drop
            /\ UNCHANGED <<pending, answer>>
    /\ UNCHANGED <<stdout, written, messages, heard>>

\* A call returns.  One that fails while the session starts drops the client, but for
\* the list of skills, which is best effort.
Returns(ok, wrong) ==
    LET lives == ok \/ Ready \/ StartSteps[client.step + 1] = "skills/list"
    IN  /\ client' = [client EXCEPT !.pc = IF lives THEN "idle" ELSE "gone",
                                    !.step = IF lives /\ ~Ready THEN @ + 1 ELSE @,
                                    !.wrong = @ \/ wrong]
        /\ IF lives THEN UNCHANGED <<processes, stdin, reader>> ELSE Drop

Answered ==
    /\ client.pc = "waiting" /\ answer # None
    /\ Returns(answer.ok, answer # Closed /\ (answer.id # client.id \/ answer.method # None))
    /\ answer' = None
    /\ UNCHANGED <<stdout, written, pending, messages, heard>>

TimesOut ==
    /\ client.pc = "waiting" /\ answer = None
    /\ Returns(FALSE, FALSE)
    /\ pending' = pending \ {client.id}
    /\ UNCHANGED <<stdout, written, answer, messages, heard>>

\* next_message, while a turn is driven.
NextMessage ==
    /\ client.pc = "idle" /\ Ready /\ messages # <<>>
    /\ heard' = Append(heard, Head(messages))
    /\ messages' = Tail(messages)
    /\ UNCHANGED <<processes, stdin, stdout, written, reader, pending, answer, client>>

\* shutdown closes stdin, which asks the child to end, and waits for it.
Shutdown ==
    /\ client.pc = "idle" /\ Ready
    /\ client' = [client EXCEPT !.pc = "closing"]
    /\ UNCHANGED <<processes, stdin, stdout, written, reader, pending, answer, messages, heard>>

\* Mutant of ShutdownEnds: a child that ended by itself is taken to have left nobody.
ShutdownEnds_ChildOnly ==
    /\ client.pc = "closing"
    /\ group' = group \ {"main"} /\ stdin' = <<>> /\ asked' = {}
    /\ reader' = IF reader = "reading" THEN "aborted" ELSE reader
    /\ client' = [client EXCEPT !.pc = "gone"]
    /\ UNCHANGED <<stdout, written, pending, answer, messages, heard>>

\* The child has ended, or is killed at the timeout; its group is swept in any case.
ShutdownEnds ==
    /\ client.pc = "closing"
    /\ Drop
    /\ client' = [client EXCEPT !.pc = "gone"]
    /\ UNCHANGED <<stdout, written, pending, answer, messages, heard>>

Next ==
    \/ ReadFrame
    \/ \E id \in Ids : Reply(id)
    \/ \E line \in OwnLines : Write(line)
    \/ HelperStarts
    \/ \E p \in {"main", "helper"} : ProcessEnds(p)
    \/ ReadLine \/ ReadEof
    \/ Request \/ Answered \/ TimesOut \/ NextMessage \/ Shutdown \/ ShutdownEnds

\* Timers fire, and the client's task is polled; of the runtime nothing is assumed.
Fairness == WF_vars(Answered \/ TimesOut) /\ WF_vars(ShutdownEnds)

Spec == Init /\ [][Next]_vars /\ Fairness

-----------------------------------------------------------------------------
(* What the client promises.                                               *)

\* A call is answered by the runtime's answer to that very call, or by an error: never
\* by the late answer of an earlier one, nor by a request of the runtime that carries
\* the same number; and no call leaves an entry behind.
AnswersMatch ==
    /\ ~client.wrong
    /\ pending \subseteq (IF client.pc = "waiting" THEN {client.id} ELSE {})
    /\ (reader = "ended" => pending = {})

\* Whoever is told that the runtime is gone has received everything it wrote before.
NothingUnheard ==
    /\ IsPrefix(heard \o messages, written)
    /\ reader = "ended" => heard \o messages = written

\* A client that is gone, by a shutdown or by a start that failed at any step, leaves no
\* process of the group.
NoProcessLeft == client.pc = "gone" => group = {}

\* Every request returns and every shutdown ends, whatever the runtime does.
CallsReturn == (client.pc \in {"waiting", "closing"}) ~> (client.pc \in {"idle", "gone"})
=============================================================================
