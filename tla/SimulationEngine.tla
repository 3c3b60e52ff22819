-------------------------- MODULE SimulationEngine --------------------------
(***************************************************************************)
(* The bridge between the continuous observer and the F-02 simulation:     *)
(* SimulationEngine of crates/core/src/simulation.rs.                      *)
(*                                                                         *)
(* The observer offers every decision event; one worker task runs them.    *)
(* Between the two are a slot for one event, behind an async mutex, a      *)
(* counter of the events that were overwritten in the slot, which is       *)
(* atomic but outside the mutex, a Notify with at most one stored permit,  *)
(* and a flag that stops the worker.  Runs are abstract here: each takes   *)
(* its directions one by one and ends in a report or an error.             *)
(* SimulationRun models what they do.                                      *)
(***************************************************************************)
EXTENDS Integers

CONSTANTS
    MaxOffers, \* bound: the events the observer offers
    None       \* no event

\* An event, numbered in the order of the offers, with the number of its
\* directions that the scan accepted.
Event == [id : 1 .. MaxOffers, accepted : 0 .. 2]

EngineAssumption == MaxOffers \in Nat /\ None \notin Event

VARIABLES
    slot,     \* the event that waits for the worker
    offering, \* the event of the offer that holds the mutex
    permit,   \* a notification is stored
    skipped,  \* the counter of overwritten events
    stopped,  \* the worker should not begin anything new
    aborted,  \* the worker ends at the next await at which it yields
    pc,       \* what the worker does next
    running,  \* the event it runs
    todo,     \* the directions of that event it has not run
    frames,   \* the frame_skipped it runs them with
    offered,  \* history: the events offered
    taken,    \* history: the events the worker has taken
    handed,   \* history: the sum of the frame_skipped values
    reported, \* history: the sum of the skipped_frames of the reports
    failed    \* history: a run ended in an error

bridge == <<slot, offering, permit, skipped, offered>>
flags == <<stopped, aborted>>
worker == <<pc, running, todo, frames, taken, handed, reported, failed>>
vars == <<bridge, flags, worker>>

-----------------------------------------------------------------------------
Init ==
    /\ slot = None
    /\ offering = None
    /\ permit = FALSE
    /\ skipped = 0
    /\ stopped = FALSE
    /\ aborted = FALSE
    /\ pc = "check"
    /\ running = None
    /\ todo = 0
    /\ frames = 0
    /\ offered = 0
    /\ taken = 0
    /\ handed = 0
    /\ reported = 0
    /\ failed = FALSE

\* Mutant of Offer: every offer counts as an overwritten event.
Offer_AlwaysCounts(n) ==
    /\ ~stopped
    /\ offering = None
    /\ offered < MaxOffers
    /\ offering' = [id |-> offered + 1, accepted |-> n]
    /\ skipped' = skipped + 1
    /\ UNCHANGED <<slot, permit, offered, flags, worker>>

\* offer, up to the counter: the mutex is locked and an event still in the slot
\* is counted as skipped.
Offer(n) ==
    /\ ~stopped
    /\ offering = None
    /\ offered < MaxOffers
    /\ offering' = [id |-> offered + 1, accepted |-> n]
    /\ skipped' = IF slot # None THEN skipped + 1 ELSE skipped
    /\ UNCHANGED <<slot, permit, offered, flags, worker>>

\* The rest of offer.
Store ==
    /\ offering # None
    /\ slot' = offering
    /\ offered' = offering.id
    /\ permit' = TRUE
    /\ offering' = None
    /\ UNCHANGED <<skipped, flags, worker>>

\* shutdown, when the observer ends in order.
Shutdown ==
    /\ ~stopped
    /\ offering = None
    /\ stopped' = TRUE
    /\ permit' = TRUE
    /\ aborted' = TRUE
    /\ UNCHANGED <<slot, offering, skipped, offered, worker>>

\* Mutant of Drop: the worker is only told to stop.
Drop_WithoutAbort ==
    /\ ~stopped
    /\ offering = None
    /\ stopped' = TRUE
    /\ UNCHANGED <<aborted, bridge, worker>>

\* The engine is dropped by an observer that leaves its loop with an error.
Drop ==
    /\ ~stopped
    /\ offering = None
    /\ stopped' = TRUE
    /\ aborted' = TRUE
    /\ UNCHANGED <<bridge, worker>>

-----------------------------------------------------------------------------
\* The worker's loop

\* Its two looks at the flag: before it takes an event, and before it sleeps.
CheckStopped ==
    /\ pc \in {"check", "recheck"}
    /\ pc' = IF stopped THEN "gone" ELSE IF pc = "check" THEN "take" ELSE "wait"
    /\ UNCHANGED <<running, todo, frames, taken, handed, reported, failed, flags, bridge>>

TakeEvent ==
    /\ pc = "take"
    /\ offering = None
    /\ slot # None
    /\ running' = slot
    /\ slot' = None
    /\ taken' = taken + 1
    /\ pc' = "swap"
    /\ UNCHANGED <<offering, permit, skipped, offered, flags,
                   todo, frames, handed, reported, failed>>

FindNothing ==
    /\ pc = "take"
    /\ offering = None
    /\ slot = None
    /\ pc' = "recheck"
    /\ UNCHANGED <<running, todo, frames, taken, handed, reported, failed, flags, bridge>>

\* notified() returns: a permit is there, or comes while it waits.
Wake ==
    /\ pc = "wait"
    /\ permit
    /\ permit' = FALSE
    /\ pc' = "check"
    /\ UNCHANGED <<slot, offering, skipped, offered, flags,
                   running, todo, frames, taken, handed, reported, failed>>

\* skipped.swap(0), then run_all_directions starts.
SwapSkipped ==
    /\ pc = "swap"
    /\ frames' = skipped
    /\ handed' = handed + skipped
    /\ skipped' = 0
    /\ todo' = running.accepted
    /\ pc' = "run"
    /\ UNCHANGED <<slot, offering, permit, offered, flags, running, taken, reported, failed>>

\* One direction has run and its report carries the frames.
DirectionEnds ==
    /\ pc = "run"
    /\ todo > 0
    /\ todo' = todo - 1
    /\ reported' = reported + frames
    /\ UNCHANGED <<pc, running, frames, taken, handed, failed, flags, bridge>>

\* run_all_directions returns, or an error of a run takes the rest with it.
EventEnds ==
    /\ pc = "run"
    /\ failed' = (failed \/ todo > 0)
    /\ running' = None
    /\ todo' = 0
    /\ frames' = 0
    /\ pc' = "check"
    /\ UNCHANGED <<taken, handed, reported, flags, bridge>>

\* An aborted task ends where it yields: at the mutex, asleep or within a run.
EndAborted ==
    /\ aborted
    /\ pc \in {"take", "wait", "run"}
    /\ pc' = "gone"
    /\ UNCHANGED <<running, todo, frames, taken, handed, reported, failed, flags, bridge>>

Worker ==
    \/ CheckStopped \/ TakeEvent \/ FindNothing \/ Wake \/ SwapSkipped
    \/ DirectionEnds \/ EventEnds \/ EndAborted

Next == (\E n \in 0 .. 2 : Offer(n)) \/ Store \/ Shutdown \/ Drop \/ Worker

Spec == Init /\ [][Next]_vars

\* The runtime polls ready tasks, and the calls of a run return.
FairSpec == Spec /\ WF_vars(Worker) /\ WF_vars(Store)

-----------------------------------------------------------------------------
\* Every variable stays in its range.
TypeOK ==
    /\ slot \in Event \cup {None}
    /\ offering \in Event \cup {None}
    /\ skipped \in 0 .. MaxOffers
    /\ pc \in {"check", "take", "recheck", "wait", "swap", "run", "gone"}
    /\ running \in Event \cup {None}
    /\ (pc \in {"swap", "run"}) => running # None
    /\ todo \in 0 .. 2
    /\ frames \in 0 .. MaxOffers
    /\ {offered, taken, handed} \subseteq 0 .. MaxOffers
    /\ reported \in 0 .. 2 * MaxOffers
    /\ {permit, stopped, aborted, failed} \subseteq BOOLEAN

Waiting == IF slot # None THEN 1 ELSE 0

\* No event gets lost between the observer, the slot and the worker without being
\* counted: each one offered waits, was taken, or is in the skipped frames the
\* worker has handed to its runs or will hand to the next.  The counter is read
\* outside the mutex that guards the slot.
FramesAccounted ==
    offered + (IF offering = None THEN 0 ELSE Waiting) = taken + handed + skipped + Waiting

\* A worker that sleeps, or is about to, has been told of the event in the slot.
NoLostWakeup == (pc \in {"recheck", "wait"} /\ slot # None) => permit

\* F02-R09: the newest event reaches the worker unless a newer one replaces it or
\* the engine stops.
LatestIsTaken ==
    \A n \in 1 .. MaxOffers :
        (slot # None /\ slot.id = n) ~> (slot = None \/ slot.id # n \/ stopped)

\* A stopped engine leaves no worker behind, asleep or not, whichever way the
\* observer ended.
WorkerEnds == stopped ~> (pc = "gone")

\* F-02 design, D4: with a backlog the worker skips frames and runs the newest
\* opportunity.  An opportunity gives way to an opportunity, never to an event in
\* which the scan accepted nothing.
OpportunityYieldsToOpportunity ==
    [][slot # None /\ slot' \notin {slot, None} /\ slot.accepted > 0 => slot'.accepted > 0]_slot

\* Comment on the skipped counter: the reports of the runs carry it.  When the
\* worker is idle after runs without an error, the reports add up to it.
ReportsCarrySkipped == pc = "wait" /\ ~failed => reported = handed
=============================================================================
