---------------------------- MODULE ObserverTasks ----------------------------
(***************************************************************************)
(* The tasks an observation session spawns: the Binance feed, the Bybit    *)
(* feed and the simulation engine.  They share no state, so a behaviour is *)
(* about one of them; each has the fairness of its own module.  Both feeds *)
(* end in the same kind of handle, and the promise made to its holder is   *)
(* stated once.                                                            *)
(***************************************************************************)
EXTENDS Integers

CONSTANTS
    Prices, MaxId, MaxBuffered, MaxGeneration,  \* the feeds
    MaxOffers,                                  \* the engine
    None

VARIABLES
    part,
    history, phase, book, status, pending, dropped,
    buffered, fetched,   \* of the Binance feed
    lastSeq, missed,     \* of the Bybit feed
    slot, offering, permit, skipped, offered, stopped, aborted,
    pc, running, todo, frames, taken, handed, reported, failed

feedVars == <<history, phase, book, status, pending, dropped>>
binanceVars == <<buffered, fetched>>
bybitVars == <<lastSeq, missed>>
engineVars == <<slot, offering, permit, skipped, offered, stopped, aborted,
                pc, running, todo, frames, taken, handed, reported, failed>>
vars == <<part, feedVars, binanceVars, bybitVars, engineVars>>

Binance == INSTANCE BinanceStream
Bybit == INSTANCE BybitStream
Engine == INSTANCE SimulationEngine
Feed == INSTANCE BookFeed WITH done <- (phase = "done")

ASSUME TasksAssumption ==
    /\ Binance!StreamAssumption
    /\ Bybit!StreamAssumption
    /\ Engine!EngineAssumption

Init ==
    /\ part \in {"binance", "bybit", "engine"}
    /\ IF part = "bybit" THEN Bybit!Init /\ buffered = <<>> /\ fetched = None
       ELSE Binance!Init /\ lastSeq = None /\ missed = {}
    /\ Engine!Init

OfBinance(A) == part = "binance" /\ A /\ UNCHANGED <<part, bybitVars, engineVars>>
OfBybit(A) == part = "bybit" /\ A /\ UNCHANGED <<part, binanceVars, engineVars>>
OfEngine(A) ==
    part = "engine" /\ A /\ UNCHANGED <<part, feedVars, binanceVars, bybitVars>>

Next ==
    \/ OfBinance(Binance!Next) \/ OfBybit(Bybit!Next) \/ OfEngine(Engine!Next)

Fairness ==
    /\ WF_vars(OfBinance(Binance!Start) \/ OfBybit(Bybit!Start) \/ OfEngine(Engine!Worker))
    /\ WF_vars(\/ OfBinance(Binance!Connect \/ Binance!ConnectFails)
               \/ OfBybit(Bybit!Connect \/ Bybit!ConnectFails)
               \/ OfEngine(Engine!Store))
    /\ WF_vars(OfBinance(Binance!Bridge))
    /\ WF_vars(OfBinance(Binance!SleepEnds) \/ OfBybit(Bybit!SleepEnds))
    /\ SF_vars(OfBinance(Binance!ForcedReconnect) \/ OfBybit(Bybit!ForcedReconnect))
    /\ SF_vars(OfBinance(Binance!CommandCutsSleep) \/ OfBybit(Bybit!CommandCutsSleep))
    /\ SF_vars(OfBinance(Binance!CloseConnection) \/ OfBybit(Bybit!CloseConnection))
    /\ SF_vars(OfBinance(Binance!EndTask) \/ OfBybit(Bybit!EndTask))

FairSpec == Init /\ [][Next]_vars /\ Fairness

-----------------------------------------------------------------------------
\* A book that a feed publishes as valid is one the venue had, whatever messages
\* were lost, repeated, or arrived before the snapshot.
BookIsVenueBook ==
    /\ part = "binance" => Binance!ValidBookIsVenueBook
    /\ part = "bybit" => Bybit!ValidBookIsVenueBook

\* What either feed does to the book is what its handle promises: no rollback, an
\* obeyed request to reconnect, and the end of the task with the handle.
KeepsPromise == Feed!Spec

\* Every frame offered to the engine is taken, replaced and counted, or waiting for
\* a worker that will wake up for it.
FramesAccounted == Engine!FramesAccounted /\ Engine!NoLostWakeup

\* The newest frame is taken, and a stopped or dropped engine leaves no worker.
WorkIsFinished == Engine!LatestIsTaken /\ Engine!WorkerEnds
=============================================================================
