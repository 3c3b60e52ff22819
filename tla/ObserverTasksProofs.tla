------------------------- MODULE ObserverTasksProofs -------------------------
(***************************************************************************)
(* Theorems about ObserverTasks, for every number of updates, prices,      *)
(* connections and offers.                                                 *)
(*                                                                         *)
(* A book is right when it is the venue's at the update it is numbered     *)
(* with, which the venue's later updates leave alone: GoodBook and         *)
(* PartialBook, of the two feeds, say so.  The bridge, a recursion over    *)
(* the buffered events, keeps it event by event.                           *)
(***************************************************************************)
EXTENDS ObserverTasks, SumTheorems, Sequences

-----------------------------------------------------------------------------
(* The greatest element *)

IsMax(m, S) == m \in S /\ \A y \in S : m >= y

\* A non-empty set of bounded natural numbers has a greatest element.
LEMMA MaxExists ==
    ASSUME NEW n \in Nat, NEW S \in SUBSET (0..n), S # {}
    PROVE  \E m \in S : IsMax(m, S)
<1> DEFINE T == {n - x : x \in S}
<1>1. T \in SUBSET Nat /\ T # {}
  <2>1. \A x \in S : n - x \in Nat
    OBVIOUS
  <2> QED BY <2>1
<1>2. PICK t \in T : \A u \in T : t <= u
  <2> HIDE DEF T
  <2> QED BY <1>1, LeastNatural
<1>3. PICK m \in S : t = n - m
  BY <1>2
<1>4. \A y \in S : m >= y
  BY <1>2, <1>3
<1> QED BY <1>4 DEF IsMax

\* It is the one the feeds compute.
LEMMA BinanceMax == ASSUME NEW S \in SUBSET Int, NEW m, IsMax(m, S) PROVE Binance!Max(S) = m
<1>1. \A x \in S : (\A y \in S : x >= y) => x = m
  BY DEF IsMax
<1> QED BY <1>1 DEF Binance!Max, IsMax

LEMMA BybitMax == ASSUME NEW S \in SUBSET Int, NEW m, IsMax(m, S) PROVE Bybit!Max(S) = m
<1>1. \A x \in S : (\A y \in S : x >= y) => x = m
  BY DEF IsMax
<1> QED BY <1>1 DEF Bybit!Max, IsMax

-----------------------------------------------------------------------------
(* The Binance feed *)

\* The updates up to n that touched p, and what is read from them.
Touched(p, n) == {0} \cup {i \in 1..n : history[i] = p}

\* A level is the last update that touched it.
LEMMA LevelAtMax ==
    ASSUME NEW p, NEW n \in Nat
    PROVE  /\ IsMax(Binance!LevelAt(p, n), Touched(p, n))
           /\ Binance!LevelAt(p, n) \in 0..n
<1>1. Touched(p, n) \in SUBSET (0..n) /\ Touched(p, n) # {}
  BY DEF Touched
<1>2. PICK m \in Touched(p, n) : IsMax(m, Touched(p, n))
  BY <1>1, MaxExists
<1>3. Binance!LevelAt(p, n) = Binance!Max(Touched(p, n))
  BY DEF Binance!LevelAt, Touched
<1>4. Binance!Max(Touched(p, n)) = m
  BY <1>1, <1>2, BinanceMax
<1> QED BY <1>1, <1>2, <1>3, <1>4

\* No level goes back.
LEMMA LevelsRise ==
    ASSUME NEW p, NEW m \in Nat, NEW n \in Nat, m <= n
    PROVE  Binance!LevelAt(p, m) <= Binance!LevelAt(p, n)
<1>1. Touched(p, m) \subseteq Touched(p, n)
  BY DEF Touched
<1> QED BY <1>1, LevelAtMax DEF IsMax

\* A book the venue had.
GoodBook(b) == b = Binance!BookAt(b.sequence) /\ b.sequence \in 0..Len(history)

LEMMA BookAtType ==
    ASSUME NEW n \in 0..MaxId
    PROVE  Binance!BookAt(n) \in Binance!Books
<1>1. \A p \in Prices : Binance!LevelAt(p, n) \in 0..MaxId
  BY TasksAssumption, LevelAtMax DEF Binance!StreamAssumption
<1> QED BY <1>1 DEF Binance!BookAt, Binance!Books

LEMMA BookAtGood ==
    ASSUME NEW n \in 0..Len(history)
    PROVE  GoodBook(Binance!BookAt(n))
BY DEF GoodBook, Binance!BookAt

\* An event that leaves no gap turns a book of the venue into a later one.
LEMMA ApplyEventGood ==
    ASSUME NEW b, GoodBook(b), NEW e \in Binance!Events, e.final <= Len(history),
           history \in Seq(Prices), e.first <= b.sequence + 1, e.final > b.sequence
    PROVE  Binance!ApplyEvent(b, e) = Binance!BookAt(e.final)
<1>1. /\ b.sequence \in Nat /\ e.first \in Nat /\ e.final \in Nat
      /\ b = Binance!BookAt(b.sequence)
  BY DEF GoodBook, Binance!Events
<1>2. ASSUME NEW p \in Prices, ~\E i \in e.first..e.final : history[i] = p
      PROVE  b.levels[p] = Binance!LevelAt(p, e.final)
  <2>1. {i \in 1..b.sequence : history[i] = p} = {i \in 1..e.final : history[i] = p}
    BY <1>1, <1>2
  <2>2. b.levels[p] = Binance!LevelAt(p, b.sequence)
    BY <1>1 DEF Binance!BookAt
  <2> QED BY <2>1, <2>2 DEF Binance!LevelAt
<1> QED BY <1>2 DEF Binance!ApplyEvent, Binance!BookAt

\* The recursion of the bridge over the first k events.
IsAfter(g, n, events, k) ==
    g = [i \in 0..k |-> IF i = 0 THEN Binance!BookAt(n)
                        ELSE Binance!BridgeEvent(g[i - 1], events[i])]

LEMMA BridgeExtends ==
    ASSUME NEW n, NEW events, NEW k \in Nat, NEW g, IsAfter(g, n, events, k)
    PROVE  \E h : IsAfter(h, n, events, k + 1)
<1> DEFINE h == [i \in 0..(k + 1) |->
                    IF i = k + 1 THEN Binance!BridgeEvent(g[k], events[k + 1]) ELSE g[i]]
<1>1. ASSUME NEW i \in 0..(k + 1)
      PROVE  h[i] = IF i = 0 THEN Binance!BookAt(n)
                    ELSE Binance!BridgeEvent(h[i - 1], events[i])
  <2>1. CASE i = k + 1
    <3>1. h[i] = Binance!BridgeEvent(g[k], events[k + 1]) /\ h[k] = g[k] /\ i - 1 = k /\ i # 0
      BY <2>1
    <3> QED BY <2>1, <3>1
  <2>2. CASE i # k + 1
    <3>1. i \in 0..k /\ h[i] = g[i]
      BY <2>2
    <3>2. i # 0 => h[i - 1] = g[i - 1]
      BY <2>2
    <3>3. g[i] = IF i = 0 THEN Binance!BookAt(n)
                 ELSE Binance!BridgeEvent(g[i - 1], events[i])
      BY <3>1 DEF IsAfter
    <3> HIDE DEF h
    <3> QED BY <3>1, <3>2, <3>3
  <2> QED BY <2>1, <2>2
<1>2. IsAfter(h, n, events, k + 1)
  BY <1>1 DEF IsAfter
<1> QED BY <1>2

LEMMA BridgeExists ==
    ASSUME NEW n, NEW events
    PROVE  \A k \in Nat : \E g : IsAfter(g, n, events, k)
<1> DEFINE T == {k \in Nat : ~\E g : IsAfter(g, n, events, k)}
<1> SUFFICES ASSUME T # {} PROVE FALSE
  OBVIOUS
<1>1. PICK k \in T : \A j \in T : k <= j
  BY LeastNatural
<1>2. CASE k = 0
  <2>1. IsAfter([i \in 0..0 |-> Binance!BookAt(n)], n, events, 0)
    BY DEF IsAfter
  <2> QED BY <1>2, <2>1
<1>3. CASE k # 0
  <2>1. k - 1 \in Nat \ T
    BY <1>1, <1>3
  <2>2. \E h : IsAfter(h, n, events, (k - 1) + 1)
    BY <2>1, BridgeExtends
  <2>3. (k - 1) + 1 = k
    OBVIOUS
  <2> QED BY <2>2, <2>3
<1> QED BY <1>2, <1>3

\* What the buffer may hold: events the venue has sent.
Received(events) ==
    /\ events \in Seq(Binance!Events)
    /\ \A i \in DOMAIN events : events[i].final <= Len(history)

\* bridge_snapshot fails, or ends with a book the venue had, whatever was buffered and
\* however old the snapshot is.
LEMMA BridgedGood ==
    ASSUME NEW n \in 0..Len(history), NEW events, Received(events), history \in Seq(Prices)
    PROVE  Binance!Bridged(n, events) = None \/ GoodBook(Binance!Bridged(n, events))
<1> DEFINE k == Len(events)
           Good(b) == b = None \/ GoodBook(b)
<1>1. k \in Nat /\ DOMAIN events = 1..k
  BY DEF Received
<1>2. PICK g : IsAfter(g, n, events, k) /\ Binance!Bridged(n, events) = g[k]
  <2>1. \E g : IsAfter(g, n, events, k)
    BY <1>1, BridgeExists
  <2>2. Binance!Bridged(n, events) = (CHOOSE g : IsAfter(g, n, events, k))[k]
    BY DEF Binance!Bridged, IsAfter
  <2> QED BY <2>1, <2>2
<1>3. ASSUME NEW b, Good(b), NEW e \in Binance!Events, e.final <= Len(history)
      PROVE  Good(Binance!BridgeEvent(b, e))
  <2>1. CASE b = None
    BY <2>1 DEF Binance!BridgeEvent
  <2>2. CASE b # None /\ Binance!IsOld(b, e)
    BY <1>3, <2>2 DEF Binance!BridgeEvent
  <2>3. CASE b # None /\ ~Binance!IsOld(b, e) /\ Binance!IsGap(b, e)
    BY <2>3 DEF Binance!BridgeEvent
  <2>4. CASE b # None /\ ~Binance!IsOld(b, e) /\ ~Binance!IsGap(b, e)
    <3>1. GoodBook(b) /\ b.sequence \in Nat /\ e.first \in Nat /\ e.final \in 0..Len(history)
      BY <1>3, <2>4 DEF GoodBook, Binance!Events
    <3>2. e.first <= b.sequence + 1 /\ e.final > b.sequence
      BY <2>4, <3>1 DEF Binance!IsOld, Binance!IsGap
    <3>3. Binance!BridgeEvent(b, e) = Binance!ApplyEvent(b, e)
      BY <2>4 DEF Binance!BridgeEvent
    <3>4. Binance!ApplyEvent(b, e) = Binance!BookAt(e.final)
      BY <1>3, <3>1, <3>2, ApplyEventGood
    <3>5. GoodBook(Binance!BookAt(e.final))
      BY <3>1, BookAtGood
    <3> QED BY <3>3, <3>4, <3>5
  <2> QED BY <2>1, <2>2, <2>3, <2>4
<1> HIDE DEF Good
<1>4. \A i \in 0..k : Good(g[i])
  <2> DEFINE T == {i \in 0..k : ~Good(g[i])}
  <2> SUFFICES ASSUME T # {} PROVE FALSE
    OBVIOUS
  <2>1. PICK i \in T : \A j \in T : i <= j
    <3>1. T \in SUBSET Nat
      BY <1>1
    <3> HIDE DEF T
    <3> QED BY <3>1, LeastNatural
  <2>2. g[0] = Binance!BookAt(n) /\ (i # 0 => g[i] = Binance!BridgeEvent(g[i - 1], events[i]))
    BY <1>1, <1>2 DEF IsAfter
  <2>3. i # 0
    BY <2>1, <2>2, BookAtGood DEF Good
  <2>4. Good(g[i - 1]) /\ events[i] \in Binance!Events /\ events[i].final <= Len(history)
    BY <1>1, <2>1, <2>3 DEF Received
  <2> QED BY <1>3, <2>1, <2>2, <2>3, <2>4
<1> QED BY <1>1, <1>2, <1>4 DEF Good

\* The venue's later updates leave its earlier books as they are.
LEMMA HistoryGrows ==
    ASSUME history \in Seq(Prices), NEW q \in Prices, history' = Append(history, q),
           NEW b, GoodBook(b)
    PROVE  GoodBook(b)'
<1>1. b = Binance!BookAt(b.sequence) /\ b.sequence \in 0..Len(history)
  BY DEF GoodBook
<1>2. PICK n \in 0..Len(history) : n = b.sequence
  BY <1>1
<1>3. \A i \in 1..n : history'[i] = history[i]
  OBVIOUS
<1>4. ASSUME NEW p \in Prices PROVE Binance!LevelAt(p, n) = Binance!LevelAt(p, n)'
  <2>1. {i \in 1..n : history[i] = p} = {i \in 1..n : history'[i] = p}
    BY <1>3
  <2> QED BY <2>1 DEF Binance!LevelAt
<1>5. Binance!BookAt(n) = Binance!BookAt(n)'
  BY <1>4 DEF Binance!BookAt
<1>6. n \in 0..Len(history')
  BY <1>2
<1> QED BY <1>1, <1>2, <1>5, <1>6 DEF GoodBook

\* What is published, of either feed: the book, while the task is sure of it.
StatusInv ==
    /\ status \in [state : {"SYNCING", "VALID", "STALE", "INVALID"},
                   generation : 0..MaxGeneration + 1, snapshot : Binance!Books \cup {None}]
    /\ pending \in BOOLEAN /\ dropped \in BOOLEAN
    /\ pending => status.generation <= MaxGeneration
    /\ status.state = "VALID" <=> status.snapshot # None
    /\ phase = "start" => status = [state |-> "SYNCING", generation |-> 0, snapshot |-> None]
    /\ phase \in {"backoff", "done"} => status.state \in {"STALE", "INVALID"}
    /\ phase \notin {"start", "backoff", "done"} =>
          status.generation > 0 /\ status.state \in {"SYNCING", "VALID"}
    /\ status.snapshot # None => phase \in {"live", "open"} /\ status.snapshot = book

LEMMA StatusInit ==
    ASSUME phase = "start", pending = FALSE, dropped = FALSE,
           status = [state |-> "SYNCING", generation |-> 0, snapshot |-> None]
    PROVE  StatusInv
<1>1. 0 \in 0..MaxGeneration + 1
  BY TasksAssumption DEF Binance!StreamAssumption
<1>2. status \in [state : {"SYNCING", "VALID", "STALE", "INVALID"},
                  generation : 0..MaxGeneration + 1, snapshot : Binance!Books \cup {None}]
  BY <1>1
<1> QED BY <1>2 DEF StatusInv

\* What the publisher does is a step of the promise: a new generation ...
LEMMA StatusSyncing ==
    ASSUME StatusInv, phase \in {"start", "backoff"}, phase' = "connect",
           status' = [state |-> "SYNCING", generation |-> status.generation + 1,
                      snapshot |-> None],
           dropped' = dropped,
           \/ pending' = pending /\ (phase = "start" \/ status.generation < MaxGeneration)
           \/ pending /\ pending' = FALSE
    PROVE  StatusInv' /\ Feed!Synchronise
<1> USE DEF StatusInv
<1>1. MaxGeneration \in Nat \ {0}
  BY TasksAssumption DEF Binance!StreamAssumption
<1>2. PICK g \in 0..MaxGeneration : g = status.generation
  BY <1>1
<1>3. /\ g + 1 \in 0..MaxGeneration + 1 /\ g + 1 > 0
      /\ pending' => g + 1 <= MaxGeneration
  BY <1>1, <1>2
<1>4. /\ status'.generation = g + 1 /\ status'.state = "SYNCING" /\ status'.snapshot = None
      /\ status' \in [state : {"SYNCING", "VALID", "STALE", "INVALID"},
                      generation : 0..MaxGeneration + 1, snapshot : Binance!Books \cup {None}]
  BY <1>2, <1>3
<1>5. StatusInv'
  BY <1>1, <1>3, <1>4
<1>6. Feed!Synchronise
  <2>1. ~Feed!Connected
    BY <1>2 DEF Feed!Connected
  <2>2. pending' \in {pending, FALSE} /\ (phase' = "done") = (phase = "done") /\ phase # "done"
    OBVIOUS
  <2> QED BY <2>1, <2>2 DEF Feed!Synchronise
<1> QED BY <1>5, <1>6

\* ... a book that is newer than the one before ...
LEMMA StatusValid ==
    ASSUME StatusInv, phase \notin {"start", "backoff", "done"}, phase' \in {"live", "open"},
           NEW b \in Binance!Books, book' = b,
           status' = [status EXCEPT !.state = "VALID", !.snapshot = b],
           UNCHANGED <<pending, dropped>>,
           status.snapshot # None => Feed!Newer(status.snapshot, b)
    PROVE  StatusInv' /\ Feed!Publish(b) /\ b \in Feed!Books
<1>1. b # None
  BY TasksAssumption DEF Binance!StreamAssumption
<1>2. /\ status'.state = "VALID" /\ status'.snapshot = b
      /\ status'.generation = status.generation
      /\ status' \in [state : {"SYNCING", "VALID", "STALE", "INVALID"},
                      generation : 0..MaxGeneration + 1, snapshot : Binance!Books \cup {None}]
  BY DEF StatusInv
<1>3. StatusInv'
  BY <1>1, <1>2 DEF StatusInv
<1>4. Feed!Publish(b)
  BY DEF StatusInv, Feed!Publish, Feed!Connected
<1> QED BY <1>3, <1>4 DEF Feed!Books, Binance!Books

\* ... or the end of the connection.
LEMMA StatusWithdrawn ==
    ASSUME StatusInv, phase \notin {"start", "backoff", "done"}, phase' = "backoff",
           NEW s \in {"STALE", "INVALID"},
           status' = [status EXCEPT !.state = s, !.snapshot = None],
           pending' \in {pending, FALSE}, dropped' = dropped
    PROVE  StatusInv' /\ Feed!Withdraw
<1>1. /\ status'.state = s /\ status'.snapshot = None
      /\ status'.generation = status.generation
      /\ status' \in [state : {"SYNCING", "VALID", "STALE", "INVALID"},
                      generation : 0..MaxGeneration + 1, snapshot : Binance!Books \cup {None}]
  BY DEF StatusInv
<1>2. StatusInv'
  <2>1. pending' \in BOOLEAN /\ dropped' \in BOOLEAN
    BY DEF StatusInv
  <2>2. pending' => status'.generation <= MaxGeneration
    BY <1>1 DEF StatusInv
  <2> QED BY <1>1, <2>1, <2>2 DEF StatusInv
<1>3. Feed!Withdraw
  BY DEF StatusInv, Feed!Withdraw, Feed!Connected
<1> QED BY <1>2, <1>3

\* Between connecting and the first book nothing is published.
LEMMA StatusKept ==
    ASSUME StatusInv, status.snapshot = None, UNCHANGED <<status, pending, dropped>>,
           {phase, phase'} \cap {"start", "backoff", "done"} = {}
    PROVE  StatusInv' /\ UNCHANGED Feed!vars
BY DEF StatusInv, Feed!vars

BinanceInv ==
    /\ history \in Seq(Prices) /\ Len(history) <= MaxId
    /\ phase \in {"start", "connect", "backoff", "done"} \cup Binance!Receiving
    /\ Received(buffered) /\ Len(buffered) <= MaxBuffered
    /\ fetched \in 0..MaxId \cup {None}
    /\ phase = "catchup" => fetched \in 0..Len(history)
    /\ IF phase = "live"
       THEN book \in Binance!Books /\ GoodBook(book) /\ status.snapshot = book
       ELSE book = None
    /\ StatusInv

LEMMA BinanceInit == Binance!Init => BinanceInv
<1> SUFFICES ASSUME Binance!Init PROVE BinanceInv
  OBVIOUS
<1> USE TasksAssumption DEF Binance!Init, Binance!StreamAssumption
<1>1. Received(<<>>) /\ Len(<<>>) <= MaxBuffered /\ Len(<<>>) <= MaxId
  BY DEF Received
<1>2. StatusInv
  BY StatusInit
<1> QED BY <1>1, <1>2 DEF BinanceInv, Binance!Receiving

\* A step of the environment or the handle.
LEMMA BinanceUpdate ==
    ASSUME BinanceInv, NEW p \in Prices, Binance!Update(p)
    PROVE  BinanceInv'
<1> USE DEF Binance!Update, Binance!taskVars, Binance!handleVars, BinanceInv
<1>1. /\ history' = Append(history, p) /\ Len(history') = Len(history) + 1
      /\ history' \in Seq(Prices) /\ Len(history') <= MaxId
  BY TasksAssumption DEF Binance!StreamAssumption
<1>2. Received(buffered)'
  <2>1. \A i \in DOMAIN buffered : buffered[i].final \in Nat
    BY DEF Received, Binance!Events
  <2> QED BY <1>1, <2>1 DEF Received
<1>3. phase = "live" => GoodBook(book)'
  <2>1. \A b : GoodBook(b) => GoodBook(b)'
    BY <1>1, HistoryGrows
  <2>2. ASSUME NEW b, b = book, GoodBook(b)' PROVE GoodBook(book)'
    BY <2>2 DEF GoodBook
  <2> QED BY <2>1, <2>2
<1>4. StatusInv'
  BY DEF StatusInv
<1> QED BY <1>1, <1>2, <1>3, <1>4

FeedStep == Feed!Next \/ UNCHANGED Feed!vars

\* A book that follows another, of the venue both of them.
LEMMA LaterBook ==
    ASSUME history \in Seq(Prices), Len(history) <= MaxId,
           NEW b, GoodBook(b), NEW n \in 0..Len(history), n > b.sequence
    PROVE  /\ Binance!BookAt(n) \in Binance!Books /\ GoodBook(Binance!BookAt(n))
           /\ Feed!Newer(b, Binance!BookAt(n))
<1>1. /\ b = Binance!BookAt(b.sequence) /\ b.sequence \in Nat
      /\ n \in 0..MaxId
  BY TasksAssumption DEF GoodBook, Binance!StreamAssumption
<1>2. Binance!BookAt(n) \in Binance!Books /\ GoodBook(Binance!BookAt(n))
  BY <1>1, BookAtType, BookAtGood
<1>3. \A p \in Prices : Binance!LevelAt(p, b.sequence) <= Binance!LevelAt(p, n)
  BY <1>1, LevelsRise
<1>4. \A p \in Prices : /\ b.levels[p] = Binance!LevelAt(p, b.sequence)
                        /\ Binance!LevelAt(p, b.sequence) \in Nat
                        /\ Binance!LevelAt(p, n) \in Nat
                        /\ Binance!BookAt(n).levels[p] = Binance!LevelAt(p, n)
  <2>1. PICK m \in Nat : m = b.sequence
    BY <1>1
  <2>2. \A k : \A p \in Prices : Binance!BookAt(k).levels[p] = Binance!LevelAt(p, k)
    BY DEF Binance!BookAt
  <2>3. b = Binance!BookAt(m)
    BY <1>1, <2>1
  <2>4. \A p \in Prices : Binance!LevelAt(p, m) \in Nat /\ Binance!LevelAt(p, n) \in Nat
    <3>1. n \in Nat
      OBVIOUS
    <3> QED BY <3>1, LevelAtMax
  <2>5. \A p \in Prices : b.levels[p] = Binance!LevelAt(p, m)
    BY <2>2, <2>3
  <2> QED BY <2>1, <2>2, <2>4, <2>5
<1>5. Binance!BookAt(n).sequence = n
  BY DEF Binance!BookAt
<1> QED BY <1>1, <1>2, <1>3, <1>4, <1>5 DEF Feed!Newer

\* The end of a connection leaves nothing of it.
LEMMA BinanceEnds ==
    ASSUME BinanceInv, phase \notin {"start", "backoff", "done"},
           NEW s \in {"STALE", "INVALID"}, Binance!EndConnection(s),
           history' = history, pending' \in {pending, FALSE}, dropped' = dropped
    PROVE  BinanceInv' /\ FeedStep
<1>1. /\ phase' = "backoff" /\ buffered' = <<>> /\ fetched' = None /\ book' = None
      /\ status' = [status EXCEPT !.state = s, !.snapshot = None]
  BY DEF Binance!EndConnection, Binance!Withdraw
<1>2. StatusInv' /\ Feed!Withdraw
  BY <1>1, StatusWithdrawn DEF BinanceInv
<1>3. Received(buffered)' /\ Len(buffered') <= MaxBuffered
  BY <1>1, TasksAssumption DEF Received, Binance!StreamAssumption
<1> QED BY <1>1, <1>2, <1>3 DEF BinanceInv, FeedStep, Feed!Next

\* Events are buffered, or a snapshot comes, before there is a book.
LEMMA BinanceBuffers ==
    ASSUME BinanceInv,
           \/ Binance!Connect
           \/ \E e \in Binance!Events : Binance!Buffer(e)
           \/ \E n \in 0..MaxId : Binance!FetchSnapshot(n)
    PROVE  BinanceInv' /\ FeedStep
<1> USE DEF BinanceInv, Binance!Receiving, Binance!handleVars
<1>0. status.snapshot = None \/ phase = "live"
  BY DEF StatusInv
<1>1. CASE Binance!Connect
  <2>1. StatusInv' /\ UNCHANGED Feed!vars
    BY <1>0, <1>1, StatusKept DEF Binance!Connect
  <2>2. Received(buffered)'
    BY <1>1 DEF Binance!Connect, Received
  <2> QED BY <1>1, <2>1, <2>2 DEF Binance!Connect, FeedStep
<1>2. ASSUME NEW e \in Binance!Events, Binance!Buffer(e) PROVE BinanceInv' /\ FeedStep
  <2>1. StatusInv' /\ UNCHANGED Feed!vars
    BY <1>0, <1>2, StatusKept DEF Binance!Buffer
  <2>2. Received(buffered)' /\ Len(buffered') <= MaxBuffered
    <3>1. /\ buffered' = Append(buffered, e) /\ e.final <= Len(history) /\ history' = history
          /\ Len(buffered) < MaxBuffered /\ MaxBuffered \in Nat
      BY <1>2, TasksAssumption DEF Binance!Buffer, Binance!Sent, Binance!StreamAssumption
    <3>2. /\ buffered' \in Seq(Binance!Events) /\ Len(buffered') = Len(buffered) + 1
          /\ \A i \in DOMAIN buffered' :
                buffered'[i] = IF i = Len(buffered) + 1 THEN e ELSE buffered[i]
      BY <3>1 DEF Received
    <3> QED BY <3>1, <3>2 DEF Received
  <2> QED BY <1>2, <2>1, <2>2 DEF Binance!Buffer, FeedStep
<1>3. ASSUME NEW n \in 0..MaxId, Binance!FetchSnapshot(n) PROVE BinanceInv' /\ FeedStep
  <2>1. StatusInv' /\ UNCHANGED Feed!vars
    BY <1>0, <1>3, StatusKept DEF Binance!FetchSnapshot
  <2>2. Received(buffered)'
    BY <1>3 DEF Binance!FetchSnapshot, Received
  <2> QED BY <1>3, <2>1, <2>2 DEF Binance!FetchSnapshot, FeedStep
<1> QED BY <1>1, <1>2, <1>3

\* The bridge either fails or publishes a book of the venue.
LEMMA BinanceBridges ==
    ASSUME BinanceInv, Binance!Bridge
    PROVE  BinanceInv' /\ FeedStep
<1>1. PICK b : b = Binance!Bridged(fetched, buffered)
  OBVIOUS
<1>2. /\ phase = "catchup" /\ history' = history /\ UNCHANGED <<pending, dropped>>
      /\ fetched \in 0..Len(history) /\ history \in Seq(Prices) /\ Len(history) <= MaxId
      /\ Received(buffered) /\ StatusInv
  BY DEF BinanceInv, Binance!Bridge, Binance!handleVars
<1>3. b = None \/ GoodBook(b)
  BY <1>1, <1>2, BridgedGood
<1>4. CASE b = None /\ Binance!EndConnection("INVALID")
  BY <1>2, <1>4, BinanceEnds
<1>5. CASE /\ b # None /\ book' = b /\ Binance!Valid(b) /\ phase' = "live"
           /\ buffered' = <<>> /\ fetched' = None
  <2>1. status.snapshot = None
    BY <1>2 DEF StatusInv
  <2>2. b \in Binance!Books
    <3>1. b = Binance!BookAt(b.sequence) /\ b.sequence \in 0..MaxId
      BY <1>2, <1>3, <1>5, TasksAssumption DEF GoodBook, Binance!StreamAssumption
    <3> QED BY <3>1, BookAtType
  <2>3. StatusInv' /\ Feed!Publish(b) /\ b \in Feed!Books
    BY <1>2, <1>5, <2>1, <2>2, StatusValid DEF Binance!Valid
  <2>4. GoodBook(book)'
    <3>1. \A c : c = book' => GoodBook(c)'
      BY <1>2, <1>3, <1>5 DEF GoodBook, Binance!BookAt, Binance!LevelAt
    <3> QED BY <3>1 DEF GoodBook
  <2>5. Received(buffered)' /\ Len(buffered') <= MaxBuffered
    BY <1>5, TasksAssumption DEF Received, Binance!StreamAssumption
  <2>6. status'.snapshot = b
    BY <1>2, <1>5 DEF Binance!Valid, StatusInv
  <2> QED BY <1>2, <1>5, <2>2, <2>3, <2>4, <2>5, <2>6
          DEF BinanceInv, Binance!Receiving, FeedStep, Feed!Next
<1> QED BY <1>1, <1>4, <1>5 DEF Binance!Bridge

\* An event of the live stream continues the book, or ends the connection.
LEMMA BinanceFollows ==
    ASSUME BinanceInv, NEW e \in Binance!Events, Binance!Follow(e) \/ Binance!Gap(e)
    PROVE  BinanceInv' /\ FeedStep
<1>1. CASE Binance!Gap(e)
  BY <1>1, BinanceEnds DEF Binance!Gap, Binance!handleVars
<1>2. CASE Binance!Follow(e)
  <2>1. /\ phase = "live" /\ phase' = "live" /\ UNCHANGED <<history, buffered, fetched>>
        /\ UNCHANGED <<pending, dropped>>
        /\ book' = Binance!ApplyEvent(book, e) /\ Binance!Valid(Binance!ApplyEvent(book, e))
        /\ e.final <= Len(history) /\ e.final > book.sequence
        /\ e.first <= book.sequence + 1
        /\ e.final \in 1..MaxId
    <3>1. book.sequence \in Nat /\ e.final \in 1..MaxId /\ e.first \in 1..MaxId /\ phase = "live"
      BY <1>2 DEF BinanceInv, GoodBook, Binance!Events, Binance!Follow
    <3> QED BY <1>2, <3>1 DEF Binance!Follow, Binance!handleVars, Binance!Sent,
               Binance!IsOld, Binance!IsGap
  <2>2. /\ GoodBook(book) /\ status.snapshot = book /\ history \in Seq(Prices)
        /\ Len(history) <= MaxId /\ StatusInv
    BY <2>1 DEF BinanceInv
  <2>3. Binance!ApplyEvent(book, e) = Binance!BookAt(e.final)
    <3>1. \A o : o = book => Binance!ApplyEvent(o, e) = Binance!BookAt(e.final)
      BY <2>1, <2>2, ApplyEventGood
    <3> QED BY <3>1
  <2>4. PICK b : b = Binance!BookAt(e.final)
    OBVIOUS
  <2>5. b \in Binance!Books /\ GoodBook(b) /\ Feed!Newer(status.snapshot, b)
    <3>1. \A o : o = book => Feed!Newer(o, Binance!BookAt(e.final))
      BY <2>1, <2>2, LaterBook
    <3>2. b \in Binance!Books /\ GoodBook(b)
      BY <2>1, <2>2, <2>4, LaterBook
    <3> QED BY <2>2, <2>4, <3>1, <3>2
  <2>6. book' = b /\ status' = [status EXCEPT !.state = "VALID", !.snapshot = b]
    BY <2>1, <2>3, <2>4 DEF Binance!Valid
  <2>7. StatusInv' /\ Feed!Publish(b) /\ b \in Feed!Books
    BY <2>1, <2>2, <2>5, <2>6, StatusValid
  <2>8. GoodBook(book)'
    <3>1. \A c : c = book' => GoodBook(c)'
      BY <2>1, <2>5, <2>6 DEF GoodBook, Binance!BookAt, Binance!LevelAt
    <3> QED BY <3>1 DEF GoodBook
  <2>9. Received(buffered)'
    BY <2>1 DEF BinanceInv, Received
  <2>10. status'.snapshot = b
    BY <2>2, <2>6 DEF StatusInv
  <2> QED BY <2>1, <2>2, <2>5, <2>6, <2>7, <2>8, <2>9, <2>10
          DEF BinanceInv, Binance!Receiving, FeedStep, Feed!Next
<1> QED BY <1>1, <1>2

\* The turns of the task's outer loop, and the handle.
LEMMA BinanceTurns ==
    ASSUME BinanceInv,
           \/ Binance!Start \/ Binance!SleepEnds \/ Binance!CommandCutsSleep
           \/ Binance!EndTask \/ Binance!ForceReconnect \/ Binance!DropFeed
           \/ UNCHANGED <<feedVars, binanceVars>>
    PROVE  BinanceInv' /\ FeedStep
<1> USE DEF Binance!Syncing, Binance!handleVars, Binance!Restart, Binance!taskVars
<1>0. StatusInv /\ Received(buffered) /\ (phase # "live" => book = None)
  BY DEF BinanceInv
<1>1. CASE Binance!Start \/ Binance!SleepEnds \/ Binance!CommandCutsSleep
  <2>1. /\ phase \in {"start", "backoff"} /\ phase' = "connect"
        /\ UNCHANGED <<history, buffered, fetched, book, dropped>>
        /\ status' = [state |-> "SYNCING", generation |-> status.generation + 1,
                      snapshot |-> None]
        /\ \/ pending' = pending /\ (phase = "start" \/ status.generation < MaxGeneration)
           \/ pending /\ pending' = FALSE
    BY <1>1 DEF Binance!Start, Binance!SleepEnds, Binance!CommandCutsSleep
  <2>2. StatusInv' /\ Feed!Synchronise
    BY <1>0, <2>1, StatusSyncing
  <2>3. Received(buffered)'
    BY <1>0, <2>1 DEF Received
  <2> QED BY <2>1, <2>2, <2>3 DEF BinanceInv, Binance!Receiving, FeedStep, Feed!Next
<1>2. CASE Binance!EndTask
  <2>1. Received(buffered)' /\ StatusInv'
    BY <1>0, <1>2 DEF Binance!EndTask, Received, StatusInv
  <2>2. Feed!End
    BY <1>0, <1>2 DEF Binance!EndTask, Binance!Closed, StatusInv, Feed!End, Feed!Connected
  <2> QED BY <1>2, <2>1, <2>2 DEF Binance!EndTask, BinanceInv, Binance!Receiving, FeedStep,
             Feed!Next
<1>3. CASE Binance!ForceReconnect
  <2>1. Received(buffered)' /\ StatusInv' /\ (phase = "live" => GoodBook(book)')
    <3>1. status.generation < MaxGeneration /\ status.generation \in Nat /\ MaxGeneration \in Nat
      BY <1>0, <1>3, TasksAssumption DEF Binance!ForceReconnect, StatusInv,
         Binance!StreamAssumption
    <3> QED BY <1>0, <1>3, <3>1 DEF Binance!ForceReconnect, Received, StatusInv, GoodBook,
               Binance!BookAt, Binance!LevelAt, BinanceInv
  <2>2. Feed!Ask
    BY <1>3 DEF Binance!ForceReconnect, Feed!Ask
  <2> QED BY <1>3, <2>1, <2>2 DEF Binance!ForceReconnect, BinanceInv, Binance!Receiving,
             FeedStep, Feed!Next
<1>4. CASE Binance!DropFeed
  <2>1. Received(buffered)' /\ StatusInv' /\ (phase = "live" => GoodBook(book)')
    BY <1>0, <1>4 DEF Binance!DropFeed, Received, StatusInv, GoodBook, Binance!BookAt,
       Binance!LevelAt, BinanceInv
  <2>2. Feed!Drop
    BY <1>4 DEF Binance!DropFeed, Feed!Drop
  <2> QED BY <1>4, <2>1, <2>2 DEF Binance!DropFeed, BinanceInv, Binance!Receiving,
             FeedStep, Feed!Next
<1>5. CASE UNCHANGED <<feedVars, binanceVars>>
  BY <1>5 DEF feedVars, binanceVars, BinanceInv, Received, StatusInv, GoodBook,
     Binance!BookAt, Binance!LevelAt, FeedStep, Feed!vars
<1> QED BY <1>1, <1>2, <1>3, <1>4, <1>5

LEMMA BinanceNext ==
    ASSUME BinanceInv, Binance!Next
    PROVE  BinanceInv' /\ FeedStep
<1> DEFINE ends == \/ Binance!ConnectFails \/ Binance!StaleDeadline \/ Binance!StreamFails
                   \/ Binance!ForcedReconnect \/ Binance!CloseConnection
<1>1. CASE ends
  <2>1. PICK s \in {"STALE", "INVALID"} :
            /\ Binance!EndConnection(s) /\ phase \notin {"start", "backoff", "done"}
            /\ history' = history /\ pending' \in {pending, FALSE} /\ dropped' = dropped
    BY <1>1 DEF Binance!ConnectFails, Binance!StaleDeadline, Binance!StreamFails,
       Binance!ForcedReconnect, Binance!CloseConnection, Binance!handleVars, Binance!Receiving
  <2> QED BY <2>1, BinanceEnds
<1>2. ASSUME NEW p \in Prices, Binance!Update(p) PROVE BinanceInv' /\ FeedStep
  <2>1. BinanceInv'
    BY <1>2, BinanceUpdate
  <2> QED BY <1>2, <2>1 DEF Binance!Update, Binance!taskVars, Binance!handleVars, FeedStep,
             Feed!vars
<1> QED BY <1>1, <1>2, BinanceBuffers, BinanceBridges, BinanceFollows, BinanceTurns
        DEF Binance!Next

-----------------------------------------------------------------------------
(* The Bybit feed *)

\* The updates up to n that touched p and that some message brought.
Seen(p, n) == {0} \cup {i \in 1..n : history[i] = p /\ i \notin missed}

LEMMA SeenMax ==
    ASSUME NEW p, NEW n \in Nat
    PROVE  IsMax(Bybit!Max(Seen(p, n)), Seen(p, n)) /\ Bybit!Max(Seen(p, n)) \in 0..n
<1>1. Seen(p, n) \in SUBSET (0..n) /\ Seen(p, n) # {}
  BY DEF Seen
<1>2. PICK m \in Seen(p, n) : IsMax(m, Seen(p, n))
  BY <1>1, MaxExists
<1>3. Bybit!Max(Seen(p, n)) = m
  BY <1>1, <1>2, BybitMax
<1> QED BY <1>1, <1>2, <1>3

LEMMA BybitLevelAtMax ==
    ASSUME NEW p, NEW n \in Nat
    PROVE  /\ IsMax(Bybit!LevelAt(p, n), Touched(p, n))
           /\ Bybit!LevelAt(p, n) \in 0..n
<1>1. Touched(p, n) \in SUBSET (0..n) /\ Touched(p, n) # {}
  BY DEF Touched
<1>2. PICK m \in Touched(p, n) : IsMax(m, Touched(p, n))
  BY <1>1, MaxExists
<1>3. Bybit!LevelAt(p, n) = Bybit!Max(Touched(p, n))
  BY DEF Bybit!LevelAt, Touched
<1>4. Bybit!Max(Touched(p, n)) = m
  BY <1>1, <1>2, BybitMax
<1> QED BY <1>1, <1>2, <1>3, <1>4

\* A book that the venue had but for the messages that did not come.
PartialBook(b) ==
    /\ b \in Bybit!Books /\ b.sequence \in 0..Len(history)
    /\ \A p \in Prices : b.levels[p] = Bybit!Max(Seen(p, b.sequence))

BybitInv ==
    /\ history \in Seq(Prices) /\ Len(history) <= MaxId
    /\ phase \in {"start", "connect", "open", "backoff", "done"}
    /\ missed \subseteq 1..MaxId
    /\ IF book = None
       THEN lastSeq = None /\ status.snapshot = None
       ELSE /\ phase = "open" /\ PartialBook(book)
            /\ lastSeq = book.sequence /\ status.snapshot = book
    /\ StatusInv

LEMMA BybitInit == Bybit!Init => BybitInv
<1> SUFFICES ASSUME Bybit!Init PROVE BybitInv
  OBVIOUS
<1>1. StatusInv
  BY StatusInit DEF Bybit!Init
<1>2. Len(<<>>) <= MaxId
  BY TasksAssumption DEF Bybit!StreamAssumption
<1> QED BY <1>1, <1>2 DEF BybitInv, Bybit!Init

\* The venue's later updates touch no book that is numbered.
LEMMA BybitUpdate ==
    ASSUME BybitInv, NEW q \in Prices, Bybit!Update(q)
    PROVE  BybitInv' /\ FeedStep
<1> USE DEF Bybit!Update, Bybit!taskVars, Bybit!handleVars, Bybit!connectionVars, BybitInv
<1>1. /\ history' = Append(history, q) /\ Len(history') = Len(history) + 1
      /\ history' \in Seq(Prices) /\ Len(history') <= MaxId
  BY TasksAssumption DEF Bybit!StreamAssumption
<1>2. StatusInv' /\ UNCHANGED Feed!vars
  BY DEF StatusInv, Feed!vars
<1>3. ASSUME PartialBook(book) PROVE PartialBook(book)'
  <2>1. PICK n \in 0..Len(history) : n = book.sequence
    BY <1>3 DEF PartialBook
  <2>2. \A p : Seen(p, n)' = Seen(p, n)
    BY <1>1 DEF Seen
  <2>3. /\ book' = book /\ book \in Bybit!Books /\ book'.sequence = n
        /\ n \in 0..Len(history')
    BY <1>1, <1>3, <2>1 DEF PartialBook
  <2>4. \A p \in Prices : book'.levels[p] = Bybit!Max(Seen(p, n)')
    BY <1>3, <2>1, <2>2, <2>3 DEF PartialBook
  <2>5. \A p \in Prices : \A m : m = n => Seen(p, m)' = Seen(p, n)'
    BY DEF Seen
  <2> QED BY <2>3, <2>4, <2>5 DEF PartialBook, Seen
<1> QED BY <1>1, <1>2, <1>3 DEF FeedStep

\* What a message leaves is a newer book than the one before.
Follows(b, seq) ==
    /\ b \in Bybit!Books /\ b.sequence = seq /\ seq \in 0..Len(history)
    /\ \A p \in Prices : b.levels[p] = Bybit!Max(Seen(p, seq)')
    /\ book # None => Feed!Newer(book, b)

LEMMA SnapshotFollows ==
    ASSUME BybitInv, NEW m \in Bybit!Messages, Bybit!ReceiveSnapshot(m)
    PROVE  Follows(Bybit!BookAt(m.seq), m.seq)
<1> DEFINE b == Bybit!BookAt(m.seq)
<1>1. /\ m.seq \in 0..Len(history) /\ m.seq \in 0..MaxId /\ missed' = {} /\ history' = history
      /\ lastSeq # None => m.seq > lastSeq
      /\ m.seq \in Nat
  BY DEF Bybit!ReceiveSnapshot, Bybit!Sent, Bybit!Messages, BybitInv,
     Bybit!AdvancesCrossSequence
<1>2. \A p : Touched(p, m.seq) = Seen(p, m.seq)'
  BY <1>1 DEF Touched, Seen
<1>3. \A p \in Prices : /\ b.levels[p] = Bybit!LevelAt(p, m.seq)
                        /\ Bybit!LevelAt(p, m.seq) = Bybit!Max(Touched(p, m.seq))
                        /\ Bybit!LevelAt(p, m.seq) \in 0..MaxId
  <2>1. \A p \in Prices : b.levels[p] = Bybit!LevelAt(p, m.seq)
    BY DEF Bybit!BookAt
  <2>2. \A p : Bybit!LevelAt(p, m.seq) = Bybit!Max(Touched(p, m.seq))
    BY DEF Bybit!LevelAt, Touched
  <2>3. \A p : Bybit!LevelAt(p, m.seq) \in 0..m.seq
    BY <1>1, BybitLevelAtMax
  <2>4. 0..m.seq \subseteq 0..MaxId
    BY <1>1, TasksAssumption DEF Bybit!StreamAssumption
  <2> HIDE DEF b
  <2> QED BY <2>1, <2>2, <2>3, <2>4
<1>4. b \in Bybit!Books /\ b.sequence = m.seq
  BY <1>1, <1>3 DEF Bybit!Books, Bybit!BookAt
<1>5. ASSUME book # None PROVE Feed!Newer(book, b)
  <2>1. PICK n \in Nat : n = book.sequence /\ n < m.seq /\ book \in Bybit!Books
    BY <1>1, <1>5, TasksAssumption DEF BybitInv, PartialBook, Bybit!Books, Bybit!StreamAssumption
  <2>2. ASSUME NEW p \in Prices PROVE b.levels[p] >= book.levels[p]
    <3>1. book.levels[p] = Bybit!Max(Seen(p, n)) /\ Bybit!Max(Seen(p, n)) \in Seen(p, n)
      BY <1>5, <2>1, SeenMax DEF BybitInv, PartialBook, IsMax
    <3>2. Seen(p, n) \subseteq Touched(p, m.seq)
      BY <1>1, <2>1 DEF Seen, Touched
    <3>3. IsMax(b.levels[p], Touched(p, m.seq))
      BY <1>1, <1>3, BybitLevelAtMax
    <3> QED BY <3>1, <3>2, <3>3 DEF IsMax
  <2> HIDE DEF b
  <2> QED BY <1>4, <2>1, <2>2 DEF Feed!Newer
<1> HIDE DEF b
<1>6. \A p \in Prices : b.levels[p] = Bybit!Max(Seen(p, m.seq)')
  BY <1>2, <1>3
<1> QED BY <1>1, <1>4, <1>5, <1>6 DEF Follows, b

LEMMA DeltaFollows ==
    ASSUME BybitInv, NEW m \in Bybit!Messages, Bybit!ReceiveDelta(m)
    PROVE  Follows(Bybit!Applied(book, m), m.seq)
<1> DEFINE b == Bybit!Applied(book, m)
<1>1. /\ m.first \in 1..m.seq /\ m.seq \in 0..Len(history) /\ m.seq \in 0..MaxId
      /\ m.seq \in Nat /\ MaxId \in Nat
      /\ history' = history /\ book # None
  BY TasksAssumption DEF Bybit!ReceiveDelta, Bybit!Sent, Bybit!Messages, BybitInv,
     Bybit!StreamAssumption
<1>2. PICK n \in Nat : /\ n = book.sequence /\ n = lastSeq /\ PartialBook(book)
                       /\ book \in Bybit!Books
  BY <1>1 DEF BybitInv, PartialBook
<1>3. m.seq > n /\ missed' = (missed \ (m.first..m.seq)) \cup (n + 1..m.first - 1)
  <2>1. n # None
    BY <1>2, TasksAssumption DEF PartialBook, Bybit!Books, Bybit!StreamAssumption
  <2> QED BY <1>2, <2>1 DEF Bybit!ReceiveDelta, Bybit!AdvancesCrossSequence
<1>4. \A p \in Prices : b.levels[p] = IF \E i \in m.first..m.seq : history[i] = p
                                      THEN Bybit!LevelAt(p, m.seq) ELSE book.levels[p]
  BY DEF Bybit!Applied
<1>5. b.sequence = m.seq /\ b = [levels |-> b.levels, sequence |-> m.seq]
      /\ DOMAIN b.levels = Prices /\ b.levels = [p \in Prices |-> b.levels[p]]
  BY DEF Bybit!Applied
<1> HIDE DEF b
<1>6. ASSUME NEW p \in Prices
      PROVE  /\ b.levels[p] = Bybit!Max(Seen(p, m.seq)')
             /\ b.levels[p] \in 0..MaxId /\ b.levels[p] >= book.levels[p]
  <2>1. /\ book.levels[p] = Bybit!Max(Seen(p, n)) /\ book.levels[p] \in Nat
        /\ book.levels[p] \in Seen(p, n)
        /\ book.levels[p] \in 0..MaxId
    BY <1>2, SeenMax DEF PartialBook, IsMax, Bybit!Books
  <2>2. CASE \E i \in m.first..m.seq : history[i] = p
    <3>1. PICK i \in m.first..m.seq : history[i] = p
      BY <2>2
    <3>2. PICK top \in 0..m.seq : top = Bybit!LevelAt(p, m.seq) /\ IsMax(top, Touched(p, m.seq))
      BY <1>1, BybitLevelAtMax
    <3>3. i \in Touched(p, m.seq) /\ top >= i
      BY <1>1, <3>1, <3>2 DEF Touched, IsMax
    <3>4. top \in m.first..m.seq /\ history[top] = p
      BY <1>1, <3>1, <3>2, <3>3 DEF Touched, IsMax
    <3>5. top \notin missed'
      BY <1>1, <1>3, <3>4
    <3>6. top \in Seen(p, m.seq)' /\ Seen(p, m.seq)' \subseteq Touched(p, m.seq)
          /\ Seen(p, m.seq)' \in SUBSET Int
      BY <1>1, <3>4, <3>5 DEF Seen, Touched
    <3>7. \A S \in SUBSET Int : IsMax(top, S) => Bybit!Max(S) = top
      BY BybitMax
    <3>8. Bybit!Max(Seen(p, m.seq)') = top
      BY <3>2, <3>6, <3>7 DEF IsMax
    <3>9. top >= book.levels[p]
      <4>1. Seen(p, n) \subseteq Touched(p, m.seq)
        BY <1>1, <1>3 DEF Seen, Touched
      <4> QED BY <2>1, <3>2, <4>1 DEF IsMax
    <3> QED BY <1>1, <1>4, <2>2, <3>2, <3>8, <3>9
  <2>3. CASE ~\E i \in m.first..m.seq : history[i] = p
    <3>1. Seen(p, m.seq)' = Seen(p, n)
      BY <1>1, <1>3, <2>3 DEF Seen
    <3> QED BY <1>4, <2>1, <2>3, <3>1
  <2> QED BY <2>2, <2>3
<1>7. b \in Bybit!Books
  <2>1. b.levels \in [Prices -> 0..MaxId]
    BY <1>5, <1>6
  <2> QED BY <1>1, <1>5, <2>1 DEF Bybit!Books
<1>8. Feed!Newer(book, b)
  BY <1>2, <1>3, <1>5, <1>6 DEF Feed!Newer
<1> QED BY <1>1, <1>5, <1>6, <1>7, <1>8 DEF Follows, b

LEMMA BybitReceives ==
    ASSUME BybitInv, NEW m \in Bybit!Messages,
           Bybit!ReceiveSnapshot(m) \/ Bybit!ReceiveDelta(m)
    PROVE  BybitInv' /\ FeedStep
<1>1. PICK b : /\ Follows(b, m.seq) /\ book' = b /\ Bybit!Valid(b)
               /\ phase = "open" /\ phase' = "open" /\ lastSeq' = m.seq
               /\ UNCHANGED <<history, pending, dropped>>
               /\ missed' = {} \/ missed' = (missed \ (m.first..m.seq)) \cup (lastSeq + 1..m.first - 1)
  <2>1. CASE Bybit!ReceiveSnapshot(m)
    BY <2>1, SnapshotFollows DEF Bybit!ReceiveSnapshot, Bybit!handleVars
  <2>2. CASE Bybit!ReceiveDelta(m)
    <3>1. \A b : b = Bybit!Applied(book, m) => Follows(b, m.seq)
      BY <2>2, DeltaFollows
    <3>2. PICK b : b = Bybit!Applied(book, m)
      OBVIOUS
    <3> QED BY <2>2, <3>1, <3>2 DEF Bybit!ReceiveDelta, Bybit!handleVars
  <2> QED BY <2>1, <2>2
<1>2. b \in Binance!Books /\ b \in Bybit!Books /\ b # None
  BY <1>1, TasksAssumption DEF Follows, Binance!Books, Bybit!Books, Bybit!StreamAssumption
<1>3. StatusInv' /\ Feed!Publish(b) /\ b \in Feed!Books
  <2>1. StatusInv /\ (status.snapshot # None => Feed!Newer(status.snapshot, b))
    BY <1>1 DEF BybitInv, Follows
  <2> QED BY <1>1, <1>2, <2>1, StatusValid DEF Bybit!Valid
<1>4. missed' \subseteq 1..MaxId
  <2>1. m.first \in 1..MaxId /\ MaxId \in Nat
    BY TasksAssumption DEF Bybit!Messages, Bybit!StreamAssumption
  <2>2. book # None => lastSeq \in Nat
    BY DEF BybitInv, PartialBook
  <2>3. CASE missed' = {}
    BY <2>3
  <2>4. CASE Bybit!ReceiveDelta(m)
    <3>1. lastSeq \in Nat
      BY <2>2, <2>4 DEF Bybit!ReceiveDelta
    <3>2. (lastSeq + 1..m.first - 1) \subseteq 1..MaxId
      BY <2>1, <3>1
    <3> QED BY <2>4, <3>2 DEF Bybit!ReceiveDelta, BybitInv
  <2> QED BY <2>3, <2>4 DEF Bybit!ReceiveSnapshot
<1>5. PartialBook(book)'
  <2>1. \A p \in Prices : b.levels[p] = Bybit!Max(Seen(p, m.seq)')
    BY <1>1 DEF Follows
  <2>2. book' = b /\ b.sequence = m.seq /\ m.seq \in 0..Len(history')
    BY <1>1 DEF Follows
  <2>3. \A p : \A k : k = m.seq => Seen(p, k)' = Seen(p, m.seq)'
    BY DEF Seen
  <2> QED BY <1>2, <2>1, <2>2, <2>3 DEF PartialBook, Seen
<1>6. status'.snapshot = b
  BY <1>1 DEF Bybit!Valid, BybitInv, StatusInv
<1> QED BY <1>1, <1>2, <1>3, <1>4, <1>5, <1>6 DEF BybitInv, Follows, FeedStep, Feed!Next

LEMMA BybitEnds ==
    ASSUME BybitInv, phase \notin {"start", "backoff", "done"},
           NEW s \in {"STALE", "INVALID"}, Bybit!EndConnection(s),
           history' = history, pending' \in {pending, FALSE}, dropped' = dropped
    PROVE  BybitInv' /\ FeedStep
<1>1. /\ phase' = "backoff" /\ book' = None /\ lastSeq' = None /\ missed' = {}
      /\ status' = [status EXCEPT !.state = s, !.snapshot = None]
  BY DEF Bybit!EndConnection
<1>2. StatusInv' /\ Feed!Withdraw
  BY <1>1, StatusWithdrawn DEF BybitInv
<1>3. status'.snapshot = None
  BY <1>1 DEF BybitInv, StatusInv
<1> QED BY <1>1, <1>2, <1>3 DEF BybitInv, FeedStep, Feed!Next

\* A step that leaves the connection's book alone leaves it right.
LEMMA BookKept ==
    ASSUME UNCHANGED <<history, missed, book>>, PartialBook(book)
    PROVE  PartialBook(book)'
BY DEF PartialBook, Seen

LEMMA BybitTurns ==
    ASSUME BybitInv,
           \/ Bybit!Start \/ Bybit!Connect \/ Bybit!SleepEnds \/ Bybit!CommandCutsSleep
           \/ Bybit!EndTask \/ Bybit!ForceReconnect \/ Bybit!DropFeed
           \/ UNCHANGED <<feedVars, bybitVars>>
    PROVE  BybitInv' /\ FeedStep
<1> USE DEF Bybit!Syncing, Bybit!handleVars, Bybit!Restart, Bybit!taskVars,
        Bybit!connectionVars
<1>0. /\ StatusInv /\ UNCHANGED <<history, missed, book, lastSeq>>
      /\ book # None => PartialBook(book)'
  BY BookKept DEF BybitInv, Bybit!Start, Bybit!Connect, Bybit!SleepEnds,
     Bybit!CommandCutsSleep, Bybit!EndTask, Bybit!ForceReconnect, Bybit!DropFeed,
     feedVars, bybitVars
<1>1. CASE Bybit!Start \/ Bybit!SleepEnds \/ Bybit!CommandCutsSleep
  <2>1. /\ phase \in {"start", "backoff"} /\ phase' = "connect" /\ dropped' = dropped
        /\ status' = [state |-> "SYNCING", generation |-> status.generation + 1,
                      snapshot |-> None]
        /\ \/ pending' = pending /\ (phase = "start" \/ status.generation < MaxGeneration)
           \/ pending /\ pending' = FALSE
    BY <1>1 DEF Bybit!Start, Bybit!SleepEnds, Bybit!CommandCutsSleep
  <2>2. StatusInv' /\ Feed!Synchronise
    BY <1>0, <2>1, StatusSyncing
  <2> QED BY <1>0, <2>1, <2>2 DEF BybitInv, FeedStep, Feed!Next
<1>2. CASE Bybit!Connect
  <2>1. StatusInv' /\ UNCHANGED Feed!vars
    BY <1>0, <1>2, StatusKept DEF Bybit!Connect, StatusInv
  <2> QED BY <1>0, <1>2, <2>1 DEF Bybit!Connect, BybitInv, FeedStep
<1>3. CASE Bybit!EndTask
  <2>1. StatusInv'
    BY <1>0, <1>3 DEF Bybit!EndTask, StatusInv
  <2>2. Feed!End
    BY <1>0, <1>3 DEF Bybit!EndTask, Bybit!Closed, StatusInv, Feed!End, Feed!Connected
  <2> QED BY <1>0, <1>3, <2>1, <2>2 DEF Bybit!EndTask, BybitInv, FeedStep, Feed!Next
<1>4. CASE Bybit!ForceReconnect
  <2>1. StatusInv'
    <3>1. status.generation < MaxGeneration /\ status.generation \in Nat /\ MaxGeneration \in Nat
      BY <1>0, <1>4, TasksAssumption DEF Bybit!ForceReconnect, StatusInv,
         Bybit!StreamAssumption
    <3> QED BY <1>0, <1>4, <3>1 DEF Bybit!ForceReconnect, StatusInv
  <2>2. Feed!Ask
    BY <1>4 DEF Bybit!ForceReconnect, Feed!Ask
  <2> QED BY <1>0, <1>4, <2>1, <2>2 DEF Bybit!ForceReconnect, BybitInv, FeedStep, Feed!Next
<1>5. CASE Bybit!DropFeed
  <2>1. StatusInv'
    BY <1>0, <1>5 DEF Bybit!DropFeed, StatusInv
  <2>2. Feed!Drop
    BY <1>5 DEF Bybit!DropFeed, Feed!Drop
  <2> QED BY <1>0, <1>5, <2>1, <2>2 DEF Bybit!DropFeed, BybitInv, FeedStep, Feed!Next
<1>6. CASE UNCHANGED <<feedVars, bybitVars>>
  BY <1>0, <1>6 DEF feedVars, bybitVars, BybitInv, StatusInv, FeedStep, Feed!vars
<1> QED BY <1>1, <1>2, <1>3, <1>4, <1>5, <1>6

LEMMA BybitNext ==
    ASSUME BybitInv, Bybit!Next
    PROVE  BybitInv' /\ FeedStep
<1> DEFINE ends == \/ Bybit!ConnectFails \/ Bybit!DeltaBeforeSnapshot \/ Bybit!StaleDeadline
                   \/ Bybit!StreamFails \/ Bybit!ForcedReconnect \/ Bybit!CloseConnection
<1>1. CASE ends
  <2>1. PICK s \in {"STALE", "INVALID"} :
            /\ Bybit!EndConnection(s) /\ phase \notin {"start", "backoff", "done"}
            /\ history' = history /\ pending' \in {pending, FALSE} /\ dropped' = dropped
    BY <1>1 DEF Bybit!ConnectFails, Bybit!DeltaBeforeSnapshot, Bybit!StaleDeadline,
       Bybit!StreamFails, Bybit!ForcedReconnect, Bybit!CloseConnection, Bybit!handleVars
  <2> QED BY <2>1, BybitEnds
<1> QED BY <1>1, BybitUpdate, BybitReceives, BybitTurns DEF Bybit!Next

-----------------------------------------------------------------------------
(* The simulation engine *)

\* What an event's directions can still report of its frames.
Reporting == IF todo = 0 THEN 0 ELSE IF todo = 1 THEN frames ELSE frames + frames

EngineInv ==
    /\ Engine!TypeOK
    /\ Engine!FramesAccounted /\ Engine!NoLostWakeup
    /\ offering # None => offering.id = offered + 1
    /\ reported + Reporting <= 2 * handed
    /\ frames <= handed

LEMMA EngineInit == Engine!Init => EngineInv
<1> SUFFICES ASSUME Engine!Init PROVE EngineInv
  OBVIOUS
<1> USE TasksAssumption DEF Engine!Init, Engine!EngineAssumption
<1>1. 0 \in 0..MaxOffers /\ 0 \in 0..2 * MaxOffers
  OBVIOUS
<1>2. /\ slot \in Engine!Event \union {None}
      /\ offering \in Engine!Event \union {None}
      /\ running \in Engine!Event \union {None}
  OBVIOUS
<1>4. {offered, taken, handed} \subseteq 0..MaxOffers /\ skipped \in 0..MaxOffers
  BY <1>1
<1>5. {permit, stopped, aborted, failed} \subseteq BOOLEAN
  OBVIOUS
<1>6. Engine!TypeOK
  BY <1>1, <1>2, <1>4, <1>5 DEF Engine!TypeOK
<1>3. Engine!FramesAccounted /\ Engine!NoLostWakeup /\ reported + Reporting <= 2 * handed
  BY DEF Engine!FramesAccounted, Engine!Waiting, Engine!NoLostWakeup, Reporting
<1> QED BY <1>6, <1>3 DEF EngineInv

\* The observer's side.
LEMMA OfferInv ==
    ASSUME EngineInv,
           (\E n \in 0..2 : Engine!Offer(n)) \/ Engine!Store \/ Engine!Shutdown \/ Engine!Drop
    PROVE  EngineInv'
<1> USE TasksAssumption DEF Engine!EngineAssumption, EngineInv, Engine!TypeOK, Reporting,
        Engine!FramesAccounted, Engine!Waiting, Engine!NoLostWakeup, Engine!flags,
        Engine!worker, Engine!bridge
<1>1. ASSUME NEW n \in 0..2, Engine!Offer(n) PROVE EngineInv'
  <2>1. PICK e : e = [id |-> offered + 1, accepted |-> n]
    OBVIOUS
  <2>2. e \in Engine!Event /\ e # None /\ e.id = offered + 1
    BY <1>1, <2>1 DEF Engine!Offer, Engine!Event
  <2> QED BY <1>1, <2>1, <2>2 DEF Engine!Offer
<1>2. CASE Engine!Store
  BY <1>2 DEF Engine!Store, Engine!Event
<1>3. CASE Engine!Shutdown
  BY <1>3 DEF Engine!Shutdown
<1>4. CASE Engine!Drop
  BY <1>4 DEF Engine!Drop
<1> QED BY <1>1, <1>2, <1>3, <1>4

\* The worker's.
LEMMA WorkerInv ==
    ASSUME EngineInv, Engine!Worker
    PROVE  EngineInv'
<1> USE TasksAssumption DEF Engine!EngineAssumption, EngineInv, Engine!TypeOK, Reporting,
        Engine!FramesAccounted, Engine!Waiting, Engine!NoLostWakeup, Engine!flags,
        Engine!worker, Engine!bridge
<1>1. CASE Engine!CheckStopped
  BY <1>1 DEF Engine!CheckStopped
<1>2. CASE Engine!TakeEvent
  BY <1>2 DEF Engine!TakeEvent
<1>3. CASE Engine!FindNothing
  BY <1>3 DEF Engine!FindNothing
<1>4. CASE Engine!Wake
  BY <1>4 DEF Engine!Wake
<1>5. CASE Engine!SwapSkipped
  BY <1>5 DEF Engine!SwapSkipped, Engine!Event
<1>6. CASE Engine!DirectionEnds
  BY <1>6 DEF Engine!DirectionEnds
<1>7. CASE Engine!EventEnds
  BY <1>7 DEF Engine!EventEnds
<1>8. CASE Engine!EndAborted
  BY <1>8 DEF Engine!EndAborted
<1> QED BY <1>1, <1>2, <1>3, <1>4, <1>5, <1>6, <1>7, <1>8 DEF Engine!Worker

LEMMA EngineNext == ASSUME EngineInv, Engine!Next PROVE EngineInv'
BY OfferInv, WorkerInv DEF Engine!Next

-----------------------------------------------------------------------------
(* The theorems *)

TasksInv ==
    /\ part \in {"binance", "bybit", "engine"}
    /\ part # "bybit" => BinanceInv
    /\ part = "bybit" => BybitInv
    /\ EngineInv

LEMMA TasksInit == Init => TasksInv
BY BinanceInit, BybitInit, EngineInit DEF Init, TasksInv

\* No step of a task leaves its invariant, and none breaks the promise of the feed.
LEMMA TasksStep ==
    ASSUME TasksInv, [Next]_vars
    PROVE  TasksInv' /\ [Feed!Next]_Feed!vars
<1>1. UNCHANGED engineVars => EngineInv'
  BY DEF engineVars, TasksInv, EngineInv, Engine!TypeOK, Engine!FramesAccounted,
     Engine!Waiting, Engine!NoLostWakeup, Reporting
<1>2. CASE OfBinance(Binance!Next)
  BY <1>1, <1>2, BinanceNext DEF OfBinance, TasksInv, FeedStep
<1>3. CASE OfBybit(Bybit!Next)
  BY <1>1, <1>3, BybitNext DEF OfBybit, TasksInv, FeedStep
<1>4. ASSUME UNCHANGED <<part, feedVars, binanceVars, bybitVars>>, EngineInv'
      PROVE  TasksInv' /\ [Feed!Next]_Feed!vars
  BY <1>4, BinanceTurns, BybitTurns DEF TasksInv, FeedStep
<1>5. CASE OfEngine(Engine!Next)
  BY <1>4, <1>5, EngineNext DEF OfEngine, TasksInv
<1>6. CASE UNCHANGED vars
  BY <1>1, <1>4, <1>6 DEF vars
<1> QED BY <1>2, <1>3, <1>5, <1>6 DEF Next

LEMMA TasksInvariant == FairSpec => []TasksInv
<1>1. TasksInv /\ [Next]_vars => TasksInv'
  BY TasksStep
<1> QED BY <1>1, TasksInit, PTL DEF FairSpec

\* Binance and Bybit order books (venues/binance_stream.rs, bybit_stream.rs): a book is
\* published exactly while the feed is VALID, and it is the book the venue had at the
\* update it is numbered with, whatever events were missing, repeated or overlapping and
\* however old the snapshot was; on Bybit, but for the levels of messages that never came.
THEOREM PublishedBookIsVenueBook == FairSpec => []BookIsVenueBook
<1>1. TasksInv => BookIsVenueBook
  <2> SUFFICES ASSUME TasksInv PROVE BookIsVenueBook
    OBVIOUS
  <2>1. ASSUME part = "binance" PROVE Binance!ValidBookIsVenueBook
    BY <2>1 DEF TasksInv, BinanceInv, StatusInv, GoodBook, Binance!ValidBookIsVenueBook,
       Binance!Receiving
  <2>2. ASSUME part = "bybit" PROVE Bybit!ValidBookIsVenueBook
    BY <2>2 DEF TasksInv, BybitInv, StatusInv, PartialBook, Seen, Bybit!ValidBookIsVenueBook
  <2> QED BY <2>1, <2>2 DEF BookIsVenueBook
<1> QED BY <1>1, TasksInvariant, PTL

\* Either feed implements the safety part of BookFeed, step by step: within a generation
\* books only move forward, a withdrawn book is not shown again, a generation never
\* carries over the book of the one before, and a task ends only without its handle.
THEOREM FeedsImplementBookFeed == FairSpec => Feed!Init /\ [][Feed!Next]_Feed!vars
<1>1. Init => Feed!Init
  BY DEF Init, Binance!Init, Bybit!Init, Feed!Init
<1>2. TasksInv /\ [Next]_vars => [Feed!Next]_Feed!vars
  BY TasksStep
<1> QED BY <1>1, <1>2, TasksInvariant, PTL DEF FairSpec

\* SimulationEngine (simulation.rs): every frame offered waits in the slot, was taken, or
\* is in the count of skipped frames, though that is read outside the slot's mutex; and a
\* worker about to sleep has been told of the event in the slot.
THEOREM FramesAreAccounted == FairSpec => []FramesAccounted
<1>1. TasksInv => FramesAccounted
  BY DEF TasksInv, EngineInv, FramesAccounted
<1> QED BY <1>1, TasksInvariant, PTL
=============================================================================
