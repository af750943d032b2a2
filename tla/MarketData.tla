----------------------------- MODULE MarketData -----------------------------
(***************************************************************************)
(* The read-only market data service (marketdata.ts): normalised events    *)
(* (normalize.ts, the handlers of bybitWs.ts) go to the FeatureStore       *)
(* (store.ts), which survives a stop and a start; staleness is brought over*)
(* only when somebody reads.  A book is its status and its top; everything *)
(* the store derives from a top is the field `micro'.                      *)
(***************************************************************************)
EXTENDS Integers, FiniteSets

CONSTANTS
  Symbols, Tops, Prices,
  None,
  MaxChanges   \* bound: events, starts and stops

VARIABLES
  running, watched,  \* MarketDataService: is there an ingestion, of which symbols
  books,             \* the ingestion's OrderBooks: status and top
  tickers,           \* its tickerState: merged prices
  features,          \* FeatureStore
  shown,             \* the last snapshot(): running, and per symbol status, top, micro
  late,              \* history: symbols whose features an old ingestion wrote last
  changes
marketVars == <<running, watched, books, tickers, features, shown, late, changes>>

NoFeatures == [micro |-> None, bookFresh |-> FALSE, lastPrice |-> None, bars |-> 0]
EmptyBook  == [status |-> "EMPTY", top |-> None]

Init ==
  /\ running = FALSE /\ watched = {}
  /\ books = [s \in Symbols |-> EmptyBook] /\ tickers = [s \in Symbols |-> None]
  /\ features = [s \in Symbols |-> None]
  /\ shown = None /\ late = {} /\ changes = 0

Changed == changes < MaxChanges /\ changes' = changes + 1
Ensured(s) == IF features[s] = None THEN NoFeatures ELSE features[s]
-----------------------------------------------------------------------------
(* FeatureStore                                                            *)
OnBook(s, top) == features' = [features EXCEPT ![s] = [Ensured(s) EXCEPT !.micro = top, !.bookFresh = TRUE]]
OnPrice(s, p)  == features' = [features EXCEPT ![s] = [Ensured(s) EXCEPT !.lastPrice = p]]
OnBar(s)       == features' = [features EXCEPT ![s] = [Ensured(s) EXCEPT !.bars = @ + 1]]

MarkedStale(s) == [Ensured(s) EXCEPT !.micro = None, !.bookFresh = FALSE]

(* normaliseTicker: a field the venue left out keeps its last value, the   *)
(* mark price falls back on the last price; no price at all, no event.     *)
NormaliseTicker(last, mark, previous) ==
  LET l == IF last # None THEN last ELSE IF previous # None THEN previous.last ELSE None
      m == IF mark # None THEN mark ELSE IF previous # None THEN previous.mark ELSE l
  IN  IF l = None THEN None ELSE [last |-> l, mark |-> m]
-----------------------------------------------------------------------------
(* start() stops the ingestion there is and makes a new one, new books     *)
(* included, unless there is nothing to watch.                             *)
Start(symbols) ==
  /\ Changed
  /\ IF symbols = {} THEN running' = FALSE /\ UNCHANGED <<watched, books, tickers>>
     ELSE /\ running' = TRUE /\ watched' = symbols
          /\ books' = [s \in Symbols |-> EmptyBook] /\ tickers' = [s \in Symbols |-> None]
  /\ UNCHANGED <<features, shown, late>>

Stop == Changed /\ running' = FALSE /\ UNCHANGED <<watched, books, tickers, features, shown, late>>

(* handleBook: an applied update goes on to the store, a refused one       *)
(* (gap, crossed, stale) or a closed socket changes the book only.         *)
BookApplied(s, top) ==
  /\ running /\ s \in watched /\ Changed
  /\ books' = [books EXCEPT ![s] = [status |-> "HEALTHY", top |-> top]]
  /\ OnBook(s, top) /\ late' = late \ {s}
  /\ UNCHANGED <<running, watched, tickers, shown>>
BookInvalidated(s) ==
  /\ running /\ s \in watched /\ books[s].status = "HEALTHY" /\ Changed
  /\ books' = [books EXCEPT ![s].status = "STALE"]
  /\ UNCHANGED <<running, watched, tickers, features, shown, late>>

(* A message of a stopped ingestion: its handlers do not look at `stopped' *)
(* and it writes to the same store.                                        *)
LateBook(s, top) ==
  /\ s \in watched /\ Changed
  /\ OnBook(s, top) /\ late' = late \cup {s}
  /\ UNCHANGED <<running, watched, books, tickers, shown>>

TradeEvent(s, p) ==
  /\ running /\ s \in watched /\ Changed
  /\ OnPrice(s, p) /\ UNCHANGED <<running, watched, books, tickers, shown, late>>
TickerEvent(s, last, mark) ==
  LET event == NormaliseTicker(last, mark, tickers[s])
  IN  /\ running /\ s \in watched /\ event # None /\ Changed
      /\ tickers' = [tickers EXCEPT ![s] = event] /\ OnPrice(s, event.last)
      /\ UNCHANGED <<running, watched, books, shown, late>>
(* An unconfirmed kline is ignored.                                        *)
KlineEvent(s) ==
  /\ running /\ s \in watched /\ Changed
  /\ OnBar(s) /\ UNCHANGED <<running, watched, books, tickers, shown, late>>

SyncedUnlessEmpty(s) ==   \* mutant: a book that never filled is left alone
  IF running /\ s \in watched /\ books[s].status = "STALE" THEN MarkedStale(s) ELSE features[s]

(* syncStaleness, which every snapshot() runs first                        *)
Synced(s) ==
  IF running /\ s \in watched /\ books[s].status # "HEALTHY" THEN MarkedStale(s) ELSE features[s]

Snapshot ==
  /\ features' = [s \in Symbols |-> Synced(s)]
  /\ shown' = [running |-> running, of |-> watched,
               books |-> [s \in Symbols |-> IF running THEN books[s] ELSE EmptyBook],
               micro |-> [s \in Symbols |-> IF features'[s] = None THEN None ELSE features'[s].micro],
               mixed |-> late]
  /\ UNCHANGED <<running, watched, books, tickers, late, changes>>

Next ==
  \/ \E symbols \in SUBSET Symbols : Start(symbols)
  \/ Stop \/ Snapshot
  \/ \E s \in Symbols :
       \/ BookInvalidated(s) \/ KlineEvent(s)
       \/ \E top \in Tops : BookApplied(s, top) \/ LateBook(s, top)
       \/ \E p \in Prices : TradeEvent(s, p)
       \/ \E last, mark \in Prices \cup {None} : TickerEvent(s, last, mark)
-----------------------------------------------------------------------------
TypeOk ==
  /\ running \in BOOLEAN /\ watched \subseteq Symbols /\ late \subseteq Symbols
  /\ books \in [Symbols -> [status : {"EMPTY", "HEALTHY", "STALE"}, top : Tops \cup {None}]]
  /\ \A s \in Symbols : features[s] # None =>
       features[s].micro \in Tops \cup {None} /\ features[s].bookFresh \in BOOLEAN
  /\ changes \in 0 .. MaxChanges

(* Nobody who reads while the service runs sees figures of a book that is  *)
(* not healthy, and those of a healthy one are its current top unless a    *)
(* message of an old ingestion came in between; fresh figures exist only   *)
(* together, and the merged ticker never loses a price it once had.        *)
FreshOrBlank ==
  /\ shown # None /\ shown.running => \A s \in shown.of :
       /\ shown.books[s].status # "HEALTHY" => shown.micro[s] = None
       /\ shown.books[s].status = "HEALTHY" /\ s \notin shown.mixed => shown.micro[s] = shown.books[s].top
  /\ \A s \in Symbols : features[s] # None => (features[s].bookFresh <=> features[s].micro # None)
  /\ running => \A s \in watched :
       tickers[s] # None => tickers[s].last # None /\ tickers[s].mark # None

(* Inductive: what the store and the tickers hold, and that the figures of *)
(* a healthy book are its top before anybody reads them.                   *)
Features == [micro : Tops \cup {None}, bookFresh : BOOLEAN, lastPrice : Prices \cup {None}, bars : Nat]

MarketInv ==
  /\ TypeOk /\ FreshOrBlank
  /\ features \in [Symbols -> Features \cup {None}]
  /\ tickers \in [Symbols -> [last : Prices, mark : Prices] \cup {None}]
  /\ running => \A s \in watched \ late :
       books[s].status = "HEALTHY" => features[s] # None /\ features[s].micro = books[s].top
=============================================================================
