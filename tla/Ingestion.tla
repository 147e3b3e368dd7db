----------------------------- MODULE Ingestion -----------------------------
(***************************************************************************)
(* Market ingestion: the IngestMarkets use case of application/use_cases.py*)
(* and the event, market, snapshot and raw payload repositories it fills.  *)
(*                                                                         *)
(* One ingester runs at a time (nothing in the repository runs two).  A    *)
(* record of the provider is the market and event it is about, a quote,    *)
(* and what is wrong with it, if anything:                                 *)
(*   "key"    an identifier is missing (KeyError before anything is saved) *)
(*   "title"  a field Event refuses                                        *)
(*   "mtype"  a market_type MarketType does not know                       *)
(*   "venue"  a null venue, which Market and RawMarketPayload refuse       *)
(*   "quote"  a price PriceSnapshot refuses                                *)
(* Each raises where the entity that refuses it is built, and only there.  *)
(***************************************************************************)
EXTENDS Integers, FiniteSets, SequencesExt

CONSTANTS
  SourceMarkets, SourceEvents,   \* the provider's identifiers
  Quotes,
  Faults,         \* the faults records may have, "none" among them
  KeepPayloads,   \* TRUE: a raw payload repository is configured
  StoreMayFail,   \* TRUE: a repository call may raise (a database adapter)
  MaxBatch,       \* bound: records of a fetch
  MaxRuns,        \* bound: ingestion runs
  Ticks,          \* what the clock may move by between two readings: the
                  \* time of day (datetime.now) may stand still or step back
  NoRecord

AllFaults == {"none", "key", "title", "mtype", "venue", "quote"}

(* A dict of fetch_active_markets. *)
Record == [ market : SourceMarkets, event : SourceEvents, quote : Quotes,
            fault : Faults ]

(* Event, Market, PriceSnapshot and RawMarketPayload.  An entity's id is   *)
(* its place in its repository: ids are fresh, and repositories are        *)
(* insert-only here.  A market has the id of its event, a snapshot and a   *)
(* payload that of its market.  The entity does not keep the source id of  *)
(* the event its record named: named is a history field.                   *)
Event == [source : SourceEvents]
Market == [source : SourceMarkets, event : Nat, named : SourceEvents]
Snapshot == [market : Nat, at : Int, quote : Quotes]
Payload == [market : Nat]

(* IngestResult, while it is counted. *)
Counts == [ingested : Nat, saved : Nat, errors : Nat]

ASSUME IngestionAssumption ==
  /\ Faults \subseteq AllFaults
  /\ KeepPayloads \in BOOLEAN
  /\ StoreMayFail \in BOOLEAN
  /\ MaxBatch \in Nat /\ MaxRuns \in Nat
  /\ Ticks \subseteq Int
  /\ NoRecord \notin Record

VARIABLES
  events, markets, snapshots, payloads,   \* the repositories, in order
  clock,
  pc,        \* where execute() is
  left,      \* records of the batch still to be taken
  record,    \* the record in _process_one
  now,       \* the time read for it
  market,    \* the market found or created for it, 0 before
  fresh,     \* market_is_new
  counts,    \* the counters of execute(); after it, the returned summary
  run        \* history: the run's number, its batch size, and how many
             \* markets and snapshots were stored when it began

stored == <<events, markets, snapshots, payloads>>
locals == <<record, now, market, fresh>>
vars == <<events, markets, snapshots, payloads, clock, pc, left, record, now,
          market, fresh, counts, run>>

PC == {"idle", "loop", "find", "event", "market", "snapshot", "payload"}

----------------------------------------------------------------------------
Init ==
  /\ events = <<>> /\ markets = <<>> /\ snapshots = <<>> /\ payloads = <<>>
  /\ clock = 0
  /\ pc = "idle"
  /\ left = 0
  /\ record = NoRecord /\ now = 0 /\ market = 0 /\ fresh = FALSE
  /\ counts = [ingested |-> 0, saved |-> 0, errors |-> 0]
  /\ run = [number |-> 0, size |-> 0, markets |-> 0, snapshots |-> 0]

(* provider.fetch_active_markets: a batch of n records, or an exception    *)
(* (an HTTP error, or one payload without condition_id), which is not      *)
(* caught.                                                                 *)
Fetch(n) ==
  /\ pc = "idle" /\ run.number < MaxRuns
  /\ pc' = "loop"
  /\ left' = n
  /\ counts' = [ingested |-> 0, saved |-> 0, errors |-> 0]
  /\ run' = [number |-> run.number + 1, size |-> n,
             markets |-> Len(markets), snapshots |-> Len(snapshots)]
  /\ UNCHANGED <<stored, clock, locals>>

FetchFails ==
  /\ pc = "idle" /\ run.number < MaxRuns
  /\ run' = [run EXCEPT !.number = @ + 1]
  /\ UNCHANGED <<stored, clock, pc, left, locals, counts>>

Return ==
  /\ pc = "loop" /\ left = 0
  /\ pc' = "idle"
  /\ UNCHANGED <<stored, clock, left, locals, counts, run>>

(* Mutant: the error is not counted. *)
Raise_NotCounted ==
  /\ pc' = "loop"
  /\ record' = NoRecord /\ now' = 0 /\ market' = 0 /\ fresh' = FALSE
  /\ UNCHANGED counts

(* An exception in _process_one: the record is counted as an error, what   *)
(* was saved for it stays, and the loop goes on.                           *)
Raise ==
  /\ pc' = "loop"
  /\ counts' = [counts EXCEPT !.errors = @ + 1]
  /\ record' = NoRecord /\ now' = 0 /\ market' = 0 /\ fresh' = FALSE

(* _process_one returns: the market when it is new, else None.             *)
Finish ==
  /\ pc' = "loop"
  /\ counts' = [ingested |-> counts.ingested + IF fresh THEN 1 ELSE 0,
                saved |-> counts.saved + 1, errors |-> counts.errors]
  /\ record' = NoRecord /\ now' = 0 /\ market' = 0 /\ fresh' = FALSE

(* The next record, and the time; a missing identifier raises.             *)
Take(r, tick) ==
  /\ pc = "loop" /\ left > 0
  /\ left' = left - 1
  /\ clock' = clock + tick
  /\ IF r.fault = "key"
     THEN Raise
     ELSE /\ pc' = "find"
          /\ record' = r /\ now' = clock + tick
          /\ UNCHANGED <<market, fresh, counts>>
  /\ UNCHANGED <<stored, run>>

(* Mutant: a market is looked up by the source id of its event. *)
Found_ByEvent(source) ==
  { i \in 1..Len(markets) : events[markets[i].event].source = source }

(* market_repo.find_by_source_id: the first market of that source id.      *)
Found(source) == { i \in 1..Len(markets) : markets[i].source = source }

FindMarket ==
  /\ pc = "find"
  /\ Found(record.market) # {}
  /\ pc' = "snapshot"
  /\ market' = CHOOSE i \in Found(record.market) :
                 \A j \in Found(record.market) : i <= j
  /\ UNCHANGED <<stored, clock, left, record, now, fresh, counts, run>>

MarketIsNew ==
  /\ pc = "find"
  /\ Found(record.market) = {}
  /\ pc' = "event"
  /\ fresh' = TRUE
  /\ UNCHANGED <<stored, clock, left, record, now, market, counts, run>>

(* Mutant: the event saved last is taken for that of the record. *)
CreateEvent_Reused ==
  /\ pc = "event"
  /\ record.fault # "title"
  /\ pc' = "market"
  /\ events' = IF events = <<>> THEN <<[source |-> record.event]>> ELSE events
  /\ UNCHANGED <<markets, snapshots, payloads, clock, left, locals, counts, run>>

(* A new market gets a new event, whatever events are stored.              *)
CreateEvent ==
  /\ pc = "event"
  /\ record.fault # "title"
  /\ pc' = "market"
  /\ events' = Append(events, [source |-> record.event])
  /\ UNCHANGED <<markets, snapshots, payloads, clock, left, locals, counts, run>>

(* Mutant: the market is built and never saved. *)
CreateMarket_NotSaved ==
  /\ pc = "market"
  /\ record.fault \notin {"mtype", "venue"}
  /\ pc' = "snapshot"
  /\ market' = Len(markets) + 1
  /\ UNCHANGED <<stored, clock, left, record, now, fresh, counts, run>>

CreateMarket ==
  /\ pc = "market"
  /\ record.fault \notin {"mtype", "venue"}
  /\ pc' = "snapshot"
  /\ markets' = Append(markets, [source |-> record.market, event |-> Len(events),
                                 named |-> record.event])
  /\ market' = Len(markets) + 1
  /\ UNCHANGED <<events, snapshots, payloads, clock, left, record, now, fresh,
                 counts, run>>

(* Mutant: the payload is kept even though the snapshot is refused. *)
SaveSnapshot_RefusedGoesOn ==
  /\ pc = "snapshot"
  /\ pc' = "payload"
  /\ snapshots' = IF record.fault = "quote" THEN snapshots
                  ELSE Append(snapshots,
                         [market |-> market, at |-> now, quote |-> record.quote])
  /\ UNCHANGED <<events, markets, payloads, clock, left, locals, counts, run>>

SaveSnapshot ==
  /\ pc = "snapshot"
  /\ record.fault # "quote"
  /\ snapshots' = Append(snapshots,
                    [market |-> market, at |-> now, quote |-> record.quote])
  /\ IF KeepPayloads
     THEN pc' = "payload" /\ UNCHANGED <<locals, counts>>
     ELSE Finish
  /\ UNCHANGED <<events, markets, payloads, clock, left, run>>

SavePayload ==
  /\ pc = "payload"
  /\ record.fault # "venue"
  /\ payloads' = Append(payloads, [market |-> market])
  /\ Finish
  /\ UNCHANGED <<events, markets, snapshots, clock, left, run>>

(* The entity being built refuses the record. *)
Refused ==
  \/ pc = "event" /\ record.fault = "title"
  \/ pc = "market" /\ record.fault \in {"mtype", "venue"}
  \/ pc = "snapshot" /\ record.fault = "quote"
  \/ pc = "payload" /\ record.fault = "venue"

RecordFails ==
  /\ \/ Refused
     \/ StoreMayFail /\ pc \in {"find", "event", "market", "snapshot", "payload"}
  /\ Raise
  /\ UNCHANGED <<stored, clock, left, run>>

Next ==
  \/ \E n \in 0..MaxBatch : Fetch(n)
  \/ FetchFails
  \/ Return
  \/ \E r \in Record, tick \in Ticks : Take(r, tick)
  \/ FindMarket \/ MarketIsNew
  \/ CreateEvent \/ CreateMarket \/ SaveSnapshot \/ SavePayload
  \/ RecordFails

Spec == Init /\ [][Next]_vars

----------------------------------------------------------------------------
SnapshotsOf(m) == { i \in 1..Len(snapshots) : snapshots[i].market = m }

(* Mutant: the snapshot saved last. *)
GetLatest_LastSaved(m) ==
  CHOOSE i \in SnapshotsOf(m) : \A j \in SnapshotsOf(m) : j <= i

(* snapshot_repo.get_latest(m), as the snapshot's place in the repository: *)
(* max() over the insertion order, which keeps the first of equals.        *)
GetLatest(m) ==
  LET newest == { i \in SnapshotsOf(m) :
                    \A j \in SnapshotsOf(m) : snapshots[j].at <= snapshots[i].at }
  IN CHOOSE i \in newest : \A j \in newest : i <= j

----------------------------------------------------------------------------
(* Every variable has its type; the market in hand is a stored one.        *)
TypeOK ==
  /\ events \in Seq(Event) /\ markets \in Seq(Market)
  /\ snapshots \in Seq(Snapshot) /\ payloads \in Seq(Payload)
  /\ clock \in Int
  /\ pc \in PC
  /\ left \in 0..MaxBatch
  /\ record \in Record \union {NoRecord}
  /\ now \in Int /\ market \in 0..Len(markets) /\ fresh \in BOOLEAN
  /\ counts \in Counts
  /\ run \in [number : 0..MaxRuns, size : 0..MaxBatch, markets : Nat, snapshots : Nat]

(* A source market is stored once, whatever is wrong with the records that *)
(* mention it and wherever an earlier attempt at it failed                 *)
(* ("No duplicate markets", docs/domain/market_data.md).                   *)
NoDuplicateMarkets ==
  \A i, j \in 1..Len(markets) : markets[i].source = markets[j].source => i = j

(* A stored market belongs to a stored event, and to the one the record    *)
(* named that created it (market_data.md, invariant 1), although a record  *)
(* that failed between the two saves leaves an event without a market.     *)
MarketHasItsEvent ==
  \A i \in 1..Len(markets) :
    /\ markets[i].event \in 1..Len(events)
    /\ events[markets[i].event].source = markets[i].named

(* An event of the provider is stored once: ingestion "upserts Event"      *)
(* (market_data.md:29), which "one or more markets are based on"           *)
(* (entities.py:68).  Each new market is given a new one.                  *)
NoDuplicateEvents ==
  \A i, j \in 1..Len(events) : events[i].source = events[j].source => i = j

(* A snapshot and a payload are of a stored market. *)
SnapshotsOfSavedMarkets ==
  /\ \A i \in 1..Len(snapshots) : snapshots[i].market \in 1..Len(markets)
  /\ \A i \in 1..Len(payloads) : payloads[i].market \in 1..Len(markets)

(* The audit trail never tells of more observations of a market than were  *)
(* stored: a payload is kept only after its snapshot.                      *)
PayloadsBackedBySnapshots ==
  \A m \in 1..Len(markets) :
    Cardinality({ i \in 1..Len(payloads) : payloads[i].market = m })
      <= Cardinality({ i \in 1..Len(snapshots) : snapshots[i].market = m })

NewMarkets == Len(markets) - run.markets
NewSnapshots == Len(snapshots) - run.snapshots

(* The summary of a run accounts for every record of its batch, and what   *)
(* was stored lies between what it reports and that plus the errors: one   *)
(* bad record never hides another, and never stops the loop.               *)
SummaryBrackets ==
  pc = "idle" =>
    /\ counts.saved + counts.errors = run.size
    /\ counts.saved <= NewSnapshots /\ NewSnapshots <= counts.saved + counts.errors
    /\ counts.ingested <= NewMarkets /\ NewMarkets <= counts.ingested + counts.errors

(* What makes the above inductive: which record is in hand, which market,  *)
(* and how far the counters are behind what is stored.                     *)
Pending == left + IF pc \in {"idle", "loop"} THEN 0 ELSE 1
Observed == IF pc = "payload" THEN 1 ELSE 0
Created == IF fresh /\ pc \in {"snapshot", "payload"} THEN 1 ELSE 0

Control ==
  /\ record = NoRecord <=> pc \in {"idle", "loop"}
  /\ pc \in {"event", "market"} =>
       \A i \in 1..Len(markets) : markets[i].source # record.market
  /\ pc = "market" =>
       Len(events) > 0 /\ events[Len(events)].source = record.event
  /\ pc \in {"snapshot", "payload"} => market # 0
  /\ pc = "idle" => left = 0
  /\ pc \in {"idle", "loop", "find"} => ~fresh
  /\ pc \in {"event", "market"} => fresh

Tally ==
  /\ counts.saved + counts.errors + Pending = run.size
  /\ counts.saved + Observed <= NewSnapshots
  /\ NewSnapshots <= counts.saved + counts.errors + Observed
  /\ counts.ingested + Created <= NewMarkets
  /\ NewMarkets <= counts.ingested + counts.errors + Created

IInv == TypeOK /\ NoDuplicateMarkets /\ MarketHasItsEvent
          /\ SnapshotsOfSavedMarkets /\ Control /\ Tally

(* Whatever the clock does, what get_latest returns for a market is only   *)
(* ever replaced by a snapshot of a later time: one saved when the clock   *)
(* stood still or had stepped back is hidden behind it, and never shown in *)
(* its place.                                                              *)
LatestNeverGoesBack ==
  [][\A m \in 1..Len(markets) :
       \/ SnapshotsOf(m) = {}
       \/ GetLatest(m)' = GetLatest(m)
       \/ snapshots'[GetLatest(m)'].at > snapshots[GetLatest(m)].at]_vars

============================================================================
