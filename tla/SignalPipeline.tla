--------------------------- MODULE SignalPipeline ---------------------------
(***************************************************************************)
(* From prices to signals: GenerateEstimate and DetectSignal of            *)
(* application/use_cases.py, run by the threads of the web server, and the *)
(* ingester that brings the snapshots, over shared repositories.           *)
(*                                                                         *)
(* One repository call, or one reading of the clock, is one step.          *)
(* get_latest iterates over a live list, which other threads only append   *)
(* to: it sees all that is in the list when its iteration ends, and is one *)
(* step.                                                                   *)
(***************************************************************************)
EXTENDS SignalEngine, Sequences, FiniteSets

CONSTANTS
  Workers,         \* threads of the server's pool
  Markets,
  Prices,          \* mid-prices
  Estimates,       \* what models return, invalid probabilities included
  MaxClock, MaxSnapshots, MaxRequests,   \* bounds
  StoreMayFail,    \* TRUE: a repository call may raise (a database adapter)
  NoPrice,         \* a one-sided snapshot has no mid_price
  NoModel,         \* a request for a signal runs no model
  NoSnapshot, NoFrame

Probability == 0..One

(* PriceSnapshot and ModelEstimate.  An id is a place in a repository. *)
Snapshot == [market : Markets, mid : Prices \union {NoPrice}, at : Nat]
Estimate == [market : Markets, probability : Probability, at : Nat]

(* Signal.  The entity keeps neither the snapshot nor the verdict, which   *)
(* is only in the answer: snapshot and actionable are history fields, and  *)
(* since tells what was stored when its request began.                     *)
Stored == [snapshots : Nat, estimates : Nat]
Signal == [ market : Markets, estimate : Nat, marketProb : Int, modelProb : Int,
            edge : Int, at : Nat, snapshot : Nat, actionable : BOOLEAN,
            since : Stored ]

(* The locals of GenerateEstimate.execute and of DetectSignal.execute;     *)
(* an entity read is known by its place, 0 before it is read.              *)
Frame == [ market : Markets, model : Estimates \union {NoModel},
           snapshot : Nat, estimate : Nat, at : Nat, since : Stored ]

ASSUME PipelineAssumption ==
  /\ Prices \subseteq Int /\ Estimates \subseteq Int
  /\ MaxClock \in Nat /\ MaxSnapshots \in Nat /\ MaxRequests \in Nat
  /\ StoreMayFail \in BOOLEAN
  /\ NoPrice \notin Prices /\ NoModel \notin Estimates
  /\ NoSnapshot \notin Snapshot /\ NoFrame \notin Frame

VARIABLES
  clock,
  known,        \* the market repository
  snapshots, estimates, signals,   \* the other repositories, in order
  observed,     \* the snapshot the ingester is about to store, if any
  pc, frame,    \* per worker
  requests      \* how many requests were made

store == <<known, snapshots, estimates, signals>>
vars == <<clock, store, observed, pc, frame, requests>>

PC == {"idle", "market", "estimated", "snapshot", "estimate", "evaluate", "detected"}

----------------------------------------------------------------------------
(* Mutant: the first in the list. *)
LatestIn_First(list, m) ==
  LET of == { i \in 1..Len(list) : list[i].market = m }
  IN CHOOSE i \in of : \A j \in of : i <= j

(* max(relevant, key = time): the first of the newest, as a place in the   *)
(* list.                                                                   *)
LatestIn(list, m) ==
  LET of == { i \in 1..Len(list) : list[i].market = m }
      newest == { i \in of : \A j \in of : list[j].at <= list[i].at }
  IN CHOOSE i \in newest : \A j \in newest : i <= j

Has(list, m) == \E i \in 1..Len(list) : list[i].market = m

----------------------------------------------------------------------------
Init ==
  /\ clock = 0
  /\ known = {}
  /\ snapshots = <<>> /\ estimates = <<>> /\ signals = <<>>
  /\ observed = NoSnapshot
  /\ pc = [w \in Workers |-> "idle"]
  /\ frame = [w \in Workers |-> NoFrame]
  /\ requests = 0

Tick ==
  /\ clock < MaxClock
  /\ clock' = clock + 1
  /\ UNCHANGED <<store, observed, pc, frame, requests>>

(* The ingester: the time is read first, the market stored when it is new, *)
(* the snapshot stored last.  A record may fail at either save.            *)
Observe(m, mid) ==
  /\ observed = NoSnapshot /\ Len(snapshots) < MaxSnapshots
  /\ observed' = [market |-> m, mid |-> mid, at |-> clock]
  /\ UNCHANGED <<clock, store, pc, frame, requests>>

KeepMarket ==
  /\ observed # NoSnapshot /\ observed.market \notin known
  /\ known' = known \union {observed.market}
  /\ UNCHANGED <<clock, snapshots, estimates, signals, observed, pc, frame, requests>>

KeepSnapshot ==
  /\ observed # NoSnapshot /\ observed.market \in known
  /\ snapshots' = Append(snapshots, observed)
  /\ observed' = NoSnapshot
  /\ UNCHANGED <<clock, known, estimates, signals, pc, frame, requests>>

DropRecord ==
  /\ observed # NoSnapshot
  /\ observed' = NoSnapshot
  /\ UNCHANGED <<clock, store, pc, frame, requests>>

----------------------------------------------------------------------------
Goto(w, from, to) == pc[w] = from /\ pc' = [pc EXCEPT ![w] = to]

Return(w) == frame' = [frame EXCEPT ![w] = NoFrame]

(* A client asks for an estimate or a signal of a market. *)
Ask(w, to, m, model) ==
  /\ requests < MaxRequests
  /\ Goto(w, "idle", to)
  /\ requests' = requests + 1
  /\ frame' = [frame EXCEPT ![w] =
       [ market |-> m, model |-> model, snapshot |-> 0, estimate |-> 0, at |-> 0,
         since |-> [snapshots |-> Len(snapshots), estimates |-> Len(estimates)] ]]
  /\ UNCHANGED <<clock, store, observed>>

AskEstimate(w) == \E m \in Markets, p \in Estimates : Ask(w, "market", m, p)

AskSignal(w) == \E m \in Markets : Ask(w, "snapshot", m, NoModel)

(* GenerateEstimate: an unknown market is not found.                       *)
UnknownMarket(w) ==
  /\ Goto(w, "market", "idle")
  /\ frame[w].market \notin known
  /\ Return(w)
  /\ UNCHANGED <<clock, store, observed, requests>>

(* ModelEstimate refuses a probability that is not one.                    *)
EstimateRefused(w) ==
  /\ Goto(w, "market", "idle")
  /\ frame[w].market \in known /\ frame[w].model \notin Probability
  /\ Return(w)
  /\ UNCHANGED <<clock, store, observed, requests>>

(* Mutant: the probability is not validated. *)
RunModel_Unchecked(w) ==
  /\ Goto(w, "market", "estimated")
  /\ frame[w].market \in known
  /\ frame' = [frame EXCEPT ![w].at = clock]
  /\ UNCHANGED <<clock, store, observed, requests>>

(* The model runs, and the time of the estimate is read.                   *)
RunModel(w) ==
  /\ Goto(w, "market", "estimated")
  /\ frame[w].market \in known /\ frame[w].model \in Probability
  /\ frame' = [frame EXCEPT ![w].at = clock]
  /\ UNCHANGED <<clock, store, observed, requests>>

SaveEstimate(w) ==
  /\ Goto(w, "estimated", "idle")
  /\ estimates' = Append(estimates,
       [ market |-> frame[w].market, probability |-> frame[w].model, at |-> frame[w].at ])
  /\ Return(w)
  /\ UNCHANGED <<clock, known, snapshots, signals, observed, requests>>

(* DetectSignal: the latest snapshot, which must have a mid-price, then    *)
(* the latest estimate.                                                    *)
NoMidPrice(w) ==
  /\ Goto(w, "snapshot", "idle")
  /\ Has(snapshots, frame[w].market) =>
       snapshots[LatestIn(snapshots, frame[w].market)].mid = NoPrice
  /\ Return(w)
  /\ UNCHANGED <<clock, store, observed, requests>>

ReadSnapshot(w) ==
  /\ Goto(w, "snapshot", "estimate")
  /\ Has(snapshots, frame[w].market)
  /\ snapshots[LatestIn(snapshots, frame[w].market)].mid # NoPrice
  /\ frame' = [frame EXCEPT ![w].snapshot = LatestIn(snapshots, frame[w].market)]
  /\ UNCHANGED <<clock, store, observed, requests>>

NoEstimate(w) ==
  /\ Goto(w, "estimate", "idle")
  /\ ~ Has(estimates, frame[w].market)
  /\ Return(w)
  /\ UNCHANGED <<clock, store, observed, requests>>

ReadEstimate(w) ==
  /\ Goto(w, "estimate", "evaluate")
  /\ Has(estimates, frame[w].market)
  /\ frame' = [frame EXCEPT ![w].estimate = LatestIn(estimates, frame[w].market)]
  /\ UNCHANGED <<clock, store, observed, requests>>

(* Mutant: the signal bears the time of its price. *)
BuildSignal_PriceTime(w) ==
  /\ Goto(w, "evaluate", "detected")
  /\ frame' = [frame EXCEPT ![w].at = snapshots[frame[w].snapshot].at]
  /\ UNCHANGED <<clock, store, observed, requests>>

(* The evaluation, and the time of the signal. *)
BuildSignal(w) ==
  /\ Goto(w, "evaluate", "detected")
  /\ frame' = [frame EXCEPT ![w].at = clock]
  /\ UNCHANGED <<clock, store, observed, requests>>

(* No interval width is passed to the evaluator.                           *)
Detected(f) ==
  LET market == snapshots[f.snapshot].mid
      model == estimates[f.estimate].probability
      result == Evaluate(model, market, 0)
  IN [ market |-> f.market, estimate |-> f.estimate, marketProb |-> market,
       modelProb |-> model, edge |-> result.edge, at |-> f.at,
       snapshot |-> f.snapshot, actionable |-> result.actionable, since |-> f.since ]

SaveSignal(w) ==
  /\ Goto(w, "detected", "idle")
  /\ signals' = Append(signals, Detected(frame[w]))
  /\ Return(w)
  /\ UNCHANGED <<clock, known, snapshots, estimates, observed, requests>>

(* A repository call raises. *)
StoreFails(w) ==
  /\ StoreMayFail
  /\ pc[w] \notin {"idle", "evaluate"}
  /\ pc' = [pc EXCEPT ![w] = "idle"]
  /\ Return(w)
  /\ UNCHANGED <<clock, store, observed, requests>>

(* sorted(list, key = time, reverse = True): the newest first, and those   *)
(* of equal times in the order of the list.                                *)
NewestFirst(list) ==
  LET newer(i, j) == \/ list[i].at > list[j].at
                     \/ list[i].at = list[j].at /\ i < j
      place(i) == Cardinality({ j \in DOMAIN list : newer(j, i) }) + 1
  IN [ k \in 1..Len(list) |-> list[CHOOSE i \in DOMAIN list : place(i) = k] ]

(* Mutant: the last ones stored. *)
ListRecent_LastStored(limit) ==
  [ k \in 1..(IF limit < Len(signals) THEN limit ELSE Len(signals)) |->
      signals[Len(signals) - k + 1] ]

(* GET /signals: signal_repo.list_recent(limit).                           *)
ListRecent(limit) ==
  SubSeq(NewestFirst(signals), 1, IF limit < Len(signals) THEN limit ELSE Len(signals))

Next ==
  \/ Tick
  \/ \E m \in Markets, mid \in Prices \union {NoPrice} : Observe(m, mid)
  \/ KeepMarket \/ KeepSnapshot \/ DropRecord
  \/ \E w \in Workers :
       \/ AskEstimate(w) \/ UnknownMarket(w) \/ EstimateRefused(w)
       \/ RunModel(w) \/ SaveEstimate(w)
       \/ AskSignal(w) \/ NoMidPrice(w) \/ ReadSnapshot(w)
       \/ NoEstimate(w) \/ ReadEstimate(w) \/ BuildSignal(w) \/ SaveSignal(w)
       \/ StoreFails(w)

Spec == Init /\ [][Next]_vars

----------------------------------------------------------------------------
(* Every variable has its type.                                            *)
TypeOK ==
  /\ clock \in 0..MaxClock
  /\ known \subseteq Markets
  /\ snapshots \in Seq(Snapshot) /\ Len(snapshots) <= MaxSnapshots
  /\ estimates \in Seq(Estimate) /\ signals \in Seq(Signal)
  /\ observed \in Snapshot \union {NoSnapshot}
  /\ pc \in [Workers -> PC]
  /\ frame \in [Workers -> Frame \union {NoFrame}]
  /\ requests \in 0..MaxRequests

(* A signal is about a stored market, compares a stored snapshot and a     *)
(* stored estimate of that very market, and bears a time at which both had *)
(* been made: a replay of the signals never looks ahead, although every    *)
(* time is read some steps before what bears it is stored.                 *)
SignalsFollowTheirData ==
  \A i \in 1..Len(signals) :
    LET s == signals[i] IN
    /\ s.market \in known
    /\ s.snapshot \in 1..Len(snapshots) /\ s.estimate \in 1..Len(estimates)
    /\ snapshots[s.snapshot].market = s.market /\ snapshots[s.snapshot].at <= s.at
    /\ estimates[s.estimate].market = s.market /\ estimates[s.estimate].at <= s.at

(* No signal is staler than its request: its snapshot and its estimate are *)
(* no older than any of its market stored when the request began, so of    *)
(* two requests that follow one another the second never goes back to      *)
(* older data, whatever runs between and beside them.                      *)
SignalsNeverStale ==
  \A i \in 1..Len(signals) :
    LET s == signals[i] IN
    /\ \A k \in 1..s.since.snapshots :
         snapshots[k].market = s.market => snapshots[k].at <= snapshots[s.snapshot].at
    /\ \A k \in 1..s.since.estimates :
         estimates[k].market = s.market => estimates[k].at <= estimates[s.estimate].at

(* Though signals are stored out of the order of their times, a client     *)
(* that asks for the recent ones is shown as many as there are, up to the  *)
(* limit, newest first, and no newer one is left out.                      *)
RecentIsNewest ==
  \A limit \in 1..MaxRequests :
    LET shown == ListRecent(limit) IN
    /\ Len(shown) = IF limit < Len(signals) THEN limit ELSE Len(signals)
    /\ \A k \in 1..Len(shown) - 1 : shown[k].at >= shown[k + 1].at
    /\ \A i \in 1..Len(signals) :
         \/ \E k \in 1..Len(shown) : shown[k] = signals[i]
         \/ \A k \in 1..Len(shown) : signals[i].at <= shown[k].at

============================================================================
