---------------------------- MODULE PaperLedger ----------------------------
(***************************************************************************)
(* The atomicity of paper trading: a ledger of holdings where each order   *)
(* is decided, and its holding moved, in one step, against the holdings of *)
(* that moment.  A fill is booked as the code books it, adding the quantity*)
(* whatever the side: the ledger says when and against what an order is    *)
(* decided, not that the booking of a SELL is right.                       *)
(***************************************************************************)
EXTENDS Integers, Sequences, Functions

CONSTANTS Portfolios, Markets, Quantities, MaxRequests,
          MaxPositionSize, MaxPortfolioExposure

VARIABLES
  requests,   \* the orders asked for, in order
  held,       \* [Portfolios \X Markets -> Int]
  answer      \* what was answered to each, "none" so far

vars == <<requests, held, answer>>

Order == [ portfolio : Portfolios, market : Markets,
           side : {"BUY", "SELL"}, quantity : Quantities ]

Exposure(p) == SumFunction([m \in Markets |-> held[<<p, m>>]])

Acceptable(order) ==
  /\ order.quantity <= MaxPositionSize
  /\ Exposure(order.portfolio) + order.quantity <= MaxPortfolioExposure

Init ==
  /\ requests = <<>>
  /\ held = [k \in Portfolios \X Markets |-> 0]
  /\ answer = [o \in 1..MaxRequests |-> "none"]

Ask(order) ==
  /\ requests' = Append(requests, order)
  /\ UNCHANGED <<held, answer>>

Answer(o, a) ==
  /\ answer[o] = "none"
  /\ answer' = [answer EXCEPT ![o] = a]
  /\ UNCHANGED requests

(* No quote: nothing happens. *)
NotFound(o) == Answer(o, "notfound") /\ UNCHANGED held

Reject(o) ==
  /\ ~ Acceptable(requests[o])
  /\ Answer(o, "rejected")
  /\ UNCHANGED held

Fill(o) ==
  /\ Acceptable(requests[o])
  /\ Answer(o, "filled")
  /\ held' = [held EXCEPT ![<<requests[o].portfolio, requests[o].market>>] =
                            @ + requests[o].quantity]

Next ==
  \/ \E order \in Order : Ask(order)
  \/ \E o \in 1..Len(requests) : NotFound(o) \/ Reject(o) \/ Fill(o)

Spec == Init /\ [][Next]_vars

============================================================================
