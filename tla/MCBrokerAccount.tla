-------------------------- MODULE MCBrokerAccount --------------------------
(* Instance of BrokerAccount for TLC. *)
EXTENDS BrokerAccount

UncrossedQuotes == { q \in [bid : 0..2, ask : 0..2] : q.bid <= q.ask }
============================================================================
