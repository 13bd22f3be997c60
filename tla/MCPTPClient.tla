---------------------------- MODULE MCPTPClient ----------------------------
(* PTPClient, and beside it the measurement whose result it takes from a   *)
(* set (PTPExchange): view is the one a behaviour is about.                *)
EXTENDS PTPClient, PTPExchange

VARIABLE view

MCInit == view \in {"client", "exchange"} /\ Init /\ ExchangeInit

ClientSteps(A) == view = "client" /\ A /\ UNCHANGED <<view, exchangeVars>>
ExchangeSteps == view = "exchange" /\ ExchangeNext /\ UNCHANGED <<view, vars>>

MCVars == <<view, vars, exchangeVars>>
MCFairness == WF_MCVars(ClientSteps(Loop))

MCSpec == MCInit /\ [][ClientSteps(Next) \/ ExchangeSteps]_MCVars /\ MCFairness
=============================================================================
