------------------------------- MODULE Broker -------------------------------
(***************************************************************************)
(* The broker on the test bench, as far as its neighbours can tell: it is  *)
(* up or down, and every run of it uses another local port.  External.     *)
(***************************************************************************)
EXTENDS Naturals

CONSTANT MaxRuns    \* bound on the runs of the broker

ASSUME BrokerAssumption == MaxRuns \in Nat \ {0}

VARIABLE broker     \* is it up, and which run is it

Run == 1..MaxRuns

BrokerTypeOK == broker \in [up : BOOLEAN, run : Run]

BrokerInit == broker = [up |-> TRUE, run |-> 1]

Stop == broker.up /\ broker' = [broker EXCEPT !.up = FALSE]

Start ==
    /\ ~broker.up
    /\ broker.run < MaxRuns
    /\ broker' = [up |-> TRUE, run |-> broker.run + 1]
=============================================================================
