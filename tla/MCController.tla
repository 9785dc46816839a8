---------------------------- MODULE MCController ----------------------------
(***************************************************************************)
(* Small instances of Controller.  One Arrival and one or two packs: the    *)
(* races are between the two goroutines over one Arrival.                   *)
(***************************************************************************)
EXTENDS Controller

OneArrival  == {"a1"}
TwoArrivals == {"a1", "a2"}
OnePack     == {"p1"}
TwoPacks    == {"p1", "p2"}

\* Both goroutines, as Run starts them.
BothWorkers == {"handler", "ticker"}
\* The ticker alone: what the code would do if reconciles were serialized.
TickerOnly  == {"ticker"}
=============================================================================
