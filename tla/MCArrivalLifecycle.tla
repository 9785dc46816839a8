------------------------- MODULE MCArrivalLifecycle -------------------------
(* The abstract lifecycle on its own: one Arrival with two packs.            *)
EXTENDS ArrivalLifecycle

OneArrival == {"a1"}
TwoPacks   == {"p1", "p2"}
=============================================================================
