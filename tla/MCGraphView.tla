---------------------------- MODULE MCGraphView ----------------------------
(* GraphView with three monitors: two of one type, of which one lacks its   *)
(* statistic and one is measured at every other update, and one with a      *)
(* fixed maximum; two draws for each update.  A maximum that follows 20 is  *)
(* 21 and 20 in turn.                                                       *)
EXTENDS GraphView

MCMonitors == {"a", "b", "c"}
MCType == [m \in MCMonitors |-> IF m = "b" THEN "memory" ELSE "disk"]
MCFixed == {"b"}
MCRule == [m \in MCMonitors |-> IF m = "b" THEN "total" ELSE "gradual"]
MCWhole == [m \in MCMonitors |-> IF m = "b" THEN 20 ELSE 0]
MCWait == [m \in MCMonitors |-> IF m = "c" THEN 2 ELSE 1]
MCSamples == [m \in MCMonitors |-> IF m = "a" THEN {0, NaN} ELSE {0, 20}]
MCKinds == {"curve", "column", "bar", "flame", "text"}
MCRooms == {2, 3}
MCInOverlay == {"a", "b"}
MCRefuels == {1}
==========================================================================
