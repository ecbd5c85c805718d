--------------------------- MODULE MCWatchedSignal ---------------------------
(***************************************************************************)
(* Small instances of WatchedSignal for TLC: a call on the ladder          *)
(*   broken 1 < stop 2 < reset 3 < trigger 4 = zone < drift 5 < target 6,  *)
(* the put that mirrors it, with and without a stop.                       *)
(***************************************************************************)
EXTENDS WatchedSignal

Call == [side |-> "CALL", long |-> FALSE, trigger |-> 4, zone |-> 4,
         drift |-> 5, reset |-> 3, stop |-> 2, broken |-> 1, target |-> 6]
Put == [side |-> "PUT", long |-> FALSE, trigger |-> 3, zone |-> 3,
        drift |-> 2, reset |-> 4, stop |-> 5, broken |-> 6, target |-> 1]

SmallSetups ==
    {Call, [Put EXCEPT !.long = TRUE],
     [Put EXCEPT !.stop = 0, !.broken = 0, !.target = 0]}

==============================================================================
