--------------------------------- MODULE MCRuns ---------------------------------
(* The instance of Runs.  Quotes and requests are interchangeable; a liveness   *)
(* property rules out TLC's symmetry, so the names are given here in the order   *)
(* of events: r1 begins first and asks for q1.  A webhook changes nothing but the *)
(* record of its own call: r1 has one when it is asynchronous, r2 has none.      *)
EXTENDS Runs, TLC

CONSTANTS q1, r1, r2

InOrder ==
  /\ at'[r2] # "idle" => at'[r1] # "idle"
  /\ asked'[r1] \in {None, q1}
  /\ mode'[r1] # "async" /\ mode'[r2] # "hooked"

SpecInOrder == Init /\ [][Next /\ InOrder]_vars /\ Fairness
================================================================================
