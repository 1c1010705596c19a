------------------------------ MODULE MCTimers ------------------------------
(* As in oneShot.cpp: two units set up by every tick; a third is set up by main and by a callback. *)
EXTENDS TimersProps
MCUnits == {matchA, matchB, matchC}
MCOnTick == <<SetUp(matchA, 1), SetUp(matchB, 2), GetTime>>
MCOnMatch == [u \in MCUnits |-> CASE u = matchA -> <<GetTime>> [] u = matchB -> <<SetUp(matchC, 1)>> [] OTHER -> <<>>]
MCMainCalls == {GetTime, SetUp(matchC, 1)}
=============================================================================
