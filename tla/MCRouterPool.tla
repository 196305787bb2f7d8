---------------------------- MODULE MCRouterPool ----------------------------
(* RouterPool for TLC: three requests for the app of one device, and one or *)
(* two stops of its emulator.                                               *)
EXTENDS RouterPool

ThreeRequests == 1 .. 3
OneStop == {1}
TwoStops == 1 .. 2
=============================================================================
