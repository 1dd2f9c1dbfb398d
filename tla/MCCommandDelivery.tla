--------------------------- MODULE MCCommandDelivery ---------------------------
(* A small instance of CommandDelivery: one command more than the window   *)
(* holds, so that ids are evicted and accepted again.                      *)
EXTENDS CommandDelivery

CONSTANTS c1, c2, c3

ThreeCommands == {c1, c2, c3}

===============================================================================
