-------------------------- MODULE MCHeartbeatSession --------------------------
(* Small instances of HeartbeatSession. *)
EXTENDS HeartbeatSession

CONSTANT c1

OneCommand == {c1}

===============================================================================
