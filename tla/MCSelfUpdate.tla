----------------------------- MODULE MCSelfUpdate -----------------------------
(* Small instances of SelfUpdate: the service and one command line.        *)
EXTENDS SelfUpdate, TLC

CONSTANTS service1, cli1

Processes == {service1, cli1}

===============================================================================
