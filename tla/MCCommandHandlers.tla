--------------------------- MODULE MCCommandHandlers ---------------------------
(* Small instances of CommandHandlers: all constants are numbers.          *)
EXTENDS CommandHandlers

===============================================================================
