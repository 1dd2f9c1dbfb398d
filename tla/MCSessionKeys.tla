----------------------------- MODULE MCSessionKeys -----------------------------
(* Small instances of SessionKeys: keys are numbers, so a .cfg with their  *)
(* bounds is all an instance needs.                                        *)
EXTENDS SessionKeys

===============================================================================
