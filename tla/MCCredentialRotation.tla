------------------------- MODULE MCCredentialRotation -------------------------
(* Small instances of CredentialRotation: keys are numbers, so a .cfg with *)
(* MaxKeys is all an instance needs.                                       *)
EXTENDS CredentialRotation

===============================================================================
