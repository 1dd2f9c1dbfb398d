------------------------------ MODULE SessionKeys ------------------------------
(***************************************************************************)
(* One pull session with both kinds of keys: the agent's own, which the    *)
(* server asks it to rotate, and the server's, which it follows.  A pull   *)
(* response brings both (src/src/agent_run.rs): the key material is        *)
(* applied first, then the rotation is carried out; the check before each  *)
(* pull reloads what changed on disk of either; a session that ends        *)
(* forgets both, and a new one loads them.                                 *)
(***************************************************************************)
EXTENDS CredentialRotation, KeyMaterial

sessionVars == <<vars, keyVars>>

SessionInit == Init /\ KeyInit

SessionStarts == StartSession /\ LoadKeys

CheckFiles == CheckKeyFile /\ ReloadConfig

PullFails == PullWithoutRotation /\ UNCHANGED keyVars

(* The server answers only an agent whose signature it knows.              *)
PullAnswered ==
  /\ Authenticated
  /\ PullWithoutRotation \/ PullAsksRotation
  /\ PullBringsMaterial \/ UNCHANGED keyVars

(* Everything else leaves the server's keys alone, or the agent's.         *)
OwnKeyStep ==
  /\ Rotate \/ WaitForEnrollment \/ EndSession \/ Server
  /\ UNCHANGED keyVars

ServerKeyStep ==
  /\ ServerRotates \/ OfferBringsMaterial
  /\ UNCHANGED vars

SessionNext ==
  \/ SessionStarts \/ CheckFiles \/ PullFails \/ PullAnswered
  \/ OwnKeyStep \/ ServerKeyStep

(* Every variable has its type; a key file that was not written to its end *)
(* is no key, and no key of the server's is previous to none.              *)
SessionTypeOK == TypeOK /\ KeyTypeOK

SessionSpec == SessionInit /\ [][SessionNext]_sessionVars

===============================================================================
