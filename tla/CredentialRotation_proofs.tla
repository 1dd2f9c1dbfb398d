---------------------- MODULE CredentialRotation_proofs ----------------------
(***************************************************************************)
(* The safety of CredentialRotation for every number of keys drawn: no     *)
(* crash, disk error, lost reply or late request loses the key the server  *)
(* has for the agent.                                                      *)
(***************************************************************************)
EXTENDS CredentialRotation, TLAPS

(* What each point of rotate_agent_credential knows.                       *)
RotationInv ==
  /\ pc # "down" => keypair # NoKey
  /\ pc = "write" => newKeypair # NoKey /\ nextFile = Torn /\ late = NoKey
  /\ pc = "request" =>
       /\ newKeypair # NoKey /\ nextFile = newKeypair
       /\ keyFile = srvKey /\ keypair = srvKey /\ late = NoKey
  /\ pc \in {"renameKey", "renameNext"} =>
       /\ newKeypair = srvKey /\ nextFile = srvKey /\ late = NoKey
       /\ keypair = srvPrevious /\ keyFile \in {NoKey, srvPrevious}

(* How the files, the session and the server stand to each other: a late   *)
(* request can only be for the key still kept in key.next.                 *)
FilesInv ==
  /\ ServerKeyOnDisk
  /\ late # NoKey => late = nextFile /\ keyFile = srvKey
  /\ keyFile # NoKey => keyFile \in {srvKey, srvPrevious}
  /\ keypair # NoKey /\ keyFile # NoKey => keypair = keyFile
  /\ keypair # NoKey /\ keyFile = NoKey => keypair = srvPrevious
  /\ SwapRecoverable

KeyInv == TypeOK /\ RotationInv /\ FilesInv

(* Before any session the only key is the one of the enrollment.           *)
LEMMA KeyInvInit == Init => KeyInv
  <1> SUFFICES ASSUME Init PROVE KeyInv
    OBVIOUS
  <1>1. 1 \in Key /\ 1 # NoKey
    BY KeyAssumption DEF Key
  <1>2. TypeOK
    BY <1>1 DEF Init, TypeOK, PCs
  <1>3. RotationInv
    BY DEF Init, RotationInv
  <1>4. FilesInv
    BY <1>1 DEF Init, FilesInv, ServerKeyOnDisk, SwapRecoverable
  <1> QED
    BY <1>2, <1>3, <1>4 DEF KeyInv

(* Every step of the agent, the server and the network keeps the types.    *)
LEMMA TypeStep == KeyInv /\ [Next]_vars => TypeOK'
  <1> SUFFICES ASSUME TypeOK, RotationInv, [Next]_vars PROVE TypeOK'
    BY DEF KeyInv
  <1> USE DEF disk, memory, server, To, Return
  <1>1. CASE Session
    BY <1>1 DEF Session, StartSession, WaitForEnrollment, EndSession,
       CheckKeyFile, PullWithoutRotation, PullAsksRotation, TypeOK, PCs, vars
  <1>2. CASE GenerateFails
    BY <1>2 DEF GenerateFails, TypeOK, PCs
  <1>3. CASE CreateNext
    BY <1>3, KeyAssumption DEF CreateNext, TypeOK, PCs, Key
  <1>4. CASE WriteNext
    BY <1>4 DEF WriteNext, TypeOK, PCs
  <1>5. CASE WriteFails
    BY <1>5 DEF WriteFails, TypeOK, PCs
  <1>6. CASE RequestAccepted
    BY <1>6 DEF RequestAccepted, Register, TypeOK, PCs, RotationInv
  <1>7. CASE RequestRejected
    BY <1>7 DEF RequestRejected, TypeOK, PCs
  <1>8. CASE RequestFails
    BY <1>8 DEF RequestFails, Register, TypeOK, PCs, RotationInv
  <1>9. CASE RenameKey
    BY <1>9 DEF RenameKey, TypeOK, PCs
  <1>10. CASE RenameNext
    BY <1>10 DEF RenameNext, TypeOK, PCs, RotationInv
  <1>11. CASE RenameNextFails
    BY <1>11 DEF RenameNextFails, TypeOK, PCs
  <1>12. CASE PreviousExpires
    BY <1>12 DEF PreviousExpires, TypeOK
  <1>13. CASE LateRequest
    BY <1>13 DEF LateRequest, Register, TypeOK
  <1>14. CASE UNCHANGED vars
    BY <1>14 DEF vars, TypeOK
  <1> QED
    BY <1>1, <1>2, <1>3, <1>4, <1>5, <1>6, <1>7, <1>8, <1>9, <1>10, <1>11, <1>12, <1>13, <1>14
       DEF Next, Rotate, Server

(* Every step keeps what the control of rotate_agent_credential knows.     *)
LEMMA RotationStep == KeyInv /\ [Next]_vars => RotationInv'
  <1> SUFFICES ASSUME TypeOK, RotationInv, FilesInv, [Next]_vars PROVE RotationInv'
    BY DEF KeyInv
  <1> USE DEF disk, memory, server, To, Return
  <1>1. CASE StartSession
    BY <1>1 DEF StartSession, RotationInv
  <1>2. CASE WaitForEnrollment
    BY <1>2 DEF WaitForEnrollment, RotationInv, vars
  <1>3. CASE EndSession
    BY <1>3 DEF EndSession, RotationInv
  <1>4. CASE CheckKeyFile
    BY <1>4 DEF CheckKeyFile, RotationInv
  <1>5. CASE PullWithoutRotation
    BY <1>5 DEF PullWithoutRotation, RotationInv
  <1>6. CASE PullAsksRotation
    BY <1>6 DEF PullAsksRotation, RotationInv
  <1>7. CASE GenerateFails
    BY <1>7 DEF GenerateFails, RotationInv
  <1>8. CASE CreateNext
    BY <1>8, KeyAssumption DEF CreateNext, TypeOK, Key, RotationInv, FilesInv
  <1>9. CASE WriteNext
    BY <1>9, KeyAssumption DEF WriteNext, TypeOK, Key, RotationInv, FilesInv,
       ServerKeyOnDisk
  <1>10. CASE WriteFails
    BY <1>10 DEF WriteFails, RotationInv
  <1>11. CASE RequestAccepted
    BY <1>11 DEF RequestAccepted, Register, RotationInv
  <1>12. CASE RequestRejected
    BY <1>12 DEF RequestRejected, RotationInv
  <1>13. CASE RequestFails
    BY <1>13 DEF RequestFails, Register, RotationInv
  <1>14. CASE RenameKey
    BY <1>14 DEF RenameKey, RotationInv
  <1>15. CASE RenameNext
    BY <1>15, KeyAssumption DEF RenameNext, TypeOK, Key, RotationInv
  <1>16. CASE RenameNextFails
    BY <1>16 DEF RenameNextFails, RotationInv
  <1>17. CASE PreviousExpires
    BY <1>17 DEF PreviousExpires, RotationInv
  <1>18. CASE LateRequest
    BY <1>18 DEF LateRequest, Register, RotationInv
  <1>19. CASE UNCHANGED vars
    BY <1>19 DEF vars, RotationInv
  <1> QED
    BY <1>1, <1>2, <1>3, <1>4, <1>5, <1>6, <1>7, <1>8, <1>9, <1>10, <1>11, <1>12,
       <1>13, <1>14, <1>15, <1>16, <1>17, <1>18, <1>19
       DEF Next, Session, Rotate, Server

(* Every step keeps the files, the session and the server in relation.     *)
LEMMA FilesStep == KeyInv /\ [Next]_vars => FilesInv'
  <1> SUFFICES ASSUME TypeOK, RotationInv, FilesInv, [Next]_vars PROVE FilesInv'
    BY DEF KeyInv
  <1> USE DEF disk, memory, server, To, Return
  <1>1. CASE StartSession
    BY <1>1 DEF StartSession, FilesInv, ServerKeyOnDisk, SwapRecoverable
  <1>2. CASE WaitForEnrollment
    BY <1>2 DEF WaitForEnrollment, FilesInv, ServerKeyOnDisk,
       SwapRecoverable, vars
  <1>3. CASE EndSession
    BY <1>3 DEF EndSession, RotationInv, FilesInv, ServerKeyOnDisk,
       SwapRecoverable
  <1>4. CASE CheckKeyFile
    BY <1>4 DEF CheckKeyFile, FilesInv, ServerKeyOnDisk, SwapRecoverable
  <1>5. CASE PullWithoutRotation
    BY <1>5 DEF PullWithoutRotation, FilesInv, ServerKeyOnDisk,
       SwapRecoverable
  <1>6. CASE PullAsksRotation
    BY <1>6 DEF PullAsksRotation, FilesInv, ServerKeyOnDisk, SwapRecoverable
  <1>7. CASE GenerateFails
    BY <1>7 DEF GenerateFails, FilesInv, ServerKeyOnDisk, SwapRecoverable
  <1>8. CASE CreateNext
    BY <1>8, KeyAssumption DEF CreateNext, TypeOK, Key, FilesInv,
       ServerKeyOnDisk, SwapRecoverable
  <1>9. CASE WriteNext
    BY <1>9, KeyAssumption DEF WriteNext, TypeOK, Key, RotationInv, FilesInv,
       ServerKeyOnDisk, SwapRecoverable
  <1>10. CASE WriteFails
    BY <1>10, KeyAssumption DEF WriteFails, TypeOK, Key, RotationInv,
       FilesInv, ServerKeyOnDisk, SwapRecoverable
  <1>11. CASE RequestAccepted
    BY <1>11 DEF RequestAccepted, Register, RotationInv, FilesInv,
       ServerKeyOnDisk, SwapRecoverable
  <1>12. CASE RequestRejected
    BY <1>12 DEF RequestRejected, RotationInv, FilesInv, ServerKeyOnDisk,
       SwapRecoverable
  <1>13. CASE RequestFails
    BY <1>13 DEF RequestFails, Register, RotationInv, FilesInv,
       ServerKeyOnDisk, SwapRecoverable
  <1>14. CASE RenameKey
    BY <1>14 DEF RenameKey, RotationInv, FilesInv, ServerKeyOnDisk,
       SwapRecoverable
  <1>15. CASE RenameNext
    BY <1>15, KeyAssumption DEF RenameNext, TypeOK, Key, RotationInv,
       FilesInv, ServerKeyOnDisk, SwapRecoverable
  <1>16. CASE RenameNextFails
    BY <1>16 DEF RenameNextFails, FilesInv, ServerKeyOnDisk, SwapRecoverable
  <1>17. CASE PreviousExpires
    BY <1>17 DEF PreviousExpires, FilesInv, ServerKeyOnDisk, SwapRecoverable
  <1>18. CASE LateRequest
    BY <1>18 DEF LateRequest, Register, FilesInv, ServerKeyOnDisk,
       SwapRecoverable
  <1>19. CASE UNCHANGED vars
    BY <1>19 DEF vars, FilesInv, ServerKeyOnDisk, SwapRecoverable
  <1> QED
    BY <1>1, <1>2, <1>3, <1>4, <1>5, <1>6, <1>7, <1>8, <1>9, <1>10, <1>11, <1>12,
       <1>13, <1>14, <1>15, <1>16, <1>17, <1>18, <1>19
       DEF Next, Session, Rotate, Server

(* The whole inductive invariant.                                          *)
LEMMA KeyInvariant == Spec => []KeyInv
  <1>1. KeyInv /\ [Next]_vars => KeyInv'
    BY TypeStep, RotationStep, FilesStep DEF KeyInv
  <1> QED
    BY <1>1, KeyInvInit, PTL DEF Spec

(* The three key files, the session and the server hold only keys that     *)
(* were drawn; the key file is never the torn one (signing.rs).            *)
THEOREM TypeCorrect == Spec => []TypeOK
  <1>1. KeyInv => TypeOK
    BY DEF KeyInv
  <1> QED
    BY <1>1, KeyInvariant, PTL

(* No crash, disk error, lost reply or late request of any rotation takes  *)
(* the server's key away from the host (rotate_agent_credential).          *)
THEOREM ServerKeyCorrect == Spec => []ServerKeyOnDisk
  <1>1. KeyInv => ServerKeyOnDisk
    BY DEF KeyInv, FilesInv
  <1> QED
    BY <1>1, KeyInvariant, PTL

(* However many rotations are tried, the session's key is the server's     *)
(* current or previous one (rotate_agent_credential, reload_keypair).      *)
THEOREM OneBehindCorrect == Spec => []AtMostOneBehind
  <1>1. KeyInv => AtMostOneBehind
    BY DEF KeyInv, FilesInv, AtMostOneBehind
  <1> QED
    BY <1>1, KeyInvariant, PTL

(* A swap cut short leaves both keys beside the missing key file           *)
(* (rotate_agent_credential, the two renames).                             *)
THEOREM SwapCorrect == Spec => []SwapRecoverable
  <1>1. KeyInv => SwapRecoverable
    BY DEF KeyInv, FilesInv
  <1> QED
    BY <1>1, KeyInvariant, PTL

(* The key file is swapped only to the key the server has registered       *)
(* (rotate_agent_credential).                                              *)
THEOREM KeyFileCorrect == Spec => KeyFileFollowsServer
  <1>1. KeyInv /\ [Next]_vars => [keyFile' \in {NoKey, srvKey}]_keyFile
    <2> SUFFICES ASSUME KeyInv, [Next]_vars, keyFile' # keyFile
                 PROVE  keyFile' \in {NoKey, srvKey}
      OBVIOUS
    <2>1. \/ RenameKey
          \/ RenameNext
      BY DEF Next, Session, Rotate, Server, vars, disk, StartSession, WaitForEnrollment,
             EndSession, CheckKeyFile, PullWithoutRotation, PullAsksRotation,
             GenerateFails, CreateNext, WriteNext, WriteFails, RequestAccepted,
             RequestRejected, RequestFails, RenameNextFails, PreviousExpires, LateRequest
    <2> QED
      BY <2>1 DEF RenameKey, RenameNext, Return, To, KeyInv, RotationInv
  <1> QED
    BY <1>1, KeyInvariant, PTL DEF Spec, KeyFileFollowsServer

===============================================================================
