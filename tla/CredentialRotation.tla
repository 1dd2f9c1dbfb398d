-------------------------- MODULE CredentialRotation --------------------------
(***************************************************************************)
(* Rotation of the agent's identity key: rotate_agent_credential           *)
(* (src/src/key_material.rs) called from the pull loop, generate_at        *)
(* (src/src/signing.rs), the reload of a changed key file (CredentialWatch,*)
(* src/src/session_repair.rs) and the load of the key when a session       *)
(* starts (assess_readiness, src/src/agent_run.rs).                        *)
(*                                                                         *)
(* The key lives in three files beside each other, in the session's        *)
(* memory and on the server; every file operation is a step of its own, so *)
(* the process can die between any two.  Keys are numbered in the order    *)
(* they are drawn; 1 is the key of the enrollment.  Re-enrollment by the   *)
(* command line is left to another module.                                 *)
(***************************************************************************)
EXTENDS Integers

CONSTANTS
  NoKey,     \* no file, or nothing in memory
  Torn,      \* the content of a key file that was created but not written
  MaxKeys    \* bound: keys drawn

ASSUME KeyAssumption ==
  MaxKeys \in Nat \ {0} /\ NoKey \notin Nat /\ Torn \notin Nat /\ NoKey # Torn

VARIABLES
  keyFile, nextFile, previousFile,  \* key, key.next and key.previous
  drawn,       \* keys drawn so far
  pc,          \* where the pull loop is, "down" between sessions
  keypair,     \* the key the session signs with
  newKeypair,  \* local to rotate_agent_credential
  watched,     \* key_gen of CredentialWatch: the key file it last saw
  srvKey,      \* server: the key it has for the agent
  srvPrevious, \* server: the key before that one
  overlap,     \* server: the previous key is still accepted
  late         \* network: a rotation request the agent gave up on

disk   == <<keyFile, nextFile, previousFile, drawn>>
memory == <<keypair, newKeypair, watched>>
server == <<srvKey, srvPrevious, overlap, late>>
vars   == <<disk, pc, memory, server>>

Key == 1..MaxKeys

PCs == {"down", "top", "pull", "generate", "write", "request", "renameKey", "renameNext"}

(* Types; a torn key is only ever in key.next, never in the key file the   *)
(* agent loads (generate_at, rotate_agent_credential).                     *)
TypeOK ==
  /\ keyFile \in Key \cup {NoKey}
  /\ nextFile \in Key \cup {NoKey, Torn}
  /\ previousFile \in Key \cup {NoKey}
  /\ drawn \in Key
  /\ pc \in PCs
  /\ {keypair, newKeypair, watched} \subseteq Key \cup {NoKey}
  /\ srvKey \in Key
  /\ srvPrevious \in Key \cup {NoKey}
  /\ overlap \in BOOLEAN
  /\ late \in Key \cup {NoKey}

Init ==
  /\ keyFile = 1 /\ nextFile = NoKey /\ previousFile = NoKey /\ drawn = 1
  /\ pc = "down"
  /\ keypair = NoKey /\ newKeypair = NoKey /\ watched = NoKey
  /\ srvKey = 1 /\ srvPrevious = NoKey /\ overlap = FALSE /\ late = NoKey

To(from, to) == pc = from /\ pc' = to

(* The server knows the signature of a request.                            *)
Authenticated == keypair = srvKey \/ (overlap /\ keypair = srvPrevious)

-------------------------------------------------------------------------------
(* Sessions.                                                               *)

(* assess_readiness: without a readable key file the service waits.        *)
StartSession ==
  /\ To("down", "top")
  /\ keyFile # NoKey
  /\ keypair' = keyFile
  /\ watched' = keyFile
  /\ UNCHANGED <<disk, newKeypair, server>>

WaitForEnrollment ==
  /\ pc = "down" /\ keyFile = NoKey
  /\ UNCHANGED vars

(* The session returns, or the process dies.  A request on its way then    *)
(* may still reach the server.                                             *)
EndSession ==
  /\ pc # "down" /\ pc' = "down"
  /\ keypair' = NoKey /\ newKeypair' = NoKey /\ watched' = NoKey
  /\ \/ UNCHANGED late
     \/ pc = "request" /\ late' = newKeypair
  /\ UNCHANGED <<disk, srvKey, srvPrevious, overlap>>

(* credential_watch.check and reload_keypair: a key file that is gone is   *)
(* noted and the key in memory kept.                                       *)
CheckKeyFile ==
  /\ To("top", "pull")
  /\ watched' = keyFile
  /\ keypair' = IF keyFile \notin {watched, NoKey} THEN keyFile ELSE keypair
  /\ UNCHANGED <<disk, newKeypair, server>>

(* The pull fails, or its response asks for no rotation.                   *)
PullWithoutRotation ==
  /\ To("pull", "top")
  /\ UNCHANGED <<disk, memory, server>>

PullAsksRotation ==
  /\ To("pull", "generate")
  /\ Authenticated
  /\ UNCHANGED <<disk, memory, server>>

-------------------------------------------------------------------------------
(* rotate_agent_credential                                                 *)

(* Every early return of rotate_agent_credential.                          *)
Return(from) == To(from, "top") /\ newKeypair' = NoKey

(* generate_at refuses to overwrite; creating the file may also fail.      *)
GenerateFails ==
  /\ Return("generate")
  /\ UNCHANGED <<disk, keypair, watched, server>>

(* Mutant: key.next is created over whatever is there.                     *)
TruncateNext ==
  /\ To("generate", "write")
  /\ drawn < MaxKeys
  /\ drawn' = drawn + 1
  /\ newKeypair' = drawn'
  /\ nextFile' = Torn
  /\ UNCHANGED <<keyFile, previousFile, keypair, watched, server>>

CreateNext ==
  /\ To("generate", "write")
  /\ nextFile = NoKey
  /\ drawn < MaxKeys
  /\ drawn' = drawn + 1
  /\ newKeypair' = drawn'
  /\ nextFile' = Torn
  /\ UNCHANGED <<keyFile, previousFile, keypair, watched, server>>

WriteNext ==
  /\ To("write", "request")
  /\ nextFile' = newKeypair
  /\ UNCHANGED <<keyFile, previousFile, drawn, memory, server>>

(* Mutant: a failed write of key.next is not noticed.                      *)
WriteFailsUnnoticed ==
  /\ To("write", "request")
  /\ UNCHANGED <<disk, memory, server>>

(* write_all or sync_all fails: the file stays, whole or not.              *)
WriteFails ==
  /\ Return("write")
  /\ nextFile' \in {Torn, newKeypair}
  /\ UNCHANGED <<keyFile, previousFile, drawn, keypair, watched, server>>

(* What the server does with a rotation request it accepts.                *)
Register(k) ==
  /\ srvPrevious' = srvKey
  /\ srvKey' = k
  /\ overlap' = TRUE

RequestAccepted ==
  /\ To("request", "renameKey")
  /\ Authenticated
  /\ Register(newKeypair)
  /\ UNCHANGED <<disk, memory, late>>

(* ok = false: the new key is removed, an error of remove_file ignored.    *)
RequestRejected ==
  /\ Return("request")
  /\ nextFile' \in {NoKey, nextFile}
  /\ UNCHANGED <<keyFile, previousFile, drawn, keypair, watched, server>>

(* Mutant: a failed request is cleaned up after like a rejected one.       *)
RequestFailsRemovesNext ==
  /\ Return("request")
  /\ nextFile' = NoKey
  /\ \/ UNCHANGED server
     \/ Authenticated /\ Register(newKeypair) /\ UNCHANGED late
  /\ UNCHANGED <<keyFile, previousFile, drawn, keypair, watched>>

(* Mutant: the files are swapped although the request failed.              *)
RequestFailsSwapsAnyway ==
  /\ To("request", "renameKey")
  /\ UNCHANGED <<disk, memory, server>>

(* The request fails on the agent's side: the server never sees it, has    *)
(* registered the key, or will see the request later.                      *)
RequestFails ==
  /\ Return("request")
  /\ \/ UNCHANGED server
     \/ Authenticated /\ Register(newKeypair) /\ UNCHANGED late
     \/ late' = newKeypair /\ UNCHANGED <<srvKey, srvPrevious, overlap>>
  /\ UNCHANGED <<disk, keypair, watched>>

(* Mutant: the old key file is removed instead of kept.                    *)
RemoveKey ==
  /\ To("renameKey", "renameNext")
  /\ keyFile' = NoKey
  /\ UNCHANGED <<previousFile, nextFile, drawn, memory, server>>

(* key becomes key.previous; an error of this rename is ignored.           *)
RenameKey ==
  /\ To("renameKey", "renameNext")
  /\ \/ /\ keyFile # NoKey
        /\ previousFile' = keyFile
        /\ keyFile' = NoKey
     \/ UNCHANGED <<keyFile, previousFile>>
  /\ UNCHANGED <<nextFile, drawn, memory, server>>

(* key.next becomes key, and the session switches to it.                   *)
RenameNext ==
  /\ Return("renameNext")
  /\ keyFile' = nextFile
  /\ nextFile' = NoKey
  /\ keypair' = newKeypair
  /\ UNCHANGED <<previousFile, drawn, watched, server>>

RenameNextFails ==
  /\ Return("renameNext")
  /\ UNCHANGED <<disk, keypair, watched, server>>

-------------------------------------------------------------------------------
(* The server and the network.                                             *)

PreviousExpires ==
  /\ overlap /\ overlap' = FALSE
  /\ UNCHANGED <<disk, pc, memory, srvKey, srvPrevious, late>>

LateRequest ==
  /\ late # NoKey /\ late' = NoKey
  /\ Register(late) \/ UNCHANGED <<srvKey, srvPrevious, overlap>>
  /\ UNCHANGED <<disk, pc, memory>>

-------------------------------------------------------------------------------

Rotate ==
  \/ GenerateFails \/ CreateNext \/ WriteNext \/ WriteFails
  \/ RequestAccepted \/ RequestRejected \/ RequestFails
  \/ RenameKey \/ RenameNext \/ RenameNextFails

Session ==
  \/ StartSession \/ WaitForEnrollment \/ EndSession
  \/ CheckKeyFile \/ PullWithoutRotation \/ PullAsksRotation

Server == PreviousExpires \/ LateRequest

Next == Rotate \/ Session \/ Server

Spec == Init /\ [][Next]_vars

(* A good day: the session stays up, the disk works, the previous key does *)
(* not expire, the server agrees, keeps asking, and the network lets a     *)
(* request through now and then.                                           *)
GoodDay ==
  \/ StartSession \/ CheckKeyFile \/ PullWithoutRotation \/ PullAsksRotation
  \/ nextFile # NoKey /\ GenerateFails
  \/ CreateNext \/ WriteNext \/ RequestAccepted \/ RequestFails
  \/ RenameKey /\ keyFile' = NoKey
  \/ RenameNext \/ LateRequest

GoodDaySpec ==
  /\ Init /\ [][GoodDay]_vars
  /\ WF_vars(GoodDay)
  /\ SF_vars(PullAsksRotation) /\ SF_vars(RequestAccepted)

-------------------------------------------------------------------------------

(* The key the server has for the agent is always in a file of the host,   *)
(* in key or key.next, whatever died or got lost in between: generate_at   *)
(* never overwrites a key.next whose request has an unknown fate.          *)
ServerKeyOnDisk == srvKey \in {keyFile, nextFile}

(* The session's key is never more than one rotation behind the server's,  *)
(* so while the previous key is accepted the agent can talk to the server. *)
AtMostOneBehind == keypair # NoKey => keypair \in {srvKey, srvPrevious}

(* If a crash or a failed rename leaves no key file, both keys are beside  *)
(* it: the old one in key.previous and the registered one in key.next.     *)
SwapRecoverable ==
  keyFile = NoKey => previousFile = srvPrevious /\ nextFile = srvKey

(* The key file only ever changes to the key the server has by then: it is *)
(* swapped after the server has agreed, never before.                      *)
KeyFileFollowsServer == [][keyFile' \in {NoKey, srvKey}]_keyFile

(* key_material.rs: "Generate a new identity key, register it with the     *)
(* server, and hot-swap local key files."  On a good day a rotation the    *)
(* server keeps asking for takes place.                                    *)
RotationCompletes == <>(keypair # 1 /\ keypair = srvKey)

===============================================================================
