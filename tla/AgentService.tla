----------------------------- MODULE AgentService -----------------------------
(***************************************************************************)
(* The agent service between and inside its sessions (run_agent_service,   *)
(* assess_readiness, run_pull_session in src/src/agent_run.rs), beside the *)
(* command line (enroll.rs, forget.rs, status.rs) that changes the same    *)
(* two files from another process: config.toml, which every writer loads,  *)
(* changes in memory and saves whole, and the identity key.                *)
(*                                                                         *)
(* No lock guards the files, so each load, save and removal is a step of   *)
(* its own.  A save is atomic: config.rs writes a file beside and renames. *)
(* Only one command is run at a time.                                      *)
(* Of the configuration the model keeps the agent id, the cached agent     *)
(* state and the server's key material, as versions: the key tasks are     *)
(* verified against, and the version whose key is taken for the previous.  *)
(* Left to other modules: the threads of a session, its tasks, key         *)
(* rotation asked for by the server, and how far attestations reach.       *)
(***************************************************************************)
EXTENDS Integers

CONSTANTS
  NoFile,       \* no such file, or nothing in memory
  Torn,         \* the content of a key file that was truncated
  NoId,         \* no agent id
  MaxIds,       \* bound: agents the server creates for this host
  MaxKeys,      \* bound: identity keys drawn
  MaxMaterial,  \* bound: versions of the server's key material
  MaxResets     \* bound: restarts, and sessions that end for no lasting cause

ASSUME BoundAssumption ==
  {MaxIds, MaxKeys, MaxMaterial} \subseteq Nat \ {0} /\ MaxResets \in Nat

ASSUME NoneAssumption ==
  /\ NoFile \notin Nat /\ Torn \notin Nat /\ NoId \notin Nat
  /\ NoFile # Torn

Id       == 1..MaxIds
Key      == 1..MaxKeys
Material == 1..MaxMaterial

AgentStates == {"pending", "active", "revoked"}
Modes == {"waiting", "pending", "pulling"}

Configs == [id : Id, state : AgentStates, material : Material, previous : 0..MaxMaterial]

ASSUME NoConfigAssumption == NoFile \notin Configs

VARIABLES
  (* the files *)
  config, keyFile,
  (* the service *)
  pc, mem,      \* mem: the configuration in memory
  agentId,      \* the id the session was started for
  keypair,      \* the key the session signs with
  mode,         \* the runtime mode of the session, "waiting" outside
  dirty,        \* files changed since CredentialWatch looked at them
  changed,      \* files it found changed, until that is acted on
  fetched,      \* the agent state the server answered, while in hand
  offered,      \* the key material the server answered, while in hand
  (* the command line *)
  cliPc,
  cliId,        \* the agent id it found in the config, NoId without one
  cliState,     \* status: the cached state, then the server's
  cliConfig,    \* a configuration about to be saved
  backup,       \* enroll: the key file before it was overwritten
  (* the server *)
  ids, srvKey, srvState, srvMaterial,
  unvouched,    \* versions of the material that the one before did not attest
  drawn,        \* identity keys drawn so far
  resets,       \* of MaxResets, so far
  (* history *)
  enrolled,     \* the id of the last enrollment saved, NoId once forgotten
  cutShort,     \* an enrollment was killed, or its answer lost
  foreign       \* the agent of an answer that was given up on, NoId if none

files   == <<config, keyFile>>
local   == <<mem, agentId, keypair, mode, changed, fetched, offered>>
service == <<local, dirty>>
cli     == <<cliPc, cliId, cliState, cliConfig, backup>>
server  == <<ids, srvKey, srvState, srvMaterial, unvouched>>
history == <<enrolled, cutShort, foreign>>
bounds  == <<drawn, resets>>
vars    == <<files, pc, service, cli, server, bounds, history>>

PCs == {"assess", "loadKey", "watch", "fetchFirst", "persistFirst", "top",
        "reload", "fetch", "persist", "pull", "apply"}
CliPCs == {"idle", "statusFetch", "statusLoad", "statusSave", "forgetKey",
           "truncate", "write", "request", "restore", "save"}

InSession == pc \notin {"assess", "loadKey", "watch"}

TypeOK ==
  /\ config \in Configs \cup {NoFile}
  /\ keyFile \in Key \cup {NoFile, Torn}
  /\ pc \in PCs
  /\ mem \in Configs \cup {NoFile}
  /\ agentId \in Id \cup {NoId}
  /\ keypair \in Key \cup {NoFile}
  /\ mode \in Modes
  /\ dirty \subseteq {"key", "config"}
  /\ changed \subseteq {"key", "config"}
  /\ fetched \in AgentStates \cup {NoFile} /\ offered \in Material \cup {NoFile}
  /\ cliPc \in CliPCs
  /\ cliId \in Id \cup {NoId}
  /\ cliConfig \in Configs \cup {NoFile}
  /\ backup \in Key \cup {NoFile, Torn}
  /\ cliState \in AgentStates \cup {NoFile}
  /\ ids \in Id
  /\ srvKey \in [Id -> Key]
  /\ srvState \in [Id -> AgentStates]
  /\ srvMaterial \in Material /\ unvouched \subseteq Material
  /\ drawn \in Key /\ resets \in 0..MaxResets
  /\ enrolled \in Id \cup {NoId}
  /\ cutShort \in BOOLEAN /\ foreign \in Id \cup {NoId}

-------------------------------------------------------------------------------

(* The host was enrolled once, as agent 1 with key 1, and the service is   *)
(* (re)started.                                                            *)
Init ==
  /\ \E s \in {"pending", "active"} :
       /\ config = [id |-> 1, state |-> s, material |-> 1, previous |-> 0]
       /\ srvState = [i \in Id |-> s]
  /\ keyFile = 1 /\ drawn = 1 /\ resets = 0
  /\ ids = 1 /\ srvKey = [i \in Id |-> 1] /\ srvMaterial = 1 /\ unvouched = {}
  /\ pc = "assess" /\ mem = NoFile /\ agentId = NoId /\ keypair = NoFile
  /\ mode = "waiting" /\ dirty = {}
  /\ changed = {} /\ fetched = NoFile /\ offered = NoFile
  /\ cliPc = "idle" /\ cliId = NoId /\ cliState = NoFile
  /\ cliConfig = NoFile /\ backup = NoFile
  /\ enrolled = 1 /\ cutShort = FALSE /\ foreign = NoId

To(from, to) == pc = from /\ pc' = to
CliTo(from, to) == cliPc = from /\ cliPc' = to

(* The server knows this key for this agent id.                            *)
Known(i, k) == i \in 1..ids /\ srvKey[i] = k

(* runtime_mode_for_agent_state and apply_synced_agent_state               *)
ModeOf(state) == IF state = "pending" THEN "pending" ELSE "pulling"

(* A write or removal is news to the CredentialWatch of a session: the     *)
(* generation it compares is made of time, length and content.             *)
Touch(f) == dirty' = IF InSession THEN dirty \cup {f} ELSE dirty

-------------------------------------------------------------------------------
(* The service: readiness.                                                 *)

(* What the session kept is gone.                                          *)
Forgets ==
  /\ mode' = "waiting" /\ mem' = NoFile /\ agentId' = NoId /\ keypair' = NoFile
  /\ dirty' = {} /\ changed' = {} /\ fetched' = NoFile /\ offered' = NoFile

LoadConfig ==
  /\ To("assess", "loadKey")
  /\ config # NoFile
  /\ mem' = config
  /\ UNCHANGED <<files, agentId, keypair, mode, dirty, changed, fetched, offered,
                 cli, server, bounds, history>>

(* No config or no readable key: report it, sleep, and assess again.       *)
Wait ==
  /\ \/ pc = "assess" /\ config = NoFile
     \/ pc = "loadKey" /\ keyFile \notin Key
  /\ pc' = "assess"
  /\ Forgets
  /\ UNCHANGED <<files, cli, server, bounds, history>>

(* Mutant: what the key file holds is not checked.                         *)
LoadAnyKey ==
  /\ To("loadKey", "watch")
  /\ keyFile # NoFile
  /\ keypair' = keyFile
  /\ agentId' = mem.id
  /\ mode' = ModeOf(mem.state)
  /\ UNCHANGED <<files, mem, dirty, changed, fetched, offered, cli, server, bounds, history>>

LoadKey ==
  /\ To("loadKey", "watch")
  /\ keyFile \in Key
  /\ keypair' = keyFile
  /\ agentId' = mem.id
  /\ mode' = ModeOf(mem.state)
  /\ UNCHANGED <<files, mem, dirty, changed, fetched, offered, cli, server, bounds, history>>

(* CredentialWatch::new looks at the files after they have been loaded, and*)
(* has no way to know what changed in between.                             *)
StartWatch ==
  /\ To("watch", "fetchFirst")
  /\ UNCHANGED <<files, service, cli, server, bounds, history>>

(* The process is restarted, or a session fails for a while: the client    *)
(* cannot be made, heartbeats or pulls fail too often.                     *)
Reset ==
  /\ pc # "assess" /\ pc' = "assess"
  /\ resets < MaxResets /\ resets' = resets + 1
  /\ Forgets
  /\ UNCHANGED <<files, cli, server, drawn, history>>

-------------------------------------------------------------------------------
(* The service: agent state (refresh_local_agent_state).                   *)

FetchOk(from, to) ==
  /\ To(from, to)
  /\ Known(agentId, keypair)
  /\ fetched' = srvState[agentId]
  /\ UNCHANGED <<files, mem, agentId, keypair, mode, dirty, changed, offered,
                 cli, server, bounds, history>>

FetchFails(from, to) ==
  /\ To(from, to)
  /\ UNCHANGED <<files, service, cli, server, bounds, history>>

(* persist_agent_state does nothing if the state is known ...              *)
StateKnown(from, next) ==
  /\ To(from, next)
  /\ mem.state = fetched
  /\ fetched' = NoFile
  /\ UNCHANGED <<files, mem, agentId, keypair, mode, dirty, changed, offered,
                 cli, server, bounds, history>>

(* Mutant: a session that learns that it is revoked ends before the save.  *)
EndBeforeSaving(from, next) ==
  /\ pc = from
  /\ mem.state # fetched
  /\ IF fetched = "revoked"
     THEN pc' = "assess" /\ Forgets /\ UNCHANGED config
     ELSE /\ pc' = next /\ config' = [mem EXCEPT !.state = fetched] /\ mem' = config'
          /\ mode' = ModeOf(fetched) /\ fetched' = NoFile
          /\ Touch("config")
          /\ UNCHANGED <<agentId, keypair, changed, offered>>
  /\ UNCHANGED <<keyFile, cli, server, bounds, history>>

(* ... and else changes it and saves.  A session that learns that it is    *)
(* revoked ends, but only if that was news.                                *)
PersistState(from, next) ==
  /\ pc = from
  /\ mem.state # fetched
  /\ config' = [mem EXCEPT !.state = fetched]
  /\ IF fetched = "revoked"
     THEN pc' = "assess" /\ Forgets
     ELSE /\ pc' = next /\ mem' = config' /\ mode' = ModeOf(fetched) /\ fetched' = NoFile
          /\ Touch("config")
          /\ UNCHANGED <<agentId, keypair, changed, offered>>
  /\ UNCHANGED <<keyFile, cli, server, bounds, history>>

(* A save that fails puts the old state back.                              *)
PersistFails(from, next) ==
  /\ To(from, next)
  /\ mem.state # fetched
  /\ fetched' = NoFile
  /\ UNCHANGED <<files, mem, agentId, keypair, mode, dirty, changed, offered,
                 cli, server, bounds, history>>

-------------------------------------------------------------------------------
(* The service: the loop of a session.                                     *)

(* credential_watch.check: first the two generations ...                   *)
CheckFiles ==
  /\ To("top", "reload")
  /\ changed' = dirty /\ dirty' = {}
  /\ UNCHANGED <<files, mem, agentId, keypair, mode, fetched, offered, cli, server, bounds, history>>

Reloaded == IF "config" \in changed /\ config # NoFile THEN config ELSE mem

(* ... then the content; another server identity ends the session.         *)
ReloadOther ==
  /\ To("reload", "assess")
  /\ Reloaded.id # agentId
  /\ Forgets
  /\ UNCHANGED <<files, cli, server, bounds, history>>

NextPhase(m) == IF m = "pending" THEN "fetch" ELSE "pull"

(* Mutant: the identity is not compared.                                   *)
ReloadAny ==
  /\ pc = "reload"
  /\ mem' = Reloaded
  /\ keypair' = IF "key" \in changed /\ keyFile \in Key THEN keyFile ELSE keypair
  /\ mode' = IF changed = {"config"} THEN ModeOf(Reloaded.state) ELSE mode
  /\ pc' = NextPhase(mode')
  /\ changed' = {}
  /\ UNCHANGED <<files, agentId, dirty, fetched, offered, cli, server, bounds, history>>

(* Mutant: the watch takes note of the files after it has read them.       *)
LookAfterReading ==
  /\ pc = "reload"
  /\ Reloaded.id = agentId
  /\ mem' = Reloaded
  /\ keypair' = IF "key" \in changed /\ keyFile \in Key THEN keyFile ELSE keypair
  /\ mode' = IF changed = {"config"} THEN ModeOf(Reloaded.state) ELSE mode
  /\ pc' = NextPhase(mode')
  /\ changed' = {} /\ dirty' = {}
  /\ UNCHANGED <<files, agentId, fetched, offered, cli, server, bounds, history>>

(* A new key hides a new configuration from the runtime mode.              *)
ReloadSame ==
  /\ pc = "reload"
  /\ Reloaded.id = agentId
  /\ mem' = Reloaded
  /\ keypair' = IF "key" \in changed /\ keyFile \in Key THEN keyFile ELSE keypair
  /\ mode' = IF changed = {"config"} THEN ModeOf(Reloaded.state) ELSE mode
  /\ pc' = NextPhase(mode')
  /\ changed' = {}
  /\ UNCHANGED <<files, agentId, dirty, fetched, offered, cli, server, bounds, history>>

PullFails ==
  /\ To("pull", "top")
  /\ UNCHANGED <<files, service, cli, server, bounds, history>>

(* Mutant: a refused session goes on.                                      *)
RefusedGoesOn ==
  /\ To("pull", "top")
  /\ ~Known(agentId, keypair)
  /\ UNCHANGED <<files, service, cli, server, bounds, history>>

(* should_reset_pull_session: pulls the server keeps refusing end it.      *)
PullRefused ==
  /\ To("pull", "assess")
  /\ ~Known(agentId, keypair)
  /\ Forgets
  /\ UNCHANGED <<files, cli, server, bounds, history>>

PullRevoked ==
  /\ To("pull", "assess")
  /\ Known(agentId, keypair) /\ srvState[agentId] = "revoked"
  /\ Forgets
  /\ UNCHANGED <<files, cli, server, bounds, history>>

PullOk ==
  /\ To("pull", "apply")
  /\ Known(agentId, keypair) /\ srvState[agentId] # "revoked"
  /\ offered' = srvMaterial
  /\ UNCHANGED <<files, mem, agentId, keypair, mode, dirty, changed, fetched,
                 cli, server, bounds, history>>

(* accept_successor_key: attestations lead from one version to a later one,*)
(* unless one of those between was not attested.                           *)
Accepts(current, material) == unvouched \cap (current + 1)..material = {}

(* A version that is not accepted is still taken for what it says of the   *)
(* key before it.                                                          *)
Take(material) ==
  /\ To("apply", "top")
  /\ mem' = [mem EXCEPT !.material = IF Accepts(@, material) THEN material ELSE @,
                        !.previous = material - 1]
  /\ offered' = NoFile
  /\ UNCHANGED <<keyFile, agentId, keypair, mode, changed, fetched, cli, server, bounds,
                 history>>

(* apply_key_material: memory first, then the file if something changed.   *)
ApplyMaterial ==
  /\ Take(offered)
  /\ \/ mem' = mem /\ UNCHANGED <<config, dirty>>
     \/ mem' # mem /\ config' = mem' /\ Touch("config")

(* A save that fails leaves what is new in memory only, and the next pull  *)
(* finds nothing to change.                                                *)
ApplyFails ==
  /\ Take(offered)
  /\ mem' # mem
  /\ UNCHANGED <<config, dirty>>

-------------------------------------------------------------------------------
(* The command line; each command may also be interrupted (CliStops).      *)

CliDone ==
  /\ cliPc' = "idle"
  /\ cliId' = NoId /\ cliState' = NoFile /\ cliConfig' = NoFile /\ backup' = NoFile

Enrolling == cliPc \in {"truncate", "write", "request", "restore"}

CliStops ==
  /\ cliPc # "idle" /\ CliDone
  /\ \/ UNCHANGED <<keyFile, dirty>>
     \/ cliPc = "restore" /\ backup # NoFile /\ keyFile' = Torn /\ Touch("key")
  /\ cutShort' = (cutShort \/ Enrolling)
  /\ UNCHANGED <<config, pc, local, server, bounds, enrolled, foreign>>

(* collect_status: look at the config, ask the server, and if the cached   *)
(* state differs load the config again, change it and save it.             *)
StatusInspect ==
  /\ CliTo("idle", "statusFetch")
  /\ config # NoFile
  /\ cliId' = config.id /\ cliState' = config.state
  /\ UNCHANGED <<files, pc, service, cliConfig, backup, server, bounds, history>>

StatusFetch ==
  /\ CliTo("statusFetch", "statusLoad")
  /\ Known(cliId, keyFile)
  /\ cliState # srvState[cliId]
  /\ cliState' = srvState[cliId]
  /\ UNCHANGED <<files, pc, service, cliId, cliConfig, backup, server, bounds, history>>

StatusLoad ==
  /\ CliTo("statusLoad", "statusSave")
  /\ config # NoFile /\ config.state # cliState
  /\ cliConfig' = config
  /\ UNCHANGED <<files, pc, service, cliId, cliState, backup, server, bounds, history>>

StatusSave ==
  /\ cliPc = "statusSave" /\ CliDone
  /\ config' = [cliConfig EXCEPT !.state = cliState]
  /\ Touch("config")
  /\ UNCHANGED <<keyFile, pc, local, server, bounds, history>>

(* forget_agent_enrollment                                                 *)
ForgetConfig ==
  /\ CliTo("idle", "forgetKey")
  /\ config' = NoFile
  /\ Touch("config")
  /\ enrolled' = NoId
  /\ UNCHANGED <<keyFile, pc, local, cliId, cliState, cliConfig, backup, server, bounds, cutShort,
                 foreign>>

ForgetKey ==
  /\ cliPc = "forgetKey" /\ CliDone
  /\ keyFile' = NoFile
  /\ Touch("key")
  /\ cutShort' = FALSE /\ foreign' = NoId
  /\ UNCHANGED <<config, pc, local, server, bounds, enrolled>>

(* prepare_agent_enrollment of a host with an agent id: keep the old key   *)
(* in memory and overwrite the file.                                       *)
PrepareAgain ==
  /\ CliTo("idle", "truncate")
  /\ config # NoFile
  /\ cliId' = config.id
  /\ backup' = keyFile
  /\ UNCHANGED <<files, pc, service, cliState, cliConfig, server, bounds, history>>

TruncateKey ==
  /\ CliTo("truncate", "write")
  /\ drawn < MaxKeys
  /\ keyFile' = Torn
  /\ Touch("key")
  /\ UNCHANGED <<config, pc, local, cliId, cliState, cliConfig, backup, server, bounds, history>>

DrawKey ==
  /\ drawn' = drawn + 1
  /\ keyFile' = drawn'
  /\ Touch("key")
  /\ UNCHANGED resets

WriteKey ==
  /\ CliTo("write", "request")
  /\ DrawKey
  /\ UNCHANGED <<config, pc, local, cliId, cliState, cliConfig, backup, server, history>>

(* The same without one: use the key that is there, or create it.          *)
PrepareFirst ==
  /\ CliTo("idle", "request")
  /\ config = NoFile
  /\ \/ keyFile \in Key /\ UNCHANGED <<keyFile, bounds, dirty>>
     \/ keyFile = NoFile /\ drawn < MaxKeys /\ DrawKey
  /\ UNCHANGED <<config, pc, local, cliId, cliState, cliConfig, backup, server, history>>

(* The server enrolls the key in the request, which is the one in the file,*)
(* as agent i: the one it is asked for, or one of its own choice.          *)
Enroll(i, s) ==
  /\ i = cliId \/ (i = ids + 1 /\ i \in Id)
  /\ ids' = IF i > ids THEN i ELSE ids
  /\ srvKey' = [srvKey EXCEPT ![i] = keyFile]
  /\ srvState' = [srvState EXCEPT ![i] = s]
  /\ UNCHANGED <<srvMaterial, unvouched>>

RequestOk(i, s) ==
  /\ CliTo("request", "save")
  /\ Enroll(i, s)
  /\ cliId \in {NoId, i}
  /\ cliConfig' = [id |-> i, state |-> s, material |-> srvMaterial, previous |-> 0]
  /\ foreign' = NoId
  /\ UNCHANGED <<files, pc, service, cliId, cliState, backup, bounds, enrolled, cutShort>>

(* An answer for another agent id: give up, and leave the new key.         *)
RequestForeign(i, s) ==
  /\ cliPc = "request" /\ CliDone
  /\ Enroll(i, s)
  /\ cliId \notin {NoId, i}
  /\ foreign' = i
  /\ UNCHANGED <<files, pc, service, bounds, enrolled, cutShort>>

RequestRejected ==
  /\ CliTo("request", "restore")
  /\ UNCHANGED <<files, pc, service, cliId, cliState, cliConfig, backup, server, bounds, history>>

(* The server enrolls the key and the reply is lost.                       *)
ReplyLost(i, s) ==
  /\ CliTo("request", "restore")
  /\ Enroll(i, s)
  /\ cutShort' = TRUE
  /\ UNCHANGED <<files, pc, service, cliId, cliState, cliConfig, backup, bounds, enrolled,
                 foreign>>

(* Mutant: a rejected enrollment leaves the new key.                       *)
KeepNewKey ==
  /\ cliPc = "restore" /\ CliDone
  /\ UNCHANGED <<files, pc, service, server, bounds, history>>

(* restore_agent_key, if there is a backup.                                *)
RestoreKey ==
  /\ cliPc = "restore" /\ CliDone
  /\ \/ cliId # NoId /\ keyFile' = backup /\ Touch("key")
     \/ cliId = NoId /\ UNCHANGED <<keyFile, dirty>>
  /\ UNCHANGED <<config, pc, local, server, bounds, history>>

SaveEnrollment ==
  /\ cliPc = "save" /\ CliDone
  /\ config' = cliConfig
  /\ Touch("config")
  /\ enrolled' = cliConfig.id /\ cutShort' = FALSE
  /\ UNCHANGED <<keyFile, pc, local, server, bounds, foreign>>

-------------------------------------------------------------------------------
(* The server.                                                             *)

Approve(i) ==
  /\ i <= ids /\ srvState[i] = "pending"
  /\ srvState' = [srvState EXCEPT ![i] = "active"]
  /\ UNCHANGED <<files, pc, service, cli, ids, srvKey, srvMaterial, unvouched, bounds, history>>

Revoke(i) ==
  /\ i <= ids /\ srvState[i] # "revoked"
  /\ srvState' = [srvState EXCEPT ![i] = "revoked"]
  /\ UNCHANGED <<files, pc, service, cli, ids, srvKey, srvMaterial, unvouched, bounds, history>>

RenewMaterial ==
  /\ srvMaterial < MaxMaterial
  /\ srvMaterial' = srvMaterial + 1
  /\ unvouched' \in {unvouched, unvouched \cup {srvMaterial'}}
  /\ UNCHANGED <<files, pc, service, cli, ids, srvKey, srvState, bounds, history>>

-------------------------------------------------------------------------------

Sync(from, persist, next) ==
  \/ FetchOk(from, persist) \/ FetchFails(from, next)
  \/ StateKnown(persist, next) \/ PersistState(persist, next)

Ready == LoadConfig \/ Wait \/ LoadKey \/ StartWatch

Loop ==
  \/ CheckFiles \/ ReloadOther \/ ReloadSame
  \/ Sync("fetchFirst", "persistFirst", "top") \/ Sync("fetch", "persist", "pull")
  \/ PullFails \/ PullRefused \/ PullRevoked \/ PullOk \/ ApplyMaterial

SaveFails ==
  PersistFails("persistFirst", "top") \/ PersistFails("persist", "pull") \/ ApplyFails

StatusStep == StatusInspect \/ StatusFetch \/ StatusLoad \/ StatusSave

ForgetStep == ForgetConfig \/ ForgetKey

EnrollStep ==
  \/ PrepareAgain \/ TruncateKey \/ WriteKey \/ PrepareFirst
  \/ \E i \in Id, s \in {"pending", "active"} :
       RequestOk(i, s) \/ RequestForeign(i, s) \/ ReplyLost(i, s)
  \/ RequestRejected \/ RestoreKey \/ SaveEnrollment

ServerStep == RenewMaterial \/ \E i \in Id : Approve(i) \/ Revoke(i)

Next ==
  \/ Ready \/ Loop \/ SaveFails \/ Reset
  \/ StatusStep \/ ForgetStep \/ EnrollStep \/ CliStops
  \/ ServerStep

Spec == Init /\ [][Next]_vars

(* The service is never parked, requests and saves go through now and     *)
(* then, and a session that is refused again and again is reset.           *)
Fairness ==
  /\ WF_vars(Ready \/ Loop) /\ SF_vars(PullRefused)
  /\ SF_vars(FetchOk("fetchFirst", "persistFirst") \/ FetchOk("fetch", "persist"))
  /\ SF_vars(PersistState("persistFirst", "top") \/ PersistState("persist", "pull"))
  /\ SF_vars(PullOk \/ PullRevoked)

(* An enrolled host until it is forgotten.                                 *)
Enrolled ==
  \/ Ready \/ Loop \/ SaveFails \/ Reset
  \/ StatusStep \/ EnrollStep \/ CliStops
  \/ ServerStep

EnrolledSpec == Init /\ [][Enrolled]_vars /\ Fairness

-------------------------------------------------------------------------------

(* A session, its configuration and its requests are of one agent: a       *)
(* configuration of another one on disk ends it (CredentialWatch::check),  *)
(* and what it saves is its own.                                           *)
SessionIdentity == InSession /\ pc # "reload" => mem.id = agentId

(* Once an enrollment has been saved, and whatever later attempts were     *)
(* rejected, the key file is the key the server has for that agent, unless *)
(* an attempt was cut short (prepare_agent_enrollment, restore_agent_key). *)
(* After an answer for another agent it is not, although enroll.rs says of *)
(* its backup "restored if enrollment fails": submit_enrollment gives up   *)
(* with the new key in place, the one the server has for that other agent, *)
(* and what later attempts that are rejected restore is that key.          *)
EnrolledKeyRegistered ==
  cliPc = "idle" /\ ~cutShort /\ config # NoFile /\ config.id = enrolled
    => keyFile = srvKey[IF foreign = NoId THEN enrolled ELSE foreign]

(* A session that works with another key or configuration than is on disk  *)
(* has the change before it: in the files it has yet to look at, or among  *)
(* those it is about to read.                                              *)
KeyNoticed ==
  keyFile \in Key /\ keypair # keyFile => "key" \in dirty \cup changed

ConfigNoticed ==
  config # NoFile /\ mem # config => "config" \in dirty \cup changed

(* No change of the key file or of config.toml is lost on a running        *)
(* session, whatever it is doing when enroll, status or forget write; what *)
(* it changes itself is on disk too, but for a save of key material that   *)
(* fails (CredentialWatch::check, apply_key_material; enroll.rs: "The      *)
(* running agent service reloads them from disk automatically.").          *)
NoChangeMissed ==
  [][InSession /\ InSession' =>
       /\ KeyNoticed => KeyNoticed'
       /\ ConfigNoticed => ConfigNoticed' \/ ApplyFails]_vars

(* The id in config.toml is that of the last enrollment, and none once the *)
(* host is forgotten (forget.rs: "Remove local enrollment material").      *)
EnrollmentOnDisk == enrolled = IF config = NoFile THEN NoId ELSE config.id

Settled == cliPc = "idle" /\ ~cutShort /\ foreign = NoId

(* The version is as new as attestations lead to from there.               *)
UpToDate(material) == material = srvMaterial \/ ~Accepts(material, srvMaterial)

(* agent_state_sync.rs: "Keep the locally cached agent_state aligned with  *)
(* the Hecate server."  Whatever status and enroll save meanwhile, the     *)
(* service comes to hold the key material of a server that has approved    *)
(* it, as far as that is attested, and a revocation comes to be on disk.   *)
ServerStateTakesEffect ==
  <>[](Settled =>
         /\ srvState[1] = "active" =>
              mem # NoFile /\ UpToDate(mem.material)
         /\ srvState[1] = "revoked" => config.state = "revoked")

(* enroll.rs: "Re-enroll complete. The running agent service reconnects    *)
(* automatically."  An approved agent comes to be in session for good,     *)
(* with the key the server has last registered.                            *)
ReenrollmentPickedUp ==
  <>[](Settled /\ srvState[1] = "active" => InSession /\ keypair = srvKey[1])

(* enroll.rs: "The running agent service syncs approval from the server    *)
(* automatically."  So does the runtime mode it reports.                   *)
ApprovalReported ==
  <>[](Settled /\ srvState[1] = "active" => mode = "pulling")

===============================================================================
