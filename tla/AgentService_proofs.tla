------------------------- MODULE AgentService_proofs -------------------------
(***************************************************************************)
(* The safety of AgentService for every number of agents, keys and         *)
(* versions of key material: however the service and the command line      *)
(* interleave on the two files, a session stays with one agent, and the    *)
(* key file of an enrollment is the key the server has for it.             *)
(***************************************************************************)
EXTENDS AgentService, TLAPS

(* What each point of the service and of a command has in hand.            *)
HandInv ==
  /\ pc # "assess" => mem \in Configs
  /\ pc \in {"persistFirst", "persist"} => fetched \in AgentStates
  /\ pc = "apply" => offered \in Material
  /\ cliPc \in {"statusLoad", "statusSave"} => cliState \in AgentStates
  /\ cliPc \in {"statusSave", "save"} => cliConfig \in Configs
  /\ cliPc \in {"truncate", "write"} => cliId \in Id
  /\ cliPc = "write" => drawn < MaxKeys
  /\ cliPc = "request" => keyFile \in Key

TypeInv == TypeOK /\ HandInv

SessionInv == pc \notin {"assess", "loadKey"} => mem.id = agentId

(* A configuration that has been overwritten is not found again: once the  *)
(* file is no longer of the enrolled agent, nobody has it in memory except *)
(* the command that saves it.                                              *)
AwayInv ==
  /\ cliPc = "forgetKey" => enrolled = NoId
  /\ cliPc \in {"request", "restore", "save"} /\ cliId = NoId => enrolled = NoId
  /\ enrolled # NoId =>
       /\ config \in Configs
       /\ config.id # enrolled /\ mem \in Configs => mem.id # enrolled
       /\ cliPc = "statusSave" /\ cliConfig.id # enrolled => config.id # enrolled
       /\ cliPc \in {"truncate", "write", "request", "restore", "save"} /\ cliId # enrolled
            => config.id # enrolled

(* The enrolled agent is on disk, or about to be.                          *)
AtHand ==
  \/ config.id = enrolled
  \/ cliPc = "statusSave" /\ cliConfig.id = enrolled
  \/ cliPc \in {"truncate", "write", "request", "restore", "save"} /\ cliId = enrolled

(* The agent whose registered key the host has: the enrolled one, or the   *)
(* one that an attempt given up on was answered for.                       *)
Holder == IF foreign = NoId THEN enrolled ELSE foreign

(* The key the server has is in the file, or in the backup while the file  *)
(* is being replaced.                                                      *)
KeyInv ==
  /\ enrolled # NoId => enrolled <= ids
  /\ cliPc = "save" =>
       /\ cliConfig.id <= ids /\ keyFile = srvKey[cliConfig.id]
       /\ cliId \in {NoId, cliConfig.id}
       /\ foreign = NoId
  /\ enrolled # NoId /\ ~cutShort /\ AtHand =>
       /\ cliPc \notin {"write", "request", "restore"} => keyFile = srvKey[Holder]
       /\ cliPc \in {"truncate", "write", "request", "restore"} => backup = srvKey[Holder]

ServiceInv == TypeInv /\ SessionInv /\ AwayInv /\ KeyInv

ServiceStep == Ready \/ Loop \/ SaveFails \/ Reset

(* The host as it was first enrolled has its key on both sides.            *)
LEMMA ServiceInvInit == Init => ServiceInv
  <1> SUFFICES ASSUME Init PROVE ServiceInv
    OBVIOUS
  <1>1. 1 \in Id /\ 1 \in Key /\ 1 \in Material /\ 0 \in 0..MaxMaterial
    BY BoundAssumption DEF Id, Key, Material
  <1>2. PICK s \in {"pending", "active"} :
          /\ config = [id |-> 1, state |-> s, material |-> 1, previous |-> 0]
          /\ srvState = [i \in Id |-> s]
    BY DEF Init
  <1>3. config \in Configs /\ config.id = 1
    BY <1>1, <1>2 DEF Configs, AgentStates
  <1>4. srvState \in [Id -> AgentStates] /\ srvKey \in [Id -> Key] /\ resets \in 0..MaxResets
    BY <1>1, <1>2, BoundAssumption DEF Init, AgentStates
  <1>5. TypeOK
    BY <1>1, <1>3, <1>4 DEF Init, TypeOK, PCs, CliPCs, Modes
  <1>6. HandInv /\ SessionInv
    BY DEF Init, HandInv, SessionInv
  <1>7. AwayInv
    BY <1>1, <1>3, NoneAssumption DEF Init, AwayInv, Id
  <1>8. KeyInv
    BY <1>1, NoneAssumption DEF Init, KeyInv, Holder, Id
  <1> QED
    BY <1>5, <1>6, <1>7, <1>8 DEF ServiceInv, TypeInv

(* What a pull brings leaves the agent it is for, accepted or not.         *)
LEMMA TakenMaterial ==
  ASSUME TypeInv, ApplyMaterial \/ ApplyFails
  PROVE  mem \in Configs /\ mem' \in Configs /\ mem'.id = mem.id
  <1>1. offered \in Material /\ mem \in Configs
    BY DEF ApplyMaterial, ApplyFails, Take, To, TypeInv, HandInv
  <1>2. offered - 1 \in 0..MaxMaterial
    BY <1>1, BoundAssumption DEF Material
  <1>3. PICK m \in Material : mem' = [mem EXCEPT !.material = m, !.previous = offered - 1]
    BY <1>1 DEF ApplyMaterial, ApplyFails, Take, Configs
  <1> QED
    BY <1>1, <1>2, <1>3 DEF Configs

(* No step of the service touches the command line, the server or the key  *)
(* file, and what it saves or keeps in memory is of the agent it had in    *)
(* memory or found on disk.                                                *)
LEMMA ServiceFrame ==
  ASSUME TypeInv, ServiceStep
  PROVE  /\ UNCHANGED <<keyFile, cli, server, history>>
         /\ \/ config' = config
            \/ mem \in Configs /\ config' \in Configs /\ config'.id = mem.id
         /\ \/ mem' = NoFile
            \/ mem \in Configs /\ mem' \in Configs /\ mem'.id = mem.id
            \/ config \in Configs /\ mem' = config /\ config' = config
  <1> USE DEF files, service, local, To, Forgets
  <1>1. CASE LoadConfig
    BY <1>1 DEF LoadConfig, TypeInv, TypeOK
  <1>2. CASE Wait \/ LoadKey \/ StartWatch \/ Reset
    BY <1>2 DEF Wait, LoadKey, StartWatch, Reset, TypeInv, HandInv
  <1>3. ASSUME NEW from, NEW to, from \in PCs \ {"assess"},
               FetchOk(from, to) \/ FetchFails(from, to) \/ StateKnown(from, to)
                 \/ PersistFails(from, to)
        PROVE  UNCHANGED <<keyFile, cli, server, history, config, mem>> /\ mem \in Configs
    BY <1>3 DEF FetchOk, FetchFails, StateKnown, PersistFails, TypeInv, HandInv
  <1>4. ASSUME NEW from, NEW to, from \in {"persistFirst", "persist"}, PersistState(from, to)
        PROVE  /\ UNCHANGED <<keyFile, cli, server, history>>
               /\ mem \in Configs /\ config' \in Configs /\ config'.id = mem.id
               /\ mem' = NoFile \/ mem' = config'
    BY <1>4 DEF PersistState, TypeInv, HandInv, Configs
  <1>5. CASE CheckFiles \/ ReloadOther \/ PullFails \/ PullRefused \/ PullRevoked \/ PullOk
    BY <1>5 DEF CheckFiles, ReloadOther, PullFails, PullRefused, PullRevoked, PullOk,
       TypeInv, HandInv
  <1>6. CASE ReloadSame
    BY <1>6 DEF ReloadSame, Reloaded, TypeInv, TypeOK, HandInv
  <1>7. CASE ApplyMaterial \/ ApplyFails
    BY <1>7, TakenMaterial DEF ApplyMaterial, ApplyFails, Take
  <1> QED
    BY <1>1, <1>2, <1>3, <1>4, <1>5, <1>6, <1>7
       DEF ServiceStep, Ready, Loop, Sync, SaveFails, PCs


(* The server knows agents within the bound only.                          *)
LEMMA KnownId ==
  ASSUME TypeInv, NEW i, NEW k, Known(i, k)
  PROVE  i \in Id
  <1>1. ids \in Nat /\ ids <= MaxIds /\ MaxIds \in Nat /\ i \in 1..ids
    BY BoundAssumption DEF Known, TypeInv, TypeOK, Id
  <1> QED
    BY <1>1 DEF Id

(* Every step keeps the types.                                             *)
LEMMA ServiceTypes ==
  ASSUME TypeInv, ServiceStep
  PROVE  TypeOK'
  <1> USE DEF files, service, local, cli, server, history, bounds, To, Forgets
  <1>1. CASE LoadConfig
    BY <1>1 DEF LoadConfig, TypeInv, TypeOK, PCs
  <1>2. CASE Wait \/ StartWatch \/ Reset
    <2>1. resets' \in 0..MaxResets
      BY <1>2, BoundAssumption DEF Wait, StartWatch, Reset, TypeInv, TypeOK
    <2> QED
      BY <1>2, <2>1 DEF Wait, StartWatch, Reset, TypeInv, TypeOK, PCs, Modes
  <1>3. CASE LoadKey
    BY <1>3 DEF LoadKey, TypeInv, TypeOK, HandInv, PCs, Modes, ModeOf, Configs
  <1>4. ASSUME NEW from, NEW to, to \in PCs,
               FetchOk(from, to) \/ FetchFails(from, to) \/ StateKnown(from, to)
                 \/ PersistFails(from, to)
        PROVE  TypeOK'
    <2>1. FetchOk(from, to) => srvState[agentId] \in AgentStates
      BY <1>4, KnownId DEF FetchOk, TypeInv, TypeOK
    <2> QED
      BY <1>4, <2>1 DEF FetchOk, FetchFails, StateKnown, PersistFails, TypeInv, TypeOK
  <1>5. ASSUME NEW from, NEW to, to \in PCs, from \in {"persistFirst", "persist"},
               PersistState(from, to)
        PROVE  TypeOK'
    <2>1. config' \in Configs /\ ModeOf(fetched) \in Modes
      BY <1>5 DEF PersistState, TypeInv, HandInv, Configs, Modes, ModeOf
    <2> QED
      BY <1>5, <2>1 DEF PersistState, Touch, InSession, TypeInv, TypeOK, PCs, Modes
  <1>6. CASE CheckFiles \/ ReloadOther \/ PullFails \/ PullRefused \/ PullRevoked \/ PullOk
    BY <1>6 DEF CheckFiles, ReloadOther, PullFails, PullRefused, PullRevoked, PullOk,
       TypeInv, TypeOK, PCs, Modes
  <1>7. CASE ReloadSame
    <2>1. Reloaded \in Configs
      BY <1>7 DEF ReloadSame, Reloaded, TypeInv, TypeOK, HandInv
    <2>2. mode' \in Modes /\ pc' \in PCs
      BY <1>7 DEF ReloadSame, NextPhase, ModeOf, TypeInv, TypeOK, Modes, PCs
    <2> QED
      BY <1>7, <2>1, <2>2 DEF ReloadSame, TypeInv, TypeOK
  <1>8. CASE ApplyMaterial \/ ApplyFails
    BY <1>8, TakenMaterial
       DEF ApplyMaterial, ApplyFails, Take, Touch, InSession, TypeInv, TypeOK, PCs
  <1> QED
    BY <1>1, <1>2, <1>3, <1>4, <1>5, <1>6, <1>7, <1>8
       DEF ServiceStep, Ready, Loop, Sync, SaveFails, PCs

LEMMA CommandTypes ==
  ASSUME TypeInv, StatusStep \/ ForgetStep \/ EnrollStep \/ CliStops
  PROVE  TypeOK'
  <1> USE DEF files, service, local, cli, server, history, bounds, CliTo, CliDone,
      Touch, InSession
  <1>1. CASE StatusInspect
    BY <1>1 DEF StatusInspect, TypeInv, TypeOK, CliPCs, Configs
  <1>2. CASE StatusFetch
    <2>1. srvState[cliId] \in AgentStates
      BY <1>2, KnownId DEF StatusFetch, TypeInv, TypeOK
    <2> QED
      BY <1>2, <2>1 DEF StatusFetch, TypeInv, TypeOK, CliPCs
  <1>3. CASE StatusLoad
    BY <1>3 DEF StatusLoad, TypeInv, TypeOK, CliPCs
  <1>4. CASE StatusSave
    <2>1. config' \in Configs
      BY <1>4 DEF StatusSave, TypeInv, HandInv, Configs
    <2> QED
      BY <1>4, <2>1 DEF StatusSave, TypeInv, TypeOK, CliPCs
  <1>5. CASE ForgetConfig \/ ForgetKey
    BY <1>5 DEF ForgetConfig, ForgetKey, TypeInv, TypeOK, CliPCs
  <1>6. CASE PrepareAgain
    BY <1>6 DEF PrepareAgain, TypeInv, TypeOK, CliPCs, Configs
  <1>7. CASE TruncateKey
    BY <1>7 DEF TruncateKey, TypeInv, TypeOK, CliPCs
  <1>8. CASE WriteKey \/ PrepareFirst
    <2>1. drawn < MaxKeys => drawn + 1 \in Key
      BY BoundAssumption DEF TypeInv, TypeOK, Key
    <2>2. drawn < MaxKeys \/ ~WriteKey
      BY DEF WriteKey, TypeInv, HandInv
    <2> QED
      BY <1>8, <2>1, <2>2 DEF WriteKey, PrepareFirst, DrawKey, TypeInv, TypeOK, CliPCs
  <1>9. ASSUME NEW i \in Id, NEW s \in {"pending", "active"},
               RequestOk(i, s) \/ RequestForeign(i, s) \/ ReplyLost(i, s)
        PROVE  TypeOK'
    <2>1. keyFile \in Key
      BY <1>9 DEF RequestOk, RequestForeign, ReplyLost, TypeInv, HandInv
    <2>2. [id |-> i, state |-> s, material |-> srvMaterial, previous |-> 0] \in Configs
      BY BoundAssumption DEF Configs, AgentStates, TypeInv, TypeOK
    <2>3. Enroll(i, s)
      BY <1>9 DEF RequestOk, RequestForeign, ReplyLost
    <2>4. srvKey' \in [Id -> Key] /\ srvState' \in [Id -> AgentStates] /\ ids' \in Id
      BY <2>1, <2>3 DEF Enroll, TypeInv, TypeOK, AgentStates
    <2> QED
      BY <1>9, <2>2, <2>3, <2>4
         DEF RequestOk, RequestForeign, ReplyLost, Enroll, TypeInv, TypeOK, CliPCs
  <1>10. CASE RequestRejected \/ RestoreKey
    BY <1>10 DEF RequestRejected, RestoreKey, TypeInv, TypeOK, CliPCs
  <1>11. CASE SaveEnrollment
    BY <1>11 DEF SaveEnrollment, TypeInv, TypeOK, HandInv, CliPCs, Configs
  <1>12. CASE CliStops
    <2>1. cutShort' \in BOOLEAN
      BY <1>12 DEF CliStops, Enrolling, TypeInv, TypeOK
    <2> QED
      BY <1>12, <2>1 DEF CliStops, TypeInv, TypeOK, CliPCs
  <1> QED
    BY <1>1, <1>2, <1>3, <1>4, <1>5, <1>6, <1>7, <1>8, <1>9, <1>10, <1>11, <1>12
       DEF StatusStep, ForgetStep, EnrollStep

LEMMA TypeStep == TypeInv /\ [Next]_vars => TypeOK'
  <1> SUFFICES ASSUME TypeInv, [Next]_vars PROVE TypeOK'
    OBVIOUS
  <1>1. CASE ServerStep
    <2>1. ASSUME NEW i \in Id, Approve(i) \/ Revoke(i)
          PROVE  srvState' \in [Id -> AgentStates] /\ UNCHANGED <<srvMaterial, unvouched>>
      BY <2>1 DEF Approve, Revoke, TypeInv, TypeOK, AgentStates
    <2>2. RenewMaterial => /\ srvMaterial' \in Material /\ unvouched' \subseteq Material
                           /\ srvState' = srvState
      BY BoundAssumption DEF RenewMaterial, TypeInv, TypeOK, Material
    <2>3. UNCHANGED <<files, pc, service, cli, ids, srvKey, bounds, history>>
      BY <1>1 DEF ServerStep, RenewMaterial, Approve, Revoke
    <2> QED
      BY <1>1, <2>1, <2>2, <2>3 DEF ServerStep, TypeInv, TypeOK, files, service, local,
         cli, bounds, history
  <1>2. CASE UNCHANGED vars
    BY <1>2 DEF vars, TypeInv, TypeOK, files, service, local, cli, server, bounds, history
  <1> QED
    BY <1>1, <1>2, ServiceTypes, CommandTypes DEF Next, ServiceStep

(* Every step of the service keeps what it has in hand, and its agent.     *)
LEMMA ServiceHand ==
  ASSUME TypeInv, SessionInv, ServiceStep
  PROVE  HandInv' /\ SessionInv'
  <1>1. drawn' = drawn
    BY DEF ServiceStep, Ready, Loop, Sync, SaveFails, LoadConfig, Wait, LoadKey, StartWatch,
       Reset, FetchOk, FetchFails, StateKnown, PersistState, PersistFails, CheckFiles,
       ReloadOther, ReloadSame, PullFails, PullRefused, PullRevoked, PullOk, ApplyMaterial,
       ApplyFails, Take, bounds
  <1>2. SUFFICES /\ pc' # "assess" => mem' \in Configs
                 /\ pc' \in {"persistFirst", "persist"} => fetched' \in AgentStates
                 /\ pc' = "apply" => offered' \in Material
                 /\ SessionInv'
    BY <1>1, ServiceFrame DEF HandInv, TypeInv, cli
  <1> USE DEF service, local, To, SessionInv
  <1>3. CASE LoadConfig \/ LoadKey \/ StartWatch
    BY <1>3 DEF LoadConfig, LoadKey, StartWatch, TypeInv, TypeOK, HandInv
  <1>4. CASE Wait \/ Reset \/ ReloadOther \/ PullRefused \/ PullRevoked
    BY <1>4 DEF Wait, Reset, ReloadOther, PullRefused, PullRevoked
  <1>5. CASE CheckFiles \/ PullFails
    BY <1>5 DEF CheckFiles, PullFails, TypeInv, HandInv
  <1>6. CASE PullOk
    BY <1>6 DEF PullOk, server, TypeInv, TypeOK, HandInv
  <1>7. CASE ReloadSame
    <2>1. Reloaded \in Configs
      BY <1>7 DEF ReloadSame, Reloaded, TypeInv, TypeOK, HandInv
    <2> QED
      BY <1>7, <2>1 DEF ReloadSame, NextPhase
  <1>8. CASE ApplyMaterial \/ ApplyFails
    BY <1>8, TakenMaterial DEF ApplyMaterial, ApplyFails, Take
  <1>9. ASSUME NEW from, NEW persist, NEW next,
               \/ from = "fetchFirst" /\ persist = "persistFirst" /\ next = "top"
               \/ from = "fetch" /\ persist = "persist" /\ next = "pull",
               Sync(from, persist, next) \/ PersistFails(persist, next)
        PROVE  /\ pc' # "assess" => mem' \in Configs
               /\ pc' \in {"persistFirst", "persist"} => fetched' \in AgentStates
               /\ pc' = "apply" => offered' \in Material
               /\ SessionInv'
    <2>1. CASE FetchOk(from, persist)
      BY <1>9, <2>1, KnownId DEF FetchOk, TypeInv, TypeOK, HandInv
    <2>2. CASE FetchFails(from, next) \/ StateKnown(persist, next) \/ PersistFails(persist, next)
      BY <1>9, <2>2 DEF FetchFails, StateKnown, PersistFails, TypeInv, HandInv
    <2>3. CASE PersistState(persist, next)
      <3>1. config' \in Configs /\ config'.id = mem.id
        BY <1>9, <2>3 DEF PersistState, TypeInv, HandInv, Configs
      <3> QED
        BY <1>9, <2>3, <3>1 DEF PersistState, Forgets
    <2> QED
      BY <1>9, <2>1, <2>2, <2>3 DEF Sync
  <1> QED
    BY <1>3, <1>4, <1>5, <1>6, <1>7, <1>8, <1>9 DEF ServiceStep, Ready, Loop, SaveFails

(* Every step of a command keeps what it has in hand.                      *)
LEMMA CommandHand ==
  ASSUME TypeInv, SessionInv, StatusStep \/ ForgetStep \/ EnrollStep \/ CliStops
  PROVE  HandInv' /\ SessionInv'
  <1> USE DEF service, local, bounds, files, server, CliTo, CliDone, SessionInv
  <1>1. CASE StatusInspect \/ StatusLoad \/ StatusSave
    BY <1>1 DEF StatusInspect, StatusLoad, StatusSave, TypeInv, TypeOK, HandInv
  <1>2. CASE StatusFetch
    BY <1>2, KnownId DEF StatusFetch, TypeInv, TypeOK, HandInv
  <1>3. CASE ForgetConfig \/ ForgetKey \/ CliStops
    BY <1>3 DEF ForgetConfig, ForgetKey, CliStops, TypeInv, HandInv
  <1>4. CASE PrepareAgain \/ TruncateKey
    BY <1>4 DEF PrepareAgain, TruncateKey, TypeInv, TypeOK, HandInv, Configs
  <1>5. CASE WriteKey \/ PrepareFirst
    <2>1. drawn < MaxKeys => drawn + 1 \in Key
      BY BoundAssumption DEF TypeInv, TypeOK, Key
    <2> QED
      BY <1>5, <2>1 DEF WriteKey, PrepareFirst, DrawKey, TypeInv, HandInv
  <1>6. ASSUME NEW i \in Id, NEW s \in {"pending", "active"},
               RequestOk(i, s) \/ RequestForeign(i, s) \/ ReplyLost(i, s)
        PROVE  HandInv' /\ SessionInv'
    <2>1. [id |-> i, state |-> s, material |-> srvMaterial, previous |-> 0] \in Configs
      BY BoundAssumption DEF Configs, AgentStates, TypeInv, TypeOK
    <2> QED
      BY <1>6, <2>1 DEF RequestOk, RequestForeign, ReplyLost, TypeInv, HandInv
  <1>7. CASE RequestRejected \/ RestoreKey \/ SaveEnrollment
    BY <1>7 DEF RequestRejected, RestoreKey, SaveEnrollment, TypeInv, HandInv
  <1> QED
    BY <1>1, <1>2, <1>3, <1>4, <1>5, <1>6, <1>7 DEF StatusStep, ForgetStep, EnrollStep

(* A step of the server takes nothing from either.                         *)
LEMMA ServerFrame ==
  ASSUME ServerStep \/ UNCHANGED vars
  PROVE  UNCHANGED <<files, pc, service, cli, ids, srvKey, bounds, history>>
  BY DEF ServerStep, RenewMaterial, Approve, Revoke, vars, server

LEMMA HandStep == TypeInv /\ SessionInv /\ [Next]_vars => HandInv' /\ SessionInv'
  <1> SUFFICES ASSUME TypeInv, SessionInv, [Next]_vars PROVE HandInv' /\ SessionInv'
    OBVIOUS
  <1>1. CASE ServerStep \/ UNCHANGED vars
    BY <1>1, ServerFrame DEF TypeInv, HandInv, SessionInv, files, service, local, cli, bounds
  <1> QED
    BY <1>1, ServiceHand, CommandHand DEF Next, ServiceStep

(* The service only ever writes what it has read: it cannot bring back an  *)
(* enrollment that is nowhere any more, nor lose sight of a key.           *)
LEMMA ServiceKeys ==
  ASSUME TypeInv, AwayInv, KeyInv, ServiceStep
  PROVE  AwayInv' /\ KeyInv'
  <1>1. /\ UNCHANGED <<keyFile, cli, server, history>>
        /\ \/ config' = config
           \/ mem \in Configs /\ config' \in Configs /\ config'.id = mem.id
        /\ \/ mem' = NoFile
           \/ mem \in Configs /\ mem' \in Configs /\ mem'.id = mem.id
           \/ config \in Configs /\ mem' = config /\ config' = config
    BY ServiceFrame
  <1>2. enrolled # NoId =>
          /\ config' \in Configs
          /\ config.id # enrolled => config'.id # enrolled
          /\ config'.id # enrolled /\ mem' \in Configs => mem'.id # enrolled
    BY <1>1, NoConfigAssumption DEF AwayInv
  <1>3. AwayInv'
    BY <1>1, <1>2 DEF AwayInv, cli, history
  <1>4. enrolled # NoId /\ AtHand' => AtHand
    BY <1>1, <1>2 DEF AtHand, cli, history
  <1>5. KeyInv'
    BY <1>1, <1>4 DEF KeyInv, Holder, cli, server, history
  <1> QED
    BY <1>3, <1>5

LEMMA CommandAway ==
  ASSUME TypeInv, AwayInv, KeyInv, StatusStep \/ ForgetStep \/ EnrollStep \/ CliStops
  PROVE  AwayInv'
  <1> USE DEF service, local, files, server, cli, history, CliTo, CliDone
  <1>1. CASE StatusInspect \/ StatusFetch \/ StatusLoad
    BY <1>1 DEF StatusInspect, StatusFetch, StatusLoad, AwayInv
  <1>2. CASE StatusSave
    <2>1. config' \in Configs /\ config'.id = cliConfig.id
      BY <1>2 DEF StatusSave, TypeInv, HandInv, Configs
    <2> QED
      BY <1>2, <2>1 DEF StatusSave, AwayInv
  <1>3. CASE ForgetConfig \/ ForgetKey \/ CliStops
    BY <1>3 DEF ForgetConfig, ForgetKey, CliStops, AwayInv
  <1>4. CASE PrepareAgain \/ TruncateKey
    BY <1>4 DEF PrepareAgain, TruncateKey, AwayInv
  <1>5. CASE WriteKey
    BY <1>5, NoneAssumption DEF WriteKey, AwayInv, TypeInv, HandInv, Id
  <1>6. CASE PrepareFirst
    BY <1>6, NoConfigAssumption DEF PrepareFirst, AwayInv
  <1>7. ASSUME NEW i \in Id, NEW s \in {"pending", "active"},
               RequestOk(i, s) \/ RequestForeign(i, s) \/ ReplyLost(i, s)
        PROVE  AwayInv'
    BY <1>7 DEF RequestOk, RequestForeign, ReplyLost, AwayInv
  <1>8. CASE RequestRejected \/ RestoreKey
    BY <1>8 DEF RequestRejected, RestoreKey, AwayInv
  <1>9. CASE SaveEnrollment
    BY <1>9 DEF SaveEnrollment, AwayInv, TypeInv, HandInv
  <1> QED
    BY <1>1, <1>2, <1>3, <1>4, <1>5, <1>6, <1>7, <1>8, <1>9
       DEF StatusStep, ForgetStep, EnrollStep

LEMMA CommandKeys ==
  ASSUME TypeInv, AwayInv, KeyInv, StatusStep \/ ForgetStep \/ EnrollStep \/ CliStops
  PROVE  KeyInv'
  <1> USE DEF Holder, service, local, files, server, cli, history, CliTo, CliDone
  <1>1. CASE StatusInspect \/ StatusFetch \/ StatusLoad
    BY <1>1 DEF StatusInspect, StatusFetch, StatusLoad, KeyInv, AtHand
  <1>2. CASE StatusSave
    <2>1. config'.id = cliConfig.id
      BY <1>2 DEF StatusSave, TypeInv, HandInv, Configs
    <2> QED
      BY <1>2, <2>1 DEF StatusSave, KeyInv, AtHand
  <1>3. CASE ForgetConfig \/ ForgetKey
    BY <1>3 DEF ForgetConfig, ForgetKey, KeyInv, AwayInv
  <1>4. CASE CliStops
    BY <1>4 DEF CliStops, Enrolling, KeyInv, AwayInv, AtHand
  <1>5. CASE PrepareAgain \/ TruncateKey \/ WriteKey
    BY <1>5 DEF PrepareAgain, TruncateKey, WriteKey, DrawKey, KeyInv, AtHand
  <1>6. CASE PrepareFirst
    BY <1>6, NoConfigAssumption DEF PrepareFirst, KeyInv, AwayInv
  <1>7. ASSUME NEW i \in Id, NEW s \in {"pending", "active"},
               RequestOk(i, s) \/ RequestForeign(i, s) \/ ReplyLost(i, s)
        PROVE  KeyInv'
    <2>1. Enroll(i, s)
      BY <1>7 DEF RequestOk, RequestForeign, ReplyLost
    <2>2. ids \in Nat /\ i \in Nat /\ (enrolled # NoId => enrolled \in Nat)
      BY DEF TypeInv, TypeOK, Id
    <2>3. ids <= ids' /\ i <= ids' /\ ids' \in Nat
      BY <2>1, <2>2 DEF Enroll
    <2>4. enrolled # NoId => enrolled <= ids'
      BY <2>2, <2>3 DEF KeyInv
    <2>5. srvKey'[i] = keyFile
      BY <2>1 DEF Enroll, TypeInv, TypeOK
    <2>6. CASE RequestOk(i, s)
      <3>1. cliConfig'.id = i /\ cliPc' = "save" /\ cliId' = cliId /\ cliId \in {NoId, i}
        BY <2>6 DEF RequestOk
      <3>2. enrolled # NoId /\ AtHand' => enrolled = i
        BY <2>6, <3>1 DEF RequestOk, AtHand, AwayInv
      <3> QED
        BY <2>3, <2>4, <2>5, <2>6, <3>1, <3>2 DEF RequestOk, KeyInv
    <2>7. CASE RequestForeign(i, s)
      BY <2>4, <2>5, <2>7, NoneAssumption DEF RequestForeign, KeyInv, Id
    <2>8. CASE ReplyLost(i, s)
      BY <2>4, <2>8 DEF ReplyLost, KeyInv
    <2> QED
      BY <1>7, <2>6, <2>7, <2>8
  <1>8. CASE RequestRejected
    BY <1>8 DEF RequestRejected, KeyInv, AtHand
  <1>9. CASE RestoreKey
    <2>1. enrolled # NoId /\ AtHand' => cliId = enrolled /\ AtHand
      BY <1>9 DEF RestoreKey, AtHand, AwayInv
    <2> QED
      BY <1>9, <2>1 DEF RestoreKey, KeyInv
  <1>10. CASE SaveEnrollment
    BY <1>10 DEF SaveEnrollment, KeyInv
  <1> QED
    BY <1>1, <1>2, <1>3, <1>4, <1>5, <1>6, <1>7, <1>8, <1>9, <1>10
       DEF StatusStep, ForgetStep, EnrollStep

LEMMA ServiceInvStep == ServiceInv /\ [Next]_vars => ServiceInv'
  <1> SUFFICES ASSUME ServiceInv, [Next]_vars PROVE ServiceInv'
    OBVIOUS
  <1>1. TypeInv' /\ SessionInv'
    BY TypeStep, HandStep DEF ServiceInv, TypeInv
  <1>2. AwayInv' /\ KeyInv'
    <2>1. CASE ServerStep \/ UNCHANGED vars
      BY <2>1, ServerFrame
         DEF ServiceInv, AwayInv, KeyInv, Holder, AtHand, files, service, local, cli, history
    <2> QED
      BY <2>1, ServiceKeys, CommandAway, CommandKeys DEF ServiceInv, Next, ServiceStep
  <1> QED
    BY <1>1, <1>2 DEF ServiceInv

LEMMA ServiceInvariant == Spec => []ServiceInv
  BY ServiceInvInit, ServiceInvStep, PTL DEF Spec

(* Every variable of the service, the command line and the server keeps to *)
(* its values.                                                             *)
THEOREM TypeCorrect == Spec => []TypeOK
  <1>1. ServiceInv => TypeOK
    BY DEF ServiceInv, TypeInv
  <1> QED
    BY <1>1, ServiceInvariant, PTL

(* A session stays with the agent it was started for, whatever enroll and  *)
(* forget do to config.toml meanwhile.                                     *)
THEOREM SessionCorrect == Spec => []SessionIdentity
  <1>1. ServiceInv => SessionIdentity
    BY DEF ServiceInv, SessionInv, SessionIdentity, InSession
  <1> QED
    BY <1>1, ServiceInvariant, PTL

(* An enrollment that is still on disk has its registered key on disk too, *)
(* or that of the other agent an answer was for, whatever was rejected     *)
(* since, unless an attempt was cut short.                                 *)
THEOREM EnrolledKeyCorrect == Spec => []EnrolledKeyRegistered
  <1>1. ServiceInv => EnrolledKeyRegistered
    <2> SUFFICES ASSUME ServiceInv, cliPc = "idle", ~cutShort, config # NoFile,
                        config.id = enrolled
                 PROVE  keyFile = srvKey[Holder]
      BY DEF EnrolledKeyRegistered, Holder
    <2>1. enrolled # NoId
      BY NoneAssumption DEF ServiceInv, TypeInv, TypeOK, Configs, Id
    <2> QED
      BY <2>1 DEF ServiceInv, KeyInv, AtHand
  <1> QED
    BY <1>1, ServiceInvariant, PTL

-------------------------------------------------------------------------------
(* The watch of a session (CredentialWatch).  It can only report what is   *)
(* written after it has looked for the first time, and what the session    *)
(* itself keeps in memory without saving it is not on disk: that apart, a  *)
(* session works with the files, or has their change before it.            *)

(* What the watch found changed is read before it looks again.             *)
ChangedInv == pc # "reload" => changed = {}

(* Every step of the service reads what it has noticed, or keeps it.       *)
LEMMA ServiceNotices ==
  ASSUME TypeInv, ChangedInv, ServiceStep, InSession, InSession'
  PROVE  /\ KeyNoticed => KeyNoticed'
         /\ ConfigNoticed => ConfigNoticed' \/ ApplyFails
  <1> USE DEF files, service, local, To, ChangedInv, KeyNoticed, ConfigNoticed, InSession
  <1>1. keyFile' = keyFile
    BY ServiceFrame
  <1>2. ~(LoadConfig \/ LoadKey \/ StartWatch \/ Wait \/ Reset \/ ReloadOther
            \/ PullRefused \/ PullRevoked)
    BY DEF LoadConfig, LoadKey, StartWatch, Wait, Reset, ReloadOther, PullRefused, PullRevoked
  <1>3. CASE CheckFiles \/ PullFails \/ PullOk
    BY <1>3 DEF CheckFiles, PullFails, PullOk
  <1>4. CASE ReloadSame
    BY <1>4 DEF ReloadSame, Reloaded
  <1>5. CASE ApplyMaterial \/ ApplyFails
    BY <1>1, <1>5 DEF ApplyMaterial, ApplyFails, Take, Touch
  <1>6. ASSUME NEW from, NEW persist, NEW next,
               Sync(from, persist, next) \/ PersistFails(persist, next)
        PROVE  (KeyNoticed => KeyNoticed') /\ (ConfigNoticed => ConfigNoticed')
    <2>1. CASE \/ FetchOk(from, persist) \/ FetchFails(from, next)
               \/ StateKnown(persist, next) \/ PersistFails(persist, next)
      BY <2>1 DEF FetchOk, FetchFails, StateKnown, PersistFails
    <2>2. CASE PersistState(persist, next)
      BY <1>1, <2>2 DEF PersistState, Touch
    <2> QED
      BY <1>6, <2>1, <2>2 DEF Sync
  <1> QED
    BY <1>2, <1>3, <1>4, <1>5, <1>6 DEF ServiceStep, Ready, Loop, SaveFails

(* A command leaves a file alone, or touches it in the eyes of a session.  *)
LEMMA CommandTouches ==
  ASSUME StatusStep \/ ForgetStep \/ EnrollStep \/ CliStops
  PROVE  /\ UNCHANGED <<pc, local>>
         /\ InSession => dirty \subseteq dirty'
         /\ InSession /\ keyFile' # keyFile => "key" \in dirty'
         /\ InSession /\ config' # config => "config" \in dirty'
  <1> USE DEF files, service, Touch
  <1>1. CASE StatusStep \/ ForgetStep
    BY <1>1 DEF StatusStep, ForgetStep, StatusInspect, StatusFetch, StatusLoad, StatusSave,
       ForgetConfig, ForgetKey
  <1>2. CASE CliStops
    BY <1>2 DEF CliStops
  <1>3. CASE PrepareAgain \/ TruncateKey \/ WriteKey \/ PrepareFirst
    BY <1>3 DEF PrepareAgain, TruncateKey, WriteKey, PrepareFirst, DrawKey
  <1>4. ASSUME NEW i \in Id, NEW s \in {"pending", "active"},
               RequestOk(i, s) \/ RequestForeign(i, s) \/ ReplyLost(i, s)
        PROVE  UNCHANGED <<files, pc, service>>
    BY <1>4 DEF RequestOk, RequestForeign, ReplyLost
  <1>5. CASE RequestRejected \/ RestoreKey \/ SaveEnrollment
    BY <1>5 DEF RequestRejected, RestoreKey, SaveEnrollment
  <1> QED
    BY <1>1, <1>2, <1>3, <1>4, <1>5 DEF EnrollStep

(* No step of the session, the commands or the server hides a change.      *)
LEMMA NoticedStep ==
  ASSUME TypeInv, ChangedInv, [Next]_vars, InSession, InSession'
  PROVE  /\ KeyNoticed => KeyNoticed'
         /\ ConfigNoticed => ConfigNoticed' \/ ApplyFails
  <1>1. CASE ServerStep \/ UNCHANGED vars
    BY <1>1, ServerFrame DEF KeyNoticed, ConfigNoticed, files, service, local
  <1>2. CASE ServiceStep
    BY <1>2, ServiceNotices
  <1>3. CASE StatusStep \/ ForgetStep \/ EnrollStep \/ CliStops
    <2>1. UNCHANGED local /\ dirty \subseteq dirty'
      BY <1>3, CommandTouches
    <2>2. (keyFile' # keyFile => "key" \in dirty') /\ (config' # config => "config" \in dirty')
      BY <1>3, CommandTouches
    <2> QED
      BY <2>1, <2>2 DEF KeyNoticed, ConfigNoticed, local
  <1> QED
    BY <1>1, <1>2, <1>3 DEF Next, ServiceStep

LEMMA ChangedStep ==
  ASSUME TypeInv, ChangedInv, [Next]_vars
  PROVE  ChangedInv'
  <1> USE DEF service, local, To, ChangedInv
  <1>1. CASE ServerStep \/ UNCHANGED vars
    BY <1>1, ServerFrame
  <1>2. CASE StatusStep \/ ForgetStep \/ EnrollStep \/ CliStops
    BY <1>2, CommandTouches
  <1>3. CASE Ready \/ Reset
    BY <1>3 DEF Ready, LoadConfig, Wait, LoadKey, StartWatch, Reset, Forgets
  <1>4. CASE CheckFiles \/ ReloadOther \/ ReloadSame \/ PullFails \/ PullRefused
             \/ PullRevoked \/ PullOk \/ ApplyMaterial \/ ApplyFails
    BY <1>4 DEF CheckFiles, ReloadOther, ReloadSame, PullFails, PullRefused, PullRevoked,
       PullOk, ApplyMaterial, ApplyFails, Take, Forgets
  <1>5. ASSUME NEW from, NEW persist, NEW next,
               from # "reload", persist # "reload", next # "reload",
               Sync(from, persist, next) \/ PersistFails(persist, next)
        PROVE  ChangedInv'
    BY <1>5 DEF Sync, FetchOk, FetchFails, StateKnown, PersistFails, PersistState, Forgets
  <1>6. Sync("fetchFirst", "persistFirst", "top") \/ PersistFails("persistFirst", "top")
          => ChangedInv'
    BY <1>5
  <1>7. Sync("fetch", "persist", "pull") \/ PersistFails("persist", "pull") => ChangedInv'
    BY <1>5
  <1> QED
    BY <1>1, <1>2, <1>3, <1>4, <1>6, <1>7 DEF Next, Loop, SaveFails

LEMMA ChangedInvariant == Spec => []ChangedInv
  <1>1. Init => ChangedInv
    BY DEF Init, ChangedInv
  <1>2. ServiceInv => TypeInv
    BY DEF ServiceInv
  <1> QED
    BY <1>1, <1>2, ChangedStep, ServiceInvariant, PTL DEF Spec

(* No change of the key file or of config.toml by enroll, status or forget *)
(* is lost on a running session, whatever it is doing when they are        *)
(* written (CredentialWatch::check, apply_key_material).                   *)
THEOREM NoChangeMissedCorrect == Spec => NoChangeMissed
  <1>1. ServiceInv => TypeInv
    BY DEF ServiceInv
  <1>2. TypeInv /\ ChangedInv /\ [Next]_vars =>
          [InSession /\ InSession' =>
             /\ KeyNoticed => KeyNoticed'
             /\ ConfigNoticed => ConfigNoticed' \/ ApplyFails]_vars
    BY NoticedStep
  <1> QED
    BY <1>1, <1>2, ServiceInvariant, ChangedInvariant, PTL DEF Spec, NoChangeMissed

(* Nothing is written between the reading of the two files and the first   *)
(* look at them, and no save of key material fails.                        *)
Undisturbed ==
  /\ pc \in {"loadKey", "watch"} /\ pc' # "assess" => UNCHANGED files
  /\ ~ApplyFails

(* A session with no change before it works with what is on disk.          *)
WorksWithFiles ==
  InSession /\ dirty = {} /\ changed = {} =>
    /\ keyFile \in Key => keypair = keyFile
    /\ config # NoFile => mem = config

NoticedInv ==
  /\ pc \in {"loadKey", "watch"} => mem = config
  /\ pc = "watch" => keypair = keyFile
  /\ InSession => KeyNoticed /\ ConfigNoticed

(* A session begins with the files it has read.                            *)
LEMMA SessionBegins ==
  ASSUME TypeInv, NoticedInv, [Next]_vars, [Undisturbed]_vars, ~InSession
  PROVE  NoticedInv'
  <1> USE DEF files, service, local, To, NoticedInv, KeyNoticed, ConfigNoticed, InSession
  <1>1. CASE ServerStep \/ UNCHANGED vars
    BY <1>1, ServerFrame
  <1>2. CASE (StatusStep \/ ForgetStep \/ EnrollStep \/ CliStops) /\ Undisturbed
    <2>1. UNCHANGED <<pc, local>>
      BY <1>2, CommandTouches
    <2>2. pc \in {"loadKey", "watch"} => UNCHANGED files
      BY <1>2, <2>1 DEF Undisturbed
    <2> QED
      BY <2>1, <2>2
  <1>3. CASE Ready \/ Reset
    BY <1>3 DEF Ready, LoadConfig, Wait, LoadKey, StartWatch, Reset, Forgets
  <1>4. ~(Loop \/ SaveFails)
    BY DEF Loop, SaveFails, Sync, FetchOk, FetchFails, StateKnown, PersistFails, PersistState,
       CheckFiles, ReloadOther, ReloadSame, PullFails, PullRefused, PullRevoked, PullOk,
       ApplyMaterial, ApplyFails, Take
  <1> QED
    BY <1>1, <1>2, <1>3, <1>4 DEF Next

(* ... and ends by assessing the host again.                               *)
LEMMA SessionEnds ==
  ASSUME TypeInv, [Next]_vars, InSession, ~InSession'
  PROVE  pc' = "assess"
  <1> USE DEF service, To, InSession
  <1>1. ~(ServerStep \/ UNCHANGED vars)
    BY ServerFrame
  <1>2. ~(StatusStep \/ ForgetStep \/ EnrollStep \/ CliStops)
    BY CommandTouches
  <1> QED
    BY <1>1, <1>2 DEF Next, Ready, LoadConfig, Wait, LoadKey, StartWatch, Reset, Loop,
       SaveFails, Sync, FetchOk, FetchFails, StateKnown, PersistFails, PersistState,
       CheckFiles, ReloadOther, ReloadSame, PullFails, PullRefused, PullRevoked, PullOk,
       ApplyMaterial, ApplyFails, Take, NextPhase

(* Once it has no change before it, a session signs with the key on disk   *)
(* and works with the configuration on disk, provided that nothing was     *)
(* written while it started and no save of key material failed.            *)
THEOREM WorksWithFilesCorrect == Spec /\ [][Undisturbed]_vars => []WorksWithFiles
  <1>1. Init => NoticedInv
    BY DEF Init, NoticedInv, InSession
  <1>2. ServiceInv => TypeInv
    BY DEF ServiceInv
  <1>3. TypeInv /\ ChangedInv /\ NoticedInv /\ [Next]_vars /\ [Undisturbed]_vars => NoticedInv'
    <2> SUFFICES ASSUME TypeInv, ChangedInv, NoticedInv, [Next]_vars, [Undisturbed]_vars
                 PROVE  NoticedInv'
      OBVIOUS
    <2>1. CASE ~InSession
      BY <2>1, SessionBegins
    <2>2. CASE InSession /\ InSession'
      <3>1. ~ApplyFails \/ UNCHANGED vars
        BY DEF Undisturbed
      <3>2. KeyNoticed' /\ (ConfigNoticed' \/ ApplyFails)
        BY <2>2, NoticedStep DEF NoticedInv
      <3>3. UNCHANGED vars => ConfigNoticed'
        BY <2>2 DEF NoticedInv, ConfigNoticed, vars, files, service, local
      <3> QED
        BY <2>2, <3>1, <3>2, <3>3 DEF NoticedInv, InSession
    <2>3. CASE InSession /\ ~InSession'
      BY <2>3, SessionEnds DEF NoticedInv
    <2> QED
      BY <2>1, <2>2, <2>3
  <1>4. NoticedInv => WorksWithFiles
    BY DEF NoticedInv, KeyNoticed, ConfigNoticed, WorksWithFiles
  <1> QED
    BY <1>1, <1>2, <1>3, <1>4, ServiceInvariant, ChangedInvariant, PTL DEF Spec

===============================================================================
