------------------------------ MODULE KeyMaterial ------------------------------
(***************************************************************************)
(* The key the server signs its tasks with, as the agent follows it:       *)
(* apply_key_material with its continuity check (src/src/key_material.rs), *)
(* from pull responses and from update offers, and the keys a task is      *)
(* verified against (src/src/agent_run.rs, src/src/self_update.rs).  The   *)
(* release key is followed by the same code with an empty chain, which is  *)
(* this module with ChainLimit = 0.                                        *)
(*                                                                         *)
(* The server numbers its keys in the order it takes them into use.  Key n *)
(* comes with an attestation by key n - 1, with one that does not verify,  *)
(* or with none: a server that was set up again.                           *)
(***************************************************************************)
EXTENDS Naturals

CONSTANTS
  MaxServerKeys,   \* bound: keys of the server
  ChainLimit       \* attestations the server sends along at most

ASSUME ServerKeyAssumption ==
  /\ MaxServerKeys \in Nat \ {0}
  /\ ChainLimit \in Nat

VARIABLES
  serverKey,    \* server: its current key
  link,         \* server: how each key was attested
  taskKey,      \* the session's configuration: current and previous key
  savedKey,     \* config.toml: the same
  unseen,       \* config.toml was written since CredentialWatch looked
  (* history *)
  trusted,      \* keys accepted without a check, there being none before
  named         \* keys taken over unchecked because a server said previous

keyVars == <<serverKey, link, taskKey, savedKey, unseen, trusted, named>>

ServerKey == 1..MaxServerKeys
None      == 0

Config == [cur : ServerKey \cup {None}, prev : ServerKey \cup {None}]

(* Every variable has its type, and no key is previous to none.            *)
KeyTypeOK ==
  /\ serverKey \in ServerKey
  /\ link \in [ServerKey -> {"signed", "broken", "none"}]
  /\ {taskKey, savedKey} \subseteq Config
  /\ \A config \in {taskKey, savedKey} : config.cur = None => config.prev = None
  /\ unseen \in BOOLEAN
  /\ trusted \subseteq ServerKey /\ named \subseteq ServerKey

(* Enrolled with the server's first key, or by a server that had none.     *)
KeyInit ==
  /\ serverKey = 1
  /\ link = [n \in ServerKey |-> "none"]
  /\ \E k \in {None, 1} :
       /\ taskKey = [cur |-> k, prev |-> None]
       /\ trusted = {k} \ {None}
  /\ savedKey = taskKey
  /\ unseen = FALSE
  /\ named = {}

-------------------------------------------------------------------------------
(* What the server says about its keys.                                    *)

Attestation(n) ==
  [previous |-> n - 1, successor |-> n, verifies |-> link[n] = "signed"]

(* The attestations of its latest keys, as many as it sends this time, in  *)
(* the order of the keys: a key that was never attested has none.          *)
Chain(limit) ==
  LET Sent(n) == /\ link[n] # "none"
                 /\ n + limit > serverKey
  IN  [n \in {m \in 2..serverKey : Sent(m)} |-> Attestation(n)]

(* The previous key is advertised as long as tasks signed with it are      *)
(* about, together with its signature on the current one.                  *)
Material(overlapping, limit) ==
  [key      |-> serverKey,
   previous |-> IF overlapping THEN serverKey - 1 ELSE None,
   direct   |-> overlapping /\ link[serverKey] = "signed",
   chain    |-> Chain(limit)]

Materials == {Material(o, n) : o \in BOOLEAN, n \in 0..ChainLimit}

-------------------------------------------------------------------------------
(* apply_key_material                                                      *)

(* Where a walk ends that met an attestation that does not verify.         *)
Broken == None

(* Mutant: an attestation that does not verify is skipped.                 *)
FollowAnyway(cursor, attestation) ==
  IF attestation.previous = cursor THEN attestation.successor ELSE cursor

(* One step of the walk along the chain: attestations of other keys are    *)
(* passed over, one that does not verify ends the walk.                    *)
Follow(cursor, attestation) ==
  IF attestation.previous # cursor THEN cursor
  ELSE IF attestation.verifies THEN attestation.successor ELSE Broken

(* Mutant: only one attestation is followed.                               *)
WalkOne(start, target, chain) ==
  \E i \in DOMAIN chain : Follow(start, chain[i]) = target

(* Where the walk is after the attestations of the keys up to n: they are  *)
(* read once and in order, until the walk is at its target.                *)
Cursor(start, target, chain) ==
  LET at[n \in 0..MaxServerKeys] ==
        IF n = 0 THEN start
        ELSE IF n \in DOMAIN chain /\ at[n - 1] # target
             THEN Follow(at[n - 1], chain[n])
             ELSE at[n - 1]
  IN  at

Walk(start, target, chain) ==
  Cursor(start, target, chain)[MaxServerKeys] = target

(* accept_successor_key: the first key of all is taken as it is.           *)
Promotes(current, material) ==
  /\ current # material.key
  /\ \/ current = None
     \/ material.previous = current /\ material.direct
     \/ Walk(current, material.key, material.chain)

(* Whatever became of the current key, an advertised previous key is taken *)
(* over without a check, and tasks are verified against it as well.        *)
Applied(config, material) ==
  LET promoted == Promotes(config.cur, material)
      kept     == IF promoted /\ config.cur # None THEN config.cur ELSE config.prev
  IN  [cur  |-> IF promoted THEN material.key ELSE config.cur,
       prev |-> IF material.previous # None THEN material.previous ELSE kept]

Taken(config, material) ==
  IF config.cur = None THEN {material.key} ELSE {}

Named(material) == {material.previous} \ {None}

(* A pull response.  The session's configuration changes whether or not    *)
(* it can be saved; it is saved whole whenever anything changed, the end   *)
(* of the overlap, which is not followed here, included.                   *)
PullBringsMaterial ==
  \E material \in Materials :
    /\ taskKey' = Applied(taskKey, material)
    /\ \/ savedKey' = taskKey' /\ unseen' = TRUE
       \/ UNCHANGED <<savedKey, unseen>>
    /\ trusted' = trusted \cup Taken(taskKey, material)
    /\ named' = named \cup Named(material)
    /\ UNCHANGED <<serverKey, link>>

(* An update offer: agent.update applies it to a copy of the session's     *)
(* configuration, the command line to one it loaded; the copy is saved.    *)
OfferBringsMaterial ==
  \E material \in Materials, config \in {taskKey, savedKey} :
    /\ savedKey' = Applied(config, material)
    /\ unseen' = TRUE
    /\ trusted' = trusted \cup Taken(config, material)
    /\ named' = named \cup Named(material)
    /\ UNCHANGED <<serverKey, link, taskKey>>

(* CredentialWatch: a config.toml that changed is loaded again.            *)
ReloadConfig ==
  /\ taskKey' = IF unseen THEN savedKey ELSE taskKey
  /\ unseen' = FALSE
  /\ UNCHANGED <<serverKey, link, savedKey, trusted, named>>

(* A session starts from the file.                                         *)
LoadKeys ==
  /\ taskKey' = savedKey
  /\ unseen' = FALSE
  /\ UNCHANGED <<serverKey, link, savedKey, trusted, named>>

(* The server takes a new key into use.                                    *)
ServerRotates ==
  /\ serverKey < MaxServerKeys
  /\ serverKey' = serverKey + 1
  /\ \E how \in {"signed", "broken", "none"} :
       link' = [link EXCEPT ![serverKey'] = how]
  /\ UNCHANGED <<taskKey, savedKey, unseen, trusted, named>>

-------------------------------------------------------------------------------
(* Properties.                                                             *)

SignedAll(from, to) == \A n \in (from + 1)..to : link[n] = "signed"

(* A key that was taken over as the first of all, or was reached from one  *)
(* by signatures of each key on the next.                                  *)
Vouched(k) == \E t \in trusted : t <= k /\ SignedAll(t, k)

CurrentKeys  == {taskKey.cur, savedKey.cur} \ {None}
PreviousKeys == {taskKey.prev, savedKey.prev} \ {None}

(* Every current key, in memory or on disk, is vouched for, through failed *)
(* saves, copies saved by others, restarts and new servers.  Tasks are     *)
(* verified against the previous key as well: that one is vouched for too, *)
(* or else a server only said that it was its previous one, which nobody   *)
(* checks (apply_key_material, handle_task).                               *)
KeyLineage ==
  /\ \A k \in CurrentKeys : Vouched(k)
  /\ \A k \in PreviousKeys : Vouched(k) \/ k \in named

(* The walk, which reads the chain once and in order, accepts exactly the  *)
(* keys all of whose predecessors since the agent's are attested within    *)
(* what the server sends: an agent that was away for so long follows.      *)
ChainWalkCovers ==
  \A c \in 1..(serverKey - 1), o \in BOOLEAN, limit \in 0..ChainLimit :
    Promotes(c, Material(o, limit))
      <=> /\ SignedAll(c, serverKey)
          /\ \/ serverKey - c <= limit
             \/ serverKey - c = 1 /\ o

===============================================================================
