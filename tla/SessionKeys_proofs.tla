-------------------------- MODULE SessionKeys_proofs --------------------------
(***************************************************************************)
(* A session that follows the keys of the server rotates its own as if it  *)
(* did nothing else, so what is proved of the rotation holds of it; and    *)
(* every key of the server it verifies tasks with was reached by           *)
(* signatures, for the walk along a chain, a recursive function, returns   *)
(* what it should.                                                         *)
(***************************************************************************)
EXTENDS SessionKeys, CredentialRotation_proofs, WellFoundedInduction

(* Only steps of the rotation move the agent's own key.                    *)
LEMMA SessionStepRotates == [SessionNext]_sessionVars => [Next]_vars
  <1> SUFFICES ASSUME [SessionNext]_sessionVars PROVE [Next]_vars
    OBVIOUS
  <1> USE DEF Next, Session
  <1>1. CASE SessionStarts
    BY <1>1 DEF SessionStarts
  <1>2. CASE CheckFiles
    BY <1>2 DEF CheckFiles
  <1>3. CASE PullFails
    BY <1>3 DEF PullFails
  <1>4. CASE PullAnswered
    BY <1>4 DEF PullAnswered
  <1>5. CASE OwnKeyStep
    BY <1>5 DEF OwnKeyStep
  <1>6. CASE ServerKeyStep
    BY <1>6 DEF ServerKeyStep
  <1>7. CASE UNCHANGED sessionVars
    BY <1>7 DEF sessionVars
  <1> QED
    BY <1>1, <1>2, <1>3, <1>4, <1>5, <1>6, <1>7 DEF SessionNext

(* A pull session with key material from the server (agent_run.rs)         *)
(* implements the rotation of the agent's own key alone.                   *)
THEOREM SessionRotates == SessionSpec => Spec
  <1>1. SessionInit => Init
    BY DEF SessionInit
  <1> QED
    BY <1>1, SessionStepRotates, PTL DEF SessionSpec, Spec

(* No pull response, offer or reload in between takes the server's key for *)
(* the agent away from the host (rotate_agent_credential).                 *)
THEOREM SessionServerKeyCorrect == SessionSpec => []ServerKeyOnDisk
  BY SessionRotates, ServerKeyCorrect, PTL

(* The key a session signs its pulls with is the server's current or       *)
(* previous key for the agent, whatever its responses bring besides.       *)
THEOREM SessionOneBehindCorrect == SessionSpec => []AtMostOneBehind
  BY SessionRotates, OneBehindCorrect, PTL

(* A swap cut short by the end of a session leaves both keys beside the    *)
(* missing key file (rotate_agent_credential, the two renames).            *)
THEOREM SessionSwapCorrect == SessionSpec => []SwapRecoverable
  BY SessionRotates, SwapCorrect, PTL

(* In a session too the key file is swapped only to the key the server has *)
(* registered (rotate_agent_credential).                                   *)
THEOREM SessionKeyFileCorrect == SessionSpec => KeyFileFollowsServer
  BY SessionRotates, KeyFileCorrect, PTL

-------------------------------------------------------------------------------
(* The keys of the server.                                                 *)

(* Whatever the server sends, what is made of a configuration is one.      *)
LEMMA AppliedTypes ==
  ASSUME KeyTypeOK, NEW config \in Config, config.cur = None => config.prev = None,
         NEW material \in Materials
  PROVE  /\ Applied(config, material) \in Config
         /\ Applied(config, material).cur # None
         /\ Taken(config, material) \subseteq ServerKey
         /\ Named(material) \subseteq ServerKey
  <1>1. serverKey \in Nat \ {0} /\ serverKey \in ServerKey
    BY ServerKeyAssumption DEF KeyTypeOK, ServerKey
  <1>2. PICK o \in BOOLEAN, n \in 0..ChainLimit : material = Material(o, n)
    BY DEF Materials
  <1>3. /\ material.key = serverKey
        /\ material.previous \in {serverKey - 1, None}
    BY <1>2 DEF Material
  <1>4. material.previous \in ServerKey \cup {None}
    BY <1>1, <1>3, ServerKeyAssumption DEF ServerKey, None
  <1>5. config.cur = None => Promotes(config.cur, material)
    BY <1>1, <1>3 DEF Promotes, None
  <1>6. config.cur \in ServerKey \cup {None} /\ config.prev \in ServerKey \cup {None}
    BY DEF Config
  <1> DEFINE promoted == Promotes(config.cur, material)
             cur  == IF promoted THEN material.key ELSE config.cur
             kept == IF promoted /\ config.cur # None THEN config.cur ELSE config.prev
             prev == IF material.previous # None THEN material.previous ELSE kept
  <1>7. cur \in ServerKey /\ prev \in ServerKey \cup {None}
    <2> HIDE DEF promoted
    <2>1. config.cur = None => promoted
      BY <1>5 DEF promoted
    <2> QED
      BY <1>1, <1>3, <1>4, <1>6, <2>1
  <1>8. Applied(config, material) = [cur |-> cur, prev |-> prev]
    BY DEF Applied
  <1>9. cur # None
    BY <1>7 DEF ServerKey, None
  <1>10. Taken(config, material) \subseteq ServerKey
    BY <1>1, <1>3 DEF Taken
  <1>11. Named(material) \subseteq ServerKey
    BY <1>4 DEF Named
  <1> HIDE DEF cur, prev
  <1> QED
    BY <1>7, <1>8, <1>9, <1>10, <1>11 DEF Config

LEMMA KeyTypeStep == KeyTypeOK /\ [SessionNext]_sessionVars => KeyTypeOK'
  <1> SUFFICES ASSUME KeyTypeOK, [SessionNext]_sessionVars PROVE KeyTypeOK'
    OBVIOUS
  <1>1. CASE UNCHANGED keyVars
    BY <1>1 DEF keyVars, KeyTypeOK
  <1>2. CASE LoadKeys \/ ReloadConfig
    BY <1>2 DEF LoadKeys, ReloadConfig, KeyTypeOK
  <1>3. CASE PullBringsMaterial
    <2>1. taskKey \in Config /\ (taskKey.cur = None => taskKey.prev = None)
      BY DEF KeyTypeOK
    <2>2. PICK material \in Materials :
            /\ taskKey' = Applied(taskKey, material)
            /\ \/ savedKey' = taskKey' /\ unseen' = TRUE
               \/ UNCHANGED <<savedKey, unseen>>
            /\ trusted' = trusted \cup Taken(taskKey, material)
            /\ named' = named \cup Named(material)
            /\ UNCHANGED <<serverKey, link>>
      BY <1>3 DEF PullBringsMaterial
    <2>3. /\ taskKey' \in Config /\ taskKey'.cur # None
          /\ trusted' \subseteq ServerKey /\ named' \subseteq ServerKey
      BY <2>1, <2>2, AppliedTypes DEF KeyTypeOK
    <2> QED
      BY <2>2, <2>3 DEF KeyTypeOK
  <1>4. CASE OfferBringsMaterial
    <2>1. PICK material \in Materials, config \in {taskKey, savedKey} :
            /\ savedKey' = Applied(config, material)
            /\ unseen' = TRUE
            /\ trusted' = trusted \cup Taken(config, material)
            /\ named' = named \cup Named(material)
            /\ UNCHANGED <<serverKey, link, taskKey>>
      BY <1>4 DEF OfferBringsMaterial
    <2>2. config \in Config /\ (config.cur = None => config.prev = None)
      BY DEF KeyTypeOK
    <2>3. /\ savedKey' \in Config /\ savedKey'.cur # None
          /\ trusted' \subseteq ServerKey /\ named' \subseteq ServerKey
      BY <2>1, <2>2, AppliedTypes DEF KeyTypeOK
    <2> QED
      BY <2>1, <2>3 DEF KeyTypeOK
  <1>5. CASE ServerRotates
    BY <1>5, ServerKeyAssumption DEF ServerRotates, KeyTypeOK, ServerKey
  <1> QED
    BY <1>1, <1>2, <1>3, <1>4, <1>5
       DEF SessionNext, sessionVars, SessionStarts, CheckFiles, PullFails,
           PullAnswered, OwnKeyStep, ServerKeyStep

(* The agent's own keys are drawn ones, and the keys it verifies tasks     *)
(* with, in memory and in config.toml, are keys of the server, none of     *)
(* them previous to nothing (key_material.rs).                             *)
THEOREM SessionTypeCorrect == SessionSpec => []SessionTypeOK
  <1>1. SessionInit => KeyTypeOK
    <2> SUFFICES ASSUME KeyInit PROVE KeyTypeOK
      BY DEF SessionInit
    <2>1. 1 \in ServerKey
      BY ServerKeyAssumption DEF ServerKey
    <2>2. PICK k \in {None, 1} : /\ taskKey = [cur |-> k, prev |-> None]
                               /\ trusted = {k} \ {None}
      BY DEF KeyInit
    <2>3. taskKey \in Config /\ taskKey.prev = None
      BY <2>1, <2>2 DEF Config
    <2>4. trusted \subseteq ServerKey
      BY <2>1, <2>2
    <2> QED
      BY <2>1, <2>3, <2>4 DEF KeyInit, KeyTypeOK
  <1>2. SessionSpec => []KeyTypeOK
    BY <1>1, KeyTypeStep, PTL DEF SessionSpec
  <1>3. TypeOK /\ KeyTypeOK => SessionTypeOK
    BY DEF SessionTypeOK
  <1> QED
    BY <1>2, <1>3, SessionRotates, TypeCorrect, PTL

-------------------------------------------------------------------------------
(* Recursion.  The equation of a recursive function has to be shown before *)
(* it can be used, and what the function returns is shown by the least     *)
(* number for which it would return something else.                        *)

(* Every set of numbers has a least one.                                   *)
LEMMA LeastNumber ==
  ASSUME NEW T \in SUBSET Nat, T # {}
  PROVE  \E m \in T : \A k \in T : m <= k
  <1> DEFINE R == OpToRel(<, Nat)
  <1>1. PICK m \in T : \A k \in T : <<k, m>> \notin R
    <2>1. IsWellFoundedOn(R, Nat)
      BY NatLessThanWellFounded, Zenon
    <2> HIDE DEF R
    <2> QED
      BY <2>1, WFMin
  <1>2. \A k \in T : ~(k < m)
    BY <1>1 DEF OpToRel
  <1> QED
    BY <1>2

(* A property of numbers that passes from each to the next holds up to N.  *)
LEMMA UpTo ==
  ASSUME NEW N \in Nat, NEW S, 0 \in S,
         \A n \in 1..N : n - 1 \in S => n \in S
  PROVE  0..N \subseteq S
  <1> DEFINE T == (0..N) \ S
  <1> SUFFICES ASSUME T # {} PROVE FALSE
    OBVIOUS
  <1>1. PICK m \in T : \A k \in T : m <= k
    <2>1. T \in SUBSET Nat
      OBVIOUS
    <2> HIDE DEF T
    <2> QED
      BY <2>1, LeastNumber
  <1>2. m \in 1..N /\ m - 1 \in 0..N
    BY <1>1
  <1>3. m - 1 \in S
    BY <1>1, <1>2
  <1> QED
    BY <1>1, <1>2, <1>3

(* The walk is defined: its cursor is what walk_continuity_chain computes. *)
LEMMA CursorDefined ==
  ASSUME NEW start, NEW target, NEW chain, NEW n \in 0..MaxServerKeys
  PROVE  LET at == Cursor(start, target, chain)
         IN  at[n] = IF n = 0 THEN start
                     ELSE IF n \in DOMAIN chain /\ at[n - 1] # target
                          THEN Follow(at[n - 1], chain[n])
                          ELSE at[n - 1]
  <1> DEFINE Def(f, i) == IF i = 0 THEN start
                          ELSE IF i \in DOMAIN chain /\ f[i - 1] # target
                               THEN Follow(f[i - 1], chain[i])
                               ELSE f[i - 1]
             Defined == {k \in Nat : \E f : f = [i \in 0..k |-> Def(f, i)]}
  <1>0. MaxServerKeys \in Nat
    BY ServerKeyAssumption
  <1>1. 0 \in Defined
    <2> DEFINE f == [i \in 0..0 |-> start]
    <2>1. f = [i \in 0..0 |-> Def(f, i)]
      OBVIOUS
    <2> QED
      BY <2>1
  <1>2. ASSUME NEW k \in 1..MaxServerKeys, k - 1 \in Defined
        PROVE  k \in Defined
    <2>1. PICK f : f = [i \in 0..(k - 1) |-> Def(f, i)]
      BY <1>2
    <2> DEFINE g == [i \in 0..k |-> IF i = k THEN Def(f, k) ELSE f[i]]
    <2>2. ASSUME NEW i \in 0..k PROVE g[i] = Def(g, i)
      <3>1. i # 0 => i - 1 \in 0..(k - 1)
        BY <1>2
      <3>2. i # 0 => g[i - 1] = f[i - 1]
        BY <3>1
      <3>3. Def(g, i) = Def(f, i)
        BY <3>2
      <3>4. i # k => f[i] = Def(f, i)
        <4> HIDE DEF Def
        <4> QED
          BY <2>1
      <3> HIDE DEF Def
      <3> QED
        BY <3>3, <3>4
    <2>3. g = [i \in 0..k |-> g[i]]
      OBVIOUS
    <2> HIDE DEF g, Def
    <2>4. g = [i \in 0..k |-> Def(g, i)]
      BY <2>2, <2>3
    <2> QED
      BY <1>2, <2>4
  <1>3. MaxServerKeys \in Defined
    <2> HIDE DEF Defined
    <2>1. 0..MaxServerKeys \subseteq Defined
      BY <1>0, <1>1, <1>2, UpTo
    <2> QED
      BY <1>0, <2>1
  <1> DEFINE at == Cursor(start, target, chain)
  <1>4. at = CHOOSE f : f = [i \in 0..MaxServerKeys |-> Def(f, i)]
    BY DEF Cursor
  <1>5. at = [i \in 0..MaxServerKeys |-> Def(at, i)]
    <2> HIDE DEF at, Def
    <2> QED
    BY <1>3, <1>4
  <1>6. at[n] = Def(at, n)
    <2> HIDE DEF at, Def
    <2> QED
    BY <1>5
  <1> QED
    BY <1>6

(* What the walk meets at the number n: the attestation of key n, which    *)
(* moves only a cursor that is at the key before.                          *)
LEMMA ChainEntry ==
  ASSUME KeyTypeOK, NEW limit \in Nat, NEW n \in 1..MaxServerKeys, NEW cursor
  PROVE  /\ n \in DOMAIN Chain(limit)
              <=> n \in 2..serverKey /\ link[n] # "none" /\ serverKey - n < limit
         /\ n \in DOMAIN Chain(limit) =>
              Follow(cursor, Chain(limit)[n]) =
                IF cursor # n - 1 THEN cursor
                ELSE IF link[n] = "signed" THEN n ELSE Broken
  <1>1. serverKey \in 1..MaxServerKeys /\ MaxServerKeys \in Nat
    BY ServerKeyAssumption DEF KeyTypeOK, ServerKey
  <1>2. n \in DOMAIN Chain(limit)
          <=> n \in 2..serverKey /\ link[n] # "none" /\ serverKey - n < limit
    BY <1>1 DEF Chain
  <1>3. n \in DOMAIN Chain(limit) => Chain(limit)[n] = Attestation(n)
    BY DEF Chain
  <1>4. /\ Attestation(n).previous = n - 1
        /\ Attestation(n).successor = n
        /\ Attestation(n).verifies <=> link[n] = "signed"
    BY Zenon DEF Attestation
  <1>5. Follow(cursor, Attestation(n)) =
          IF cursor # n - 1 THEN cursor
          ELSE IF link[n] = "signed" THEN n ELSE Broken
    BY <1>4 DEF Follow
  <1> QED
    BY <1>2, <1>3, <1>5

(* Signatures that join on.                                                *)
LEMMA SignedJoins ==
  ASSUME KeyTypeOK, NEW a \in Nat, NEW b \in Nat, NEW c \in Nat,
         a <= b, b <= c, SignedAll(a, b), SignedAll(b, c)
  PROVE  SignedAll(a, c)
  BY DEF SignedAll

(* Where the walk from an older key can be: it has gone from key to key    *)
(* by signatures, within what is sent, or it has broken off.               *)
LEMMA CursorSound ==
  ASSUME KeyTypeOK, NEW limit \in Nat, NEW c \in 1..(serverKey - 1)
  PROVE  LET k == Cursor(c, serverKey, Chain(limit))[MaxServerKeys]
         IN  k = serverKey => SignedAll(c, serverKey) /\ serverKey - c <= limit
  <1> DEFINE at == Cursor(c, serverKey, Chain(limit))
             Reached(k, n) == /\ k \in c..serverKey
                              /\ k = c \/ k <= n
                              /\ SignedAll(c, k)
                              /\ k # c => serverKey - c <= limit
             S == {n \in Nat : at[n] = Broken \/ Reached(at[n], n)}
  <1>1. serverKey \in 1..MaxServerKeys /\ MaxServerKeys \in Nat
    BY ServerKeyAssumption DEF KeyTypeOK, ServerKey
  <1>2. 0 \in S
    <2>1. at[0] = c
      BY <1>1, CursorDefined
    <2>2. SignedAll(c, c)
      BY DEF SignedAll
    <2> QED
      BY <1>1, <2>1, <2>2
  <1>3. ASSUME NEW n \in 1..MaxServerKeys, n - 1 \in S
        PROVE  n \in S
    <2>1. at[n] = IF n \in DOMAIN Chain(limit) /\ at[n - 1] # serverKey
                  THEN Follow(at[n - 1], Chain(limit)[n])
                  ELSE at[n - 1]
      BY CursorDefined
    <2> HIDE DEF at
    <2>2. at[n - 1] = Broken \/ Reached(at[n - 1], n - 1)
      BY <1>3
    <2>3. CASE at[n] = at[n - 1]
      BY <1>3, <2>2, <2>3
    <2>4. CASE at[n] # at[n - 1]
      <3>1. /\ n \in 2..serverKey /\ serverKey - n < limit
            /\ at[n - 1] = n - 1
            /\ at[n] = IF link[n] = "signed" THEN n ELSE Broken
        BY <2>1, <2>4, ChainEntry
      <3>2. n - 1 # Broken
        BY <3>1 DEF Broken, None
      <3>3. Reached(n - 1, n - 1)
        BY <2>2, <3>1, <3>2
      <3>4. link[n] = "signed" => SignedAll(c, n)
        BY <3>1, <3>3 DEF SignedAll
      <3>5. serverKey - c <= limit
        BY <1>1, <3>1, <3>3
      <3> QED
        BY <1>1, <3>1, <3>3, <3>4, <3>5
    <2> QED
      BY <2>3, <2>4
  <1>4. MaxServerKeys \in S
    <2> HIDE DEF S
    <2>1. 0..MaxServerKeys \subseteq S
      BY <1>1, <1>2, <1>3, UpTo
    <2> QED
      BY <1>1, <2>1
  <1>5. serverKey # Broken /\ serverKey # c
    BY <1>1 DEF Broken, None
  <1> QED
    BY <1>4, <1>5

(* And where it is when all the signatures are sent.                       *)
LEMMA CursorComplete ==
  ASSUME KeyTypeOK, NEW limit \in Nat, NEW c \in 1..(serverKey - 1),
         SignedAll(c, serverKey), serverKey - c <= limit
  PROVE  Cursor(c, serverKey, Chain(limit))[MaxServerKeys] = serverKey
  <1> DEFINE at == Cursor(c, serverKey, Chain(limit))
             place(n) == IF n <= c THEN c ELSE IF n <= serverKey THEN n ELSE serverKey
             S == {n \in Nat : at[n] = place(n)}
  <1>1. serverKey \in 1..MaxServerKeys /\ MaxServerKeys \in Nat
    BY ServerKeyAssumption DEF KeyTypeOK, ServerKey
  <1>2. 0 \in S
    BY <1>1, CursorDefined
  <1>3. ASSUME NEW n \in 1..MaxServerKeys, n - 1 \in S
        PROVE  n \in S
    <2>1. at[n] = IF n \in DOMAIN Chain(limit) /\ at[n - 1] # serverKey
                  THEN Follow(at[n - 1], Chain(limit)[n])
                  ELSE at[n - 1]
      BY CursorDefined
    <2> HIDE DEF at
    <2>2. at[n - 1] = place(n - 1)
      BY <1>3
    <2>3. CASE n <= c
      <3>1. at[n - 1] = c
        BY <2>2, <2>3
      <3>2. n \in DOMAIN Chain(limit) => Follow(c, Chain(limit)[n]) = c
        BY <1>1, <2>3, ChainEntry
      <3> QED
        BY <2>1, <2>3, <3>1, <3>2
    <2>4. CASE n \in (c + 1)..serverKey
      <3>1. at[n - 1] = n - 1
        BY <1>1, <2>2, <2>4
      <3>2. link[n] = "signed"
        BY <2>4 DEF SignedAll
      <3>3. n \in DOMAIN Chain(limit)
        BY <1>1, <2>4, <3>2, ChainEntry
      <3>4. Follow(n - 1, Chain(limit)[n]) = n
        BY <3>2, <3>3, ChainEntry
      <3> QED
        BY <1>1, <2>1, <2>4, <3>1, <3>3, <3>4
    <2>5. CASE n > serverKey
      BY <1>1, <2>1, <2>2, <2>5
    <2> QED
      BY <1>1, <2>3, <2>4, <2>5
  <1>4. MaxServerKeys \in S
    <2> HIDE DEF S
    <2>1. 0..MaxServerKeys \subseteq S
      BY <1>1, <1>2, <1>3, UpTo
    <2> QED
      BY <1>1, <2>1
  <1> QED
    BY <1>1, <1>4

(* The walk accepts what is signed throughout and sent, and nothing else.  *)
LEMMA WalkCovers ==
  ASSUME KeyTypeOK, NEW limit \in Nat, NEW c \in 1..(serverKey - 1)
  PROVE  Walk(c, serverKey, Chain(limit))
           <=> SignedAll(c, serverKey) /\ serverKey - c <= limit
  BY CursorSound, CursorComplete DEF Walk

LEMMA PromotesCovers == KeyTypeOK => ChainWalkCovers
  <1> SUFFICES ASSUME KeyTypeOK,
                      NEW c \in 1..(serverKey - 1), NEW o \in BOOLEAN,
                      NEW limit \in 0..ChainLimit
               PROVE  Promotes(c, Material(o, limit))
                        <=> /\ SignedAll(c, serverKey)
                            /\ \/ serverKey - c <= limit
                               \/ serverKey - c = 1 /\ o
    BY DEF ChainWalkCovers
  <1>1. serverKey \in 1..MaxServerKeys /\ MaxServerKeys \in Nat /\ limit \in Nat
    BY ServerKeyAssumption DEF KeyTypeOK, ServerKey
  <1> DEFINE material == Material(o, limit)
             direct == material.previous = c /\ material.direct
  <1>2. /\ material.key = serverKey /\ material.chain = Chain(limit)
        /\ direct <=> serverKey - c = 1 /\ o /\ link[serverKey] = "signed"
    <2>1. /\ material.key = serverKey /\ material.chain = Chain(limit)
          /\ material.previous = IF o THEN serverKey - 1 ELSE None
          /\ material.direct <=> o /\ link[serverKey] = "signed"
      BY Zenon DEF Material
    <2> HIDE DEF material
    <2> QED
      BY <1>1, <2>1 DEF None
  <1>3. serverKey - c = 1 => (SignedAll(c, serverKey) <=> link[serverKey] = "signed")
    BY <1>1 DEF SignedAll
  <1>4. Promotes(c, material) <=> direct \/ Walk(c, serverKey, Chain(limit))
    <2> HIDE DEF material
    <2> QED
      BY <1>1, <1>2 DEF Promotes, None
  <1>5. Promotes(c, material)
          <=> /\ SignedAll(c, serverKey)
              /\ \/ serverKey - c <= limit
                 \/ serverKey - c = 1 /\ o
    <2> HIDE DEF material, direct
    <2> QED
      BY <1>1, <1>2, <1>3, <1>4, WalkCovers
  <1> QED
    BY <1>5

(* The chain walk accepts exactly the keys all of whose predecessors since *)
(* the agent's are attested within what the server sends, however long the *)
(* chain and however the server's keys came about (walk_continuity_chain). *)
THEOREM ChainWalkCorrect == SessionSpec => []ChainWalkCovers
  <1>1. SessionTypeOK => ChainWalkCovers
    BY PromotesCovers DEF SessionTypeOK
  <1> QED
    BY <1>1, SessionTypeCorrect, PTL

(* Only an agent that has the key before follows, and only while the       *)
(* overlap is advertised.                                                  *)
OverlapNeeded ==
  \A c \in 1..(serverKey - 1), o \in BOOLEAN :
    Promotes(c, Material(o, 0))
      <=> o /\ c = serverKey - 1 /\ link[serverKey] = "signed"

(* Without a chain, which is how the release key is followed               *)
(* (apply_key_material passes an empty one), an agent that was away for    *)
(* more than one key, or past the overlap, follows no more.                *)
THEOREM NoChainNeedsOverlap == SessionSpec => []OverlapNeeded
  <1>1. SessionTypeOK => OverlapNeeded
    <2> SUFFICES ASSUME SessionTypeOK,
                        NEW c \in 1..(serverKey - 1), NEW o \in BOOLEAN
                 PROVE  Promotes(c, Material(o, 0))
                          <=> o /\ c = serverKey - 1 /\ link[serverKey] = "signed"
      BY DEF OverlapNeeded
    <2>1. serverKey \in Nat
      BY DEF SessionTypeOK, KeyTypeOK, ServerKey
    <2>2. Promotes(c, Material(o, 0))
            <=> /\ SignedAll(c, serverKey)
                /\ \/ serverKey - c <= 0
                   \/ serverKey - c = 1 /\ o
      BY PromotesCovers, ServerKeyAssumption DEF SessionTypeOK, ChainWalkCovers
    <2>3. serverKey - c = 1 => (SignedAll(c, serverKey) <=> link[serverKey] = "signed")
      BY <2>1 DEF SignedAll
    <2> QED
      BY <2>1, <2>2, <2>3
  <1> QED
    BY <1>1, SessionTypeCorrect, PTL

-------------------------------------------------------------------------------
(* KeyLineage needs to know that nobody has a key the server has yet to    *)
(* take into use, for how that one will be attested is open.               *)
NoneAhead ==
  /\ CurrentKeys \cup PreviousKeys \subseteq 1..serverKey
  /\ trusted \subseteq 1..serverKey

LineageInv == KeyTypeOK /\ NoneAhead /\ KeyLineage

(* Vouched for by one of the keys in from.                                 *)
Descends(k, from) == \E t \in from : t <= k /\ SignedAll(t, k)

(* A configuration whose current key is vouched for is made into one whose *)
(* current key is, too; the previous key is one of those it had before, or *)
(* the one that is named.                                                  *)
LEMMA AppliedDescends ==
  ASSUME LineageInv, NEW config \in {taskKey, savedKey}, NEW material \in Materials,
         NEW made, made = Applied(config, material),
         NEW now, now = trusted \cup Taken(config, material)
  PROVE  /\ made.cur \in 1..serverKey
         /\ Taken(config, material) \subseteq 1..serverKey
         /\ Descends(made.cur, now)
         /\ made.prev \in {config.cur, config.prev, None} \cup Named(material)
         /\ Named(material) \subseteq 1..serverKey
  <1> DEFINE c   == config.cur
             cur == made.cur
  <1>1. serverKey \in 1..MaxServerKeys /\ MaxServerKeys \in Nat
    BY ServerKeyAssumption DEF LineageInv, KeyTypeOK, ServerKey
  <1>2. PICK o \in BOOLEAN, limit \in 0..ChainLimit : material = Material(o, limit)
    BY DEF Materials
  <1>3. material.key = serverKey /\ material.previous \in {serverKey - 1, None}
    BY <1>2 DEF Material
  <1>4. c \in 0..serverKey
    <2>1. c = None \/ c \in CurrentKeys
      BY DEF CurrentKeys
    <2> QED
      BY <1>1, <2>1 DEF LineageInv, NoneAhead, None
  <1>5. cur = IF Promotes(c, material) THEN serverKey ELSE c
    BY <1>3 DEF Applied
  <1>6. made.prev \in {config.cur, config.prev, None} \cup Named(material)
    BY DEF Applied, Named
  <1>7. Named(material) \subseteq 1..serverKey
    BY <1>1, <1>3 DEF Named, None
  <1>8. CASE c = None
    <2>1. cur = serverKey /\ now = trusted \cup {serverKey}
      BY <1>1, <1>3, <1>5, <1>8 DEF Promotes, Taken, None
    <2>2. SignedAll(serverKey, serverKey)
      BY <1>1 DEF SignedAll
    <2>3. Taken(config, material) \subseteq {serverKey}
      BY <1>3 DEF Taken
    <2> QED
      BY <1>1, <1>6, <1>7, <2>1, <2>2, <2>3 DEF Descends
  <1>9. CASE c # None
    <2>1. now = trusted /\ Taken(config, material) = {}
      BY <1>9 DEF Taken
    <2>2. PICK t \in trusted : t <= c /\ SignedAll(t, c)
      BY <1>9 DEF LineageInv, KeyLineage, CurrentKeys, Vouched
    <2>3. t \in 1..serverKey
      BY DEF LineageInv, NoneAhead
    <2>4. CASE ~Promotes(c, material)
      <3>1. cur = c
        BY <1>5, <2>4
      <3> QED
        BY <1>1, <1>4, <1>6, <1>7, <1>9, <2>1, <2>2, <3>1 DEF Descends, None
    <2>5. CASE Promotes(c, material)
      <3>1. c \in 1..(serverKey - 1)
        BY <1>1, <1>3, <1>4, <1>9, <2>5 DEF Promotes, None
      <3>2. SignedAll(c, serverKey)
        BY <1>2, <2>5, <3>1, PromotesCovers DEF LineageInv, ChainWalkCovers
      <3>3. SignedAll(t, serverKey)
        BY <1>1, <2>2, <2>3, <3>1, <3>2, SignedJoins DEF LineageInv
      <3>4. cur = serverKey
        BY <1>5, <2>5
      <3> QED
        BY <1>1, <1>6, <1>7, <2>1, <2>3, <3>3, <3>4 DEF Descends
    <2> QED
      BY <2>4, <2>5
  <1> QED
    BY <1>8, <1>9

(* What was vouched for stays so: a new key of the server does not change  *)
(* how the earlier ones were attested, and nobody is no longer trusted.    *)
LEMMA VouchedStays ==
  ASSUME KeyTypeOK, NoneAhead, NEW k \in 1..serverKey, Vouched(k),
         trusted \subseteq trusted',
         \A n \in 1..serverKey : link'[n] = link[n]
  PROVE  Vouched(k)'
  <1>1. PICK t \in trusted : t <= k /\ SignedAll(t, k)
    BY DEF Vouched
  <1>2. t \in 1..serverKey /\ serverKey \in Nat
    BY ServerKeyAssumption DEF NoneAhead, KeyTypeOK, ServerKey
  <1>3. SignedAll(t, k)'
    BY <1>1, <1>2 DEF SignedAll
  <1> QED
    BY <1>1, <1>3 DEF Vouched

(* One configuration is replaced by what is made of it or of the other.    *)
LEMMA LineageOfMade ==
  ASSUME LineageInv, UNCHANGED <<serverKey, link>>,
         NEW config \in {taskKey, savedKey}, NEW material \in Materials,
         NEW made, made = Applied(config, material),
         {taskKey', savedKey'} \subseteq {taskKey, savedKey, made},
         trusted' = trusted \cup Taken(config, material),
         named' = named \cup Named(material)
  PROVE  NoneAhead' /\ KeyLineage'
  <1>0. KeyTypeOK /\ NoneAhead /\ KeyLineage
    BY DEF LineageInv
  <1>1. /\ made.cur \in 1..serverKey
        /\ Taken(config, material) \subseteq 1..serverKey
        /\ Descends(made.cur, trusted')
        /\ made.prev \in {config.cur, config.prev, None} \cup Named(material)
        /\ Named(material) \subseteq 1..serverKey
    BY AppliedDescends
  <1>2. CurrentKeys' \subseteq CurrentKeys \cup {made.cur}
    BY DEF CurrentKeys
  <1>3. PreviousKeys' \subseteq PreviousKeys \cup CurrentKeys \cup Named(material)
    BY <1>1 DEF PreviousKeys, CurrentKeys
  <1>4. NoneAhead'
    BY <1>0, <1>1, <1>2, <1>3 DEF NoneAhead
  <1>5. ASSUME NEW k \in 1..serverKey, Vouched(k)
        PROVE  Vouched(k)'
    BY <1>0, <1>5, VouchedStays
  <1>6. ASSUME NEW k \in CurrentKeys'
        PROVE  Vouched(k)'
    <2>1. CASE k = made.cur
      BY <1>1, <2>1 DEF Descends, Vouched, SignedAll
    <2>2. CASE k \in CurrentKeys
      BY <1>0, <1>5, <2>2 DEF NoneAhead, KeyLineage
    <2> QED
      BY <1>2, <2>1, <2>2
  <1>7. ASSUME NEW k \in PreviousKeys'
        PROVE  Vouched(k)' \/ k \in named'
    <2>1. CASE k \in Named(material)
      BY <2>1
    <2>2. CASE k \in PreviousKeys \cup CurrentKeys
      <3>1. k \in 1..serverKey /\ (Vouched(k) \/ k \in named)
        BY <1>0, <2>2 DEF NoneAhead, KeyLineage
      <3> QED
        BY <1>5, <3>1
    <2> QED
      BY <1>3, <2>1, <2>2
  <1> QED
    BY <1>4, <1>6, <1>7 DEF KeyLineage

LEMMA LineageStep ==
  LineageInv /\ KeyTypeOK' /\ [SessionNext]_sessionVars => LineageInv'
  <1> SUFFICES ASSUME LineageInv, KeyTypeOK', [SessionNext]_sessionVars
               PROVE  NoneAhead' /\ KeyLineage'
    BY DEF LineageInv
  <1>0. /\ KeyTypeOK /\ NoneAhead /\ KeyLineage
        /\ serverKey \in Nat /\ serverKey' \in Nat
    BY ServerKeyAssumption DEF LineageInv, KeyTypeOK, ServerKey
  <1>1. CASE UNCHANGED keyVars
    BY <1>0, <1>1
       DEF keyVars, NoneAhead, KeyLineage, CurrentKeys, PreviousKeys, Vouched, SignedAll
  <1>2. CASE LoadKeys \/ ReloadConfig
    <2>1. /\ CurrentKeys' \subseteq CurrentKeys /\ PreviousKeys' \subseteq PreviousKeys
          /\ UNCHANGED <<serverKey, link, trusted, named>>
      BY <1>2 DEF LoadKeys, ReloadConfig, CurrentKeys, PreviousKeys
    <2> QED
      BY <1>0, <2>1 DEF NoneAhead, KeyLineage, Vouched, SignedAll
  <1>3. CASE PullBringsMaterial
    <2>1. PICK material \in Materials :
            /\ taskKey' = Applied(taskKey, material)
            /\ \/ savedKey' = taskKey' /\ unseen' = TRUE
               \/ UNCHANGED <<savedKey, unseen>>
            /\ trusted' = trusted \cup Taken(taskKey, material)
            /\ named' = named \cup Named(material)
            /\ UNCHANGED <<serverKey, link>>
      BY <1>3 DEF PullBringsMaterial
    <2> QED
      BY <2>1, LineageOfMade
  <1>4. CASE OfferBringsMaterial
    <2>1. PICK material \in Materials, config \in {taskKey, savedKey} :
            /\ savedKey' = Applied(config, material)
            /\ unseen' = TRUE
            /\ trusted' = trusted \cup Taken(config, material)
            /\ named' = named \cup Named(material)
            /\ UNCHANGED <<serverKey, link, taskKey>>
      BY <1>4 DEF OfferBringsMaterial
    <2> QED
      BY <2>1, LineageOfMade
  <1>5. CASE ServerRotates
    <2>1. /\ serverKey' = serverKey + 1
          /\ \A n \in 1..serverKey : link'[n] = link[n]
          /\ UNCHANGED <<taskKey, savedKey, unseen, trusted, named>>
      BY <1>0, <1>5 DEF ServerRotates, KeyTypeOK, ServerKey
    <2>2. CurrentKeys' = CurrentKeys /\ PreviousKeys' = PreviousKeys
      BY <2>1 DEF CurrentKeys, PreviousKeys
    <2>3. ASSUME NEW k \in CurrentKeys \cup PreviousKeys, Vouched(k)
          PROVE  Vouched(k)'
      <3>1. k \in 1..serverKey
        BY <1>0 DEF NoneAhead
      <3> QED
        BY <1>0, <2>1, <2>3, <3>1, VouchedStays
    <2>4. NoneAhead'
      BY <1>0, <2>1, <2>2 DEF NoneAhead
    <2>5. KeyLineage'
      BY <1>0, <2>1, <2>2, <2>3 DEF KeyLineage
    <2> QED
      BY <2>4, <2>5
  <1> QED
    BY <1>1, <1>2, <1>3, <1>4, <1>5
       DEF SessionNext, sessionVars, SessionStarts, CheckFiles, PullFails,
           PullAnswered, OwnKeyStep, ServerKeyStep

(* The current key, in memory and in config.toml, was reached by           *)
(* signatures from one that was taken as the first, and so was the         *)
(* previous key tasks are also verified against unless a server just named *)
(* it: through failed saves, copies saved by an update, restarts and new   *)
(* servers, for every number of keys and length of chain                   *)
(* (apply_key_material).                                                   *)
THEOREM LineageCorrect == SessionSpec => []KeyLineage
  <1>1. SessionInit => NoneAhead /\ KeyLineage
    <2> SUFFICES ASSUME KeyInit PROVE NoneAhead /\ KeyLineage
      BY DEF SessionInit
    <2>1. PICK k \in {None, 1} : /\ taskKey = [cur |-> k, prev |-> None]
                                 /\ trusted = {k} \ {None}
      BY DEF KeyInit
    <2>2. serverKey = 1 /\ CurrentKeys = {k} \ {None} /\ PreviousKeys = {}
      BY <2>1 DEF KeyInit, CurrentKeys, PreviousKeys
    <2> QED
      BY <2>1, <2>2 DEF NoneAhead, KeyLineage, Vouched, SignedAll, None
  <1>2. KeyTypeOK /\ NoneAhead /\ KeyLineage <=> LineageInv
    BY DEF LineageInv
  <1>3. SessionTypeOK => KeyTypeOK
    BY DEF SessionTypeOK
  <1> QED
    BY <1>1, <1>2, <1>3, SessionTypeCorrect, LineageStep, PTL DEF SessionSpec

===============================================================================
