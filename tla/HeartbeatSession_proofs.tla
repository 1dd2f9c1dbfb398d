----------------------- MODULE HeartbeatSession_proofs -----------------------
(***************************************************************************)
(* The safety of HeartbeatSession for every number of commands, tag sets,  *)
(* tasks in a response and failure limits: its types, that a stop is       *)
(* justified, that no heartbeat revives a command, and where tag sets go.  *)
(***************************************************************************)
EXTENDS HeartbeatSession, TLAPS

(* What keeps the two failure counters and the stop flag together.         *)
StopInv ==
  /\ loopPc \in {"gui", "proxmox", "pull"} => failures < MaxPullFailures
  /\ hbPc \notin {"giveUp", "done"} => hbFailures < MaxHeartbeatFailures
  /\ hbFailures <= hbRun
  /\ hbPc = "giveUp" => hbRun = MaxHeartbeatFailures
  /\ stop /\ loopPc \notin {"join", "ended"} =>
       hbRun = MaxHeartbeatFailures /\ hbPc = "done"

(* What the pull loop's flag and id say to a snapshot taken in two reads.  *)
GhostInv ==
  /\ busy => loopPc \in {"setId", "run"}
  /\ commandId # NoId => loopPc \in {"run", "clearId"} /\ commandId = running
  /\ hbPc = "readBusy" => msg.id = NoId
  /\ hbPc = "readId" /\ loopPc \in {"setId", "run", "clearId"} /\ running # NoId =>
       running \in seen
  /\ NoGhostCommand

(* Where the tag sets are, by age: the server's and those of failed heart- *)
(* beats, the message's, the queue's.                                      *)
Older(a, b) == a # NoTags /\ b # NoTags => a < b

Carried ==
  IF hbPc \in {"readBusy", "readId", "readPull", "send"} THEN msg.tags ELSE NoTags

TagsInv ==
  /\ Older(serverTags, Carried)
  /\ Older(serverTags, pendingTags)
  /\ Older(Carried, pendingTags)
  /\ startupTags # NoTags => serverTags = NoTags /\ Carried = NoTags
  /\ startupTags \in {0, NoTags} /\ pendingTags # 0
  /\ pendingTags # NoTags => pendingTags = newest
  /\ \A t \in {serverTags, Carried, startupTags} \ {NoTags} : newest # NoTags /\ t <= newest
  /\ \A t \in late : Older(t, Carried) /\ Older(t, pendingTags) /\ newest # NoTags /\ t <= newest
  /\ startupTags # NoTags => late = {}
  /\ TagsAccounted

(* Every step keeps the types; the strict bounds of StopInv keep the two   *)
(* counters inside theirs.                                                 *)
LEMMA TypeStep ==
  TypeOK /\ StopInv /\ [Next]_vars => TypeOK'
  <1> SUFFICES ASSUME TypeOK, StopInv, [Next]_vars PROVE TypeOK'
    OBVIOUS
  <1> USE DEF loopVars, hbVars, wireVars, tagVars, workVars, failVars, clockVars
  <1>1. CASE LoopTop
    BY <1>1 DEF LoopTop, LoopTo, ShouldReset, TypeOK, LoopPCs
  <1>2. CASE Leave
    BY <1>2 DEF Leave, TypeOK, LoopPCs
  <1>3. CASE RefreshTags("gui", "proxmox")
    BY <1>3 DEF RefreshTags, LoopTo, TypeOK, LoopPCs, TagSets
  <1>4. CASE RefreshTags("proxmox", "pull")
    BY <1>4 DEF RefreshTags, LoopTo, TypeOK, LoopPCs, TagSets
  <1>5. CASE PullOk
    BY <1>5 DEF PullOk, LoopTo, TypeOK, LoopPCs
  <1>6. CASE PullError
    BY <1>6, LimitAssumption DEF PullError, LoopTo, TypeOK, LoopPCs, StopInv
  <1>7. CASE BeginBusy
    BY <1>7, LimitAssumption DEF BeginBusy, LoopTo, TypeOK, LoopPCs
  <1>8. CASE SetId
    BY <1>8 DEF SetId, LoopTo, TypeOK, LoopPCs
  <1>9. CASE EndBusy
    BY <1>9 DEF EndBusy, LoopTo, TypeOK, LoopPCs
  <1>10. CASE ClearId
    BY <1>10 DEF ClearId, LoopTo, TypeOK, LoopPCs, Ids
  <1>11. CASE SkipTask
    BY <1>11, LimitAssumption DEF SkipTask, LoopTo, TypeOK
  <1>12. CASE EndBatch
    BY <1>12, LimitAssumption DEF EndBatch, LoopTo, TypeOK, LoopPCs
  <1>13. CASE DropRequestsStop
    BY <1>13 DEF DropRequestsStop, LoopTo, TypeOK, LoopPCs
  <1>14. CASE DropJoins
    BY <1>14 DEF DropJoins, LoopTo, TypeOK, LoopPCs
  <1>15. CASE CheckStop
    BY <1>15 DEF CheckStop, HbTo, TypeOK, HbPCs
  <1>16. CASE TakeTags
    BY <1>16 DEF TakeTags, HbTo, TypeOK, HbPCs, TagSets, Messages, Ids, Blank
  <1>17. CASE ReadBusy
    BY <1>17 DEF ReadBusy, HbTo, InFlight, TypeOK, HbPCs, Messages
  <1>18. CASE ReadId
    BY <1>18 DEF ReadId, HbTo, TypeOK, HbPCs, Messages
  <1>19. CASE ReadPull
    <2> DEFINE h == msg.busy \/ lastPull = "recent" \/ (lastPull = "never" /\ age = 0)
    <2>1. h \in BOOLEAN
      BY DEF TypeOK, Messages
    <2>2. msg' = [msg EXCEPT !.healthy = h]
      BY <1>19 DEF ReadPull
    <2> HIDE DEF h
    <2>3. msg' \in Messages
      BY <2>1, <2>2 DEF TypeOK, Messages
    <2> QED
      BY <1>19, <2>3 DEF ReadPull, HbTo, TypeOK, HbPCs
  <1>20. CASE SendOk
    <2>1. msg.tags \in TagSets /\ {msg.tags} \ {NoTags} \subseteq TagSets \ {NoTags}
      BY DEF TypeOK, Messages
    <2>2. serverTags' \in TagSets /\ reached' \subseteq TagSets \ {NoTags}
      BY <1>20, <2>1 DEF SendOk, Arrives, TypeOK
    <2> QED
      BY <1>20, <2>2 DEF SendOk, HbTo, TypeOK, HbPCs
  <1>21. CASE SendError
    <2>1. msg.tags \in TagSets /\ {msg.tags} \ {NoTags} \subseteq TagSets \ {NoTags}
      BY DEF TypeOK, Messages
    <2>2. /\ serverTags' \in TagSets
          /\ late' \subseteq TagSets \ {NoTags} /\ reached' \subseteq TagSets \ {NoTags}
      BY <1>21, <2>1 DEF SendError, Arrives, TypeOK
    <2> QED
      BY <1>21, <2>2 DEF SendError, HbTo, TypeOK, HbPCs
  <1>22. CASE RecordSuccess
    BY <1>22, LimitAssumption DEF RecordSuccess, HbTo, EndOfMessage, TypeOK,
       HbPCs, Ids, Blank, Messages, TagSets
  <1>23. CASE RecordFailure
    BY <1>23, LimitAssumption DEF RecordFailure, HbTo, EndOfMessage, TypeOK,
       HbPCs, Ids, Blank, Messages, TagSets, StopInv
  <1>24. CASE GiveUp
    BY <1>24 DEF GiveUp, HbTo, TypeOK, HbPCs
  <1>25. CASE Wake
    BY <1>25 DEF Wake, HbTo, TypeOK, HbPCs
  <1>26. CASE WindowPasses
    BY <1>26 DEF WindowPasses, TypeOK
  <1>27. CASE PullGoesStale
    BY <1>27 DEF PullGoesStale, TypeOK
  <1>28. CASE SessionOver
    BY <1>28 DEF SessionOver, vars, TypeOK
  <1>29. CASE UNCHANGED vars
    BY <1>29 DEF vars, TypeOK
  <1>30. CASE LateHeartbeat
    BY <1>30 DEF LateHeartbeat, Arrives, TypeOK
  <1> QED
    BY <1>1, <1>2, <1>3, <1>4, <1>5, <1>6, <1>7, <1>8, <1>9, <1>10, <1>11,
      <1>12, <1>13, <1>14, <1>15, <1>16, <1>17, <1>18, <1>19, <1>20, <1>21,
      <1>22, <1>23, <1>24, <1>25, <1>26, <1>27, <1>28, <1>29, <1>30 DEF Next,
      LoopStep, HeartbeatStep, Clock

(* Every step keeps the counters and the stop flag together.               *)
LEMMA StopStep ==
  TypeOK /\ StopInv /\ [Next]_vars => StopInv'
  <1> SUFFICES ASSUME TypeOK, StopInv, [Next]_vars PROVE StopInv'
    OBVIOUS
  <1> USE DEF loopVars, hbVars, wireVars, tagVars, workVars, failVars, clockVars
  <1>1. CASE LoopTop
    BY <1>1, LimitAssumption DEF LoopTop, LoopTo, ShouldReset, StopInv,
       TypeOK
  <1>2. CASE Leave
    BY <1>2 DEF Leave, StopInv
  <1>3. CASE RefreshTags("gui", "proxmox")
    BY <1>3 DEF RefreshTags, LoopTo, StopInv
  <1>4. CASE RefreshTags("proxmox", "pull")
    BY <1>4 DEF RefreshTags, LoopTo, StopInv
  <1>5. CASE PullOk
    BY <1>5 DEF PullOk, LoopTo, StopInv
  <1>6. CASE PullError
    BY <1>6 DEF PullError, LoopTo, StopInv
  <1>7. CASE BeginBusy
    BY <1>7 DEF BeginBusy, LoopTo, StopInv
  <1>8. CASE SetId
    BY <1>8 DEF SetId, LoopTo, StopInv
  <1>9. CASE EndBusy
    BY <1>9 DEF EndBusy, LoopTo, StopInv
  <1>10. CASE ClearId
    BY <1>10 DEF ClearId, LoopTo, StopInv
  <1>11. CASE SkipTask
    BY <1>11 DEF SkipTask, LoopTo, StopInv
  <1>12. CASE EndBatch
    BY <1>12, LimitAssumption DEF EndBatch, LoopTo, StopInv, TypeOK
  <1>13. CASE DropRequestsStop
    BY <1>13 DEF DropRequestsStop, LoopTo, StopInv
  <1>14. CASE DropJoins
    BY <1>14 DEF DropJoins, LoopTo, StopInv
  <1>15. CASE CheckStop
    BY <1>15 DEF CheckStop, HbTo, StopInv
  <1>16. CASE TakeTags
    BY <1>16 DEF TakeTags, HbTo, StopInv
  <1>17. CASE ReadBusy
    BY <1>17 DEF ReadBusy, HbTo, InFlight, StopInv
  <1>18. CASE ReadId
    BY <1>18 DEF ReadId, HbTo, StopInv
  <1>19. CASE ReadPull
    BY <1>19 DEF ReadPull, HbTo, StopInv
  <1>20. CASE SendOk
    BY <1>20 DEF SendOk, HbTo, Arrives, StopInv
  <1>21. CASE SendError
    BY <1>21 DEF SendError, HbTo, Arrives, StopInv
  <1>22. CASE RecordSuccess
    BY <1>22, LimitAssumption DEF RecordSuccess, HbTo, EndOfMessage, StopInv
  <1>23. CASE RecordFailure
    BY <1>23, LimitAssumption DEF RecordFailure, HbTo, EndOfMessage, StopInv,
       TypeOK
  <1>24. CASE GiveUp
    BY <1>24 DEF GiveUp, HbTo, StopInv
  <1>25. CASE Wake
    BY <1>25 DEF Wake, HbTo, StopInv
  <1>26. CASE WindowPasses
    BY <1>26 DEF WindowPasses, StopInv
  <1>27. CASE PullGoesStale
    BY <1>27 DEF PullGoesStale, StopInv
  <1>28. CASE SessionOver
    BY <1>28 DEF SessionOver, vars, StopInv
  <1>29. CASE UNCHANGED vars
    BY <1>29 DEF vars, StopInv
  <1>30. CASE LateHeartbeat
    BY <1>30 DEF LateHeartbeat, StopInv
  <1> QED
    BY <1>1, <1>2, <1>3, <1>4, <1>5, <1>6, <1>7, <1>8, <1>9, <1>10, <1>11,
      <1>12, <1>13, <1>14, <1>15, <1>16, <1>17, <1>18, <1>19, <1>20, <1>21,
      <1>22, <1>23, <1>24, <1>25, <1>26, <1>27, <1>28, <1>29, <1>30 DEF Next,
      LoopStep, HeartbeatStep, Clock

(* Every step keeps what a snapshot may say of the command in flight.      *)
LEMMA GhostStep ==
  TypeOK /\ GhostInv /\ [Next]_vars => GhostInv'
  <1> SUFFICES ASSUME TypeOK, GhostInv, [Next]_vars PROVE GhostInv'
    OBVIOUS
  <1> USE DEF loopVars, hbVars, wireVars, tagVars, workVars, failVars, clockVars
  <1>1. CASE LoopTop
    BY <1>1 DEF LoopTop, LoopTo, ShouldReset, GhostInv, NoGhostCommand
  <1>2. CASE Leave
    BY <1>2 DEF Leave, GhostInv, NoGhostCommand
  <1>3. CASE RefreshTags("gui", "proxmox")
    BY <1>3 DEF RefreshTags, LoopTo, GhostInv, NoGhostCommand
  <1>4. CASE RefreshTags("proxmox", "pull")
    BY <1>4 DEF RefreshTags, LoopTo, GhostInv, NoGhostCommand
  <1>5. CASE PullOk
    BY <1>5 DEF PullOk, LoopTo, GhostInv, NoGhostCommand
  <1>6. CASE PullError
    BY <1>6 DEF PullError, LoopTo, GhostInv, NoGhostCommand
  <1>7. CASE BeginBusy
    BY <1>7 DEF BeginBusy, LoopTo, GhostInv, NoGhostCommand, Ids
  <1>8. CASE SetId
    BY <1>8 DEF SetId, LoopTo, GhostInv, NoGhostCommand
  <1>9. CASE EndBusy
    BY <1>9 DEF EndBusy, LoopTo, GhostInv, NoGhostCommand
  <1>10. CASE ClearId
    BY <1>10 DEF ClearId, LoopTo, GhostInv, NoGhostCommand
  <1>11. CASE SkipTask
    BY <1>11 DEF SkipTask, LoopTo, GhostInv, NoGhostCommand
  <1>12. CASE EndBatch
    BY <1>12 DEF EndBatch, LoopTo, GhostInv, NoGhostCommand
  <1>13. CASE DropRequestsStop
    BY <1>13 DEF DropRequestsStop, LoopTo, GhostInv, NoGhostCommand
  <1>14. CASE DropJoins
    BY <1>14 DEF DropJoins, LoopTo, GhostInv, NoGhostCommand
  <1>15. CASE CheckStop
    BY <1>15 DEF CheckStop, HbTo, GhostInv, NoGhostCommand
  <1>16. CASE TakeTags
    BY <1>16 DEF TakeTags, HbTo, GhostInv, NoGhostCommand, Blank
  <1>17. CASE ReadBusy
    BY <1>17 DEF ReadBusy, HbTo, InFlight, GhostInv, NoGhostCommand, TypeOK,
       Ids
  <1>18. CASE ReadId
    BY <1>18 DEF ReadId, HbTo, GhostInv, NoGhostCommand
  <1>19. CASE ReadPull
    BY <1>19 DEF ReadPull, HbTo, GhostInv, NoGhostCommand
  <1>20. CASE SendOk
    BY <1>20 DEF SendOk, HbTo, Arrives, GhostInv, NoGhostCommand
  <1>21. CASE SendError
    BY <1>21 DEF SendError, HbTo, Arrives, GhostInv, NoGhostCommand
  <1>22. CASE RecordSuccess
    BY <1>22 DEF RecordSuccess, HbTo, EndOfMessage, GhostInv, NoGhostCommand
  <1>23. CASE RecordFailure
    BY <1>23 DEF RecordFailure, HbTo, EndOfMessage, GhostInv, NoGhostCommand
  <1>24. CASE GiveUp
    BY <1>24 DEF GiveUp, HbTo, GhostInv, NoGhostCommand
  <1>25. CASE Wake
    BY <1>25 DEF Wake, HbTo, GhostInv, NoGhostCommand
  <1>26. CASE WindowPasses
    BY <1>26 DEF WindowPasses, GhostInv, NoGhostCommand
  <1>27. CASE PullGoesStale
    BY <1>27 DEF PullGoesStale, GhostInv, NoGhostCommand
  <1>28. CASE SessionOver
    BY <1>28 DEF SessionOver, vars, GhostInv, NoGhostCommand
  <1>29. CASE UNCHANGED vars
    BY <1>29 DEF vars, GhostInv, NoGhostCommand
  <1>30. CASE LateHeartbeat
    BY <1>30 DEF LateHeartbeat, GhostInv, NoGhostCommand
  <1> QED
    BY <1>1, <1>2, <1>3, <1>4, <1>5, <1>6, <1>7, <1>8, <1>9, <1>10, <1>11,
      <1>12, <1>13, <1>14, <1>15, <1>16, <1>17, <1>18, <1>19, <1>20, <1>21,
      <1>22, <1>23, <1>24, <1>25, <1>26, <1>27, <1>28, <1>29, <1>30 DEF Next,
      LoopStep, HeartbeatStep, Clock

(* Every step keeps the order of the tag sets on their way.                *)
LEMMA TagsStep ==
  TypeOK /\ TagsInv /\ [Next]_vars => TagsInv'
  <1> SUFFICES ASSUME TypeOK, TagsInv, [Next]_vars PROVE TagsInv'
    OBVIOUS
  <1> USE DEF loopVars, hbVars, wireVars, tagVars, workVars, failVars, clockVars
  <1>1. CASE LoopTop
    BY <1>1 DEF LoopTop, LoopTo, ShouldReset, TagsInv, Carried, TagsAccounted
  <1>2. CASE Leave
    BY <1>2 DEF Leave, TagsInv, Carried, TagsAccounted
  <1>3. CASE RefreshTags("gui", "proxmox")
    BY <1>3, NoneAssumption DEF RefreshTags, LoopTo, TagsInv, Carried,
       TagsAccounted, Older, TypeOK, TagSets, Messages
  <1>4. CASE RefreshTags("proxmox", "pull")
    BY <1>4, NoneAssumption DEF RefreshTags, LoopTo, TagsInv, Carried,
       TagsAccounted, Older, TypeOK, TagSets, Messages
  <1>5. CASE PullOk
    BY <1>5 DEF PullOk, LoopTo, TagsInv, Carried, TagsAccounted
  <1>6. CASE PullError
    BY <1>6 DEF PullError, LoopTo, TagsInv, Carried, TagsAccounted
  <1>7. CASE BeginBusy
    BY <1>7 DEF BeginBusy, LoopTo, TagsInv, Carried, TagsAccounted
  <1>8. CASE SetId
    BY <1>8 DEF SetId, LoopTo, TagsInv, Carried, TagsAccounted
  <1>9. CASE EndBusy
    BY <1>9 DEF EndBusy, LoopTo, TagsInv, Carried, TagsAccounted
  <1>10. CASE ClearId
    BY <1>10 DEF ClearId, LoopTo, TagsInv, Carried, TagsAccounted
  <1>11. CASE SkipTask
    BY <1>11 DEF SkipTask, LoopTo, TagsInv, Carried, TagsAccounted
  <1>12. CASE EndBatch
    BY <1>12 DEF EndBatch, LoopTo, TagsInv, Carried, TagsAccounted
  <1>13. CASE DropRequestsStop
    BY <1>13 DEF DropRequestsStop, LoopTo, TagsInv, Carried, TagsAccounted
  <1>14. CASE DropJoins
    BY <1>14 DEF DropJoins, LoopTo, TagsInv, Carried, TagsAccounted
  <1>15. CASE CheckStop
    BY <1>15 DEF CheckStop, HbTo, TagsInv, Carried, TagsAccounted
  <1>16. CASE TakeTags
    BY <1>16, NoneAssumption DEF TakeTags, HbTo, TagsInv, Carried,
       TagsAccounted, Older, TypeOK, TagSets, Blank
  <1>17. CASE ReadBusy
    BY <1>17 DEF ReadBusy, HbTo, InFlight, TagsInv, Carried, TagsAccounted
  <1>18. CASE ReadId
    BY <1>18 DEF ReadId, HbTo, TagsInv, Carried, TagsAccounted
  <1>19. CASE ReadPull
    BY <1>19 DEF ReadPull, HbTo, TagsInv, Carried, TagsAccounted
  <1>20. CASE SendOk
    BY <1>20 DEF SendOk, HbTo, Arrives, TagsInv, Carried, TagsAccounted,
       Older, TypeOK, TagSets, Messages
  <1>21. CASE SendError
    BY <1>21 DEF SendError, HbTo, Arrives, TagsInv, Carried, TagsAccounted,
       Older, TypeOK, TagSets, Messages
  <1>22. CASE RecordSuccess
    BY <1>22 DEF RecordSuccess, HbTo, EndOfMessage, TagsInv, Carried,
       TagsAccounted
  <1>23. CASE RecordFailure
    BY <1>23 DEF RecordFailure, HbTo, EndOfMessage, TagsInv, Carried,
       TagsAccounted
  <1>24. CASE GiveUp
    BY <1>24 DEF GiveUp, HbTo, TagsInv, Carried, TagsAccounted
  <1>25. CASE Wake
    BY <1>25 DEF Wake, HbTo, TagsInv, Carried, TagsAccounted
  <1>26. CASE WindowPasses
    BY <1>26 DEF WindowPasses, TagsInv, Carried, TagsAccounted
  <1>27. CASE PullGoesStale
    BY <1>27 DEF PullGoesStale, TagsInv, Carried, TagsAccounted
  <1>28. CASE SessionOver
    BY <1>28 DEF SessionOver, vars, TagsInv, Carried, TagsAccounted
  <1>29. CASE UNCHANGED vars
    BY <1>29 DEF vars, TagsInv, Carried, TagsAccounted
  <1>30. CASE LateHeartbeat
    BY <1>30 DEF LateHeartbeat, Arrives, TagsInv, Carried, TagsAccounted,
       Older, TypeOK, TagSets
  <1> QED
    BY <1>1, <1>2, <1>3, <1>4, <1>5, <1>6, <1>7, <1>8, <1>9, <1>10, <1>11,
      <1>12, <1>13, <1>14, <1>15, <1>16, <1>17, <1>18, <1>19, <1>20, <1>21,
      <1>22, <1>23, <1>24, <1>25, <1>26, <1>27, <1>28, <1>29, <1>30 DEF Next,
      LoopStep, HeartbeatStep, Clock

(* The invariant holds at the start of a session.                          *)
LEMMA InitOK == Init => TypeOK /\ StopInv /\ GhostInv /\ TagsInv
  <1> SUFFICES ASSUME Init PROVE TypeOK /\ StopInv /\ GhostInv /\ TagsInv
    OBVIOUS
  <1>1. TypeOK
    <2>1. 0 \in 0..MaxRefreshes /\ 0 \in 0..MaxHeartbeatFailures
          /\ 0 \in 0..MaxPullFailures /\ 0 \in 0..MaxBatch
      BY LimitAssumption
    <2>2. Blank \in Messages
      BY DEF Blank, Messages, TagSets, Ids
    <2>3. {startupTags, pendingTags, serverTags, newest} \subseteq TagSets
      BY <2>1 DEF Init, TagSets
    <2>4. msg \in Messages
      BY <2>2 DEF Init
    <2>5. age \in 0..2 /\ left \in 0..MaxBatch /\ failures \in 0..MaxPullFailures
          /\ {hbFailures, hbRun} \subseteq 0..MaxHeartbeatFailures
      BY <2>1 DEF Init
    <2>6. /\ stop \in BOOLEAN /\ busy \in BOOLEAN /\ late = {} /\ reached = {}
          /\ {commandId, running} \subseteq Ids /\ seen \subseteq Command
          /\ lastPull \in {"never", "recent", "stale"}
          /\ loopPc \in LoopPCs /\ hbPc \in HbPCs
      BY DEF Init, Ids, LoopPCs, HbPCs
    <2> QED
      BY <2>3, <2>4, <2>5, <2>6 DEF TypeOK
  <1>2. StopInv
    BY LimitAssumption DEF Init, StopInv
  <1>3. GhostInv
    BY DEF Init, GhostInv, NoGhostCommand
  <1>4. TagsInv
    BY NoneAssumption DEF Init, TagsInv, Older, Carried, TagsAccounted
  <1> QED
    BY <1>1, <1>2, <1>3, <1>4

(* The whole inductive invariant.                                          *)
LEMMA SessionInvariant == Spec => [](TypeOK /\ StopInv /\ GhostInv /\ TagsInv)
  <1>1. TypeOK /\ StopInv /\ GhostInv /\ TagsInv /\ [Next]_vars
        => (TypeOK /\ StopInv /\ GhostInv /\ TagsInv)'
    BY TypeStep, StopStep, GhostStep, TagsStep
  <1> QED
    BY <1>1, InitOK, PTL DEF Spec

(* Types: in particular both failure counters stay within their limits     *)
(* and no saturating or wrapping arithmetic is ever needed (pull.rs,       *)
(* agent_run.rs).                                                          *)
THEOREM TypeCorrect == Spec => []TypeOK
  BY SessionInvariant, PTL

(* A session is asked to stop only after MAX_CONSECUTIVE_HEARTBEAT_        *)
(* FAILURES heartbeats failed in a row or by its own end (pull.rs).        *)
THEOREM StopCorrect == Spec => []StopJustified
  <1>1. StopInv => StopJustified
    BY DEF StopInv, StopJustified
  <1> QED
    BY <1>1, SessionInvariant, PTL

(* The two separate reads of health_snapshot name no command that had      *)
(* already ended when the snapshot began (pull.rs).                        *)
THEOREM NoGhostCorrect == Spec => []NoGhostCommand
  <1>1. GhostInv => NoGhostCommand
    BY DEF GhostInv
  <1> QED
    BY <1>1, SessionInvariant, PTL

(* Tag sets are lost only with a heartbeat that failed (take_heartbeat_    *)
(* tags, queue_tag_refresh in pull.rs).                                    *)
THEOREM TagsCorrect == Spec => []TagsAccounted
  <1>1. TagsInv => TagsAccounted
    BY DEF TagsInv
  <1> QED
    BY <1>1, SessionInvariant, PTL

(* The server's tag set goes back only to one of a heartbeat the agent had *)
(* given up on (pull.rs, send_heartbeat_once, the timeout in client.rs).   *)
THEOREM TagsForwardCorrect == Spec => TagsMoveForward
  <1> DEFINE Forward == serverTags # NoTags =>
               /\ serverTags' # NoTags
               /\ serverTags' < serverTags => serverTags' \in late
  <1>1. TypeOK /\ TagsInv /\ [Next]_vars => [Forward]_serverTags
    <2> SUFFICES ASSUME TypeOK, TagsInv, [Next]_vars, serverTags' # serverTags,
                        serverTags # NoTags
                 PROVE  /\ serverTags' # NoTags
                        /\ serverTags' < serverTags => serverTags' \in late
      OBVIOUS
    <2>1. \/ hbPc = "send" /\ serverTags' = msg.tags /\ msg.tags # NoTags
          \/ serverTags' \in late
      BY DEF Next, vars, LoopStep, HeartbeatStep, Clock, wireVars, tagVars, LoopTop, Leave,
             RefreshTags, PullOk, PullError, BeginBusy, SetId, EndBusy, ClearId, SkipTask,
             EndBatch, DropRequestsStop, DropJoins, CheckStop, TakeTags, ReadBusy, ReadId,
             ReadPull, SendOk, SendError, LateHeartbeat, Arrives, RecordSuccess, RecordFailure,
             GiveUp, Wake, WindowPasses, PullGoesStale, SessionOver, HbTo, TypeOK
    <2>2. CASE serverTags' \in late
      BY <2>2 DEF TypeOK
    <2>3. CASE hbPc = "send" /\ serverTags' = msg.tags /\ msg.tags # NoTags
      <3>1. serverTags < msg.tags
        BY <2>3 DEF TagsInv, Older, Carried
      <3>2. serverTags \in Int /\ msg.tags \in Int
        BY <2>3, LimitAssumption DEF TypeOK, Messages, TagSets
      <3> QED
        BY <2>3, <3>1, <3>2
    <2> QED
      BY <2>1, <2>2, <2>3
  <1> QED
    BY <1>1, SessionInvariant, PTL DEF Spec, TagsMoveForward

-------------------------------------------------------------------------------
(* A stopped session winds down: the safety half of StopEndsSession. *)

(* What the pull loop has left to do once it is asked to stop: it looks at *)
(* should_stop at the top of the loop only, so the response under way, with *)
(* four steps to a task, comes first.                                       *)
LoopLeft ==
  CASE loopPc = "ended"   -> 0
    [] loopPc = "join"    -> 1
    [] loopPc = "drop"    -> 2
    [] loopPc = "top"     -> 3
    [] loopPc = "batch"   -> 4 * left + 4
    [] loopPc = "clearId" -> 4 * left + 5
    [] loopPc = "run"     -> 4 * left + 6
    [] loopPc = "setId"   -> 4 * left + 7
    [] loopPc = "pull"    -> 4 * MaxBatch + 5
    [] loopPc = "proxmox" -> 4 * MaxBatch + 6
    [] loopPc = "gui"     -> 4 * MaxBatch + 7

(* The same for the heartbeat thread: at most one more heartbeat.          *)
HeartbeatLeft ==
  CASE hbPc = "done"               -> 0
    [] hbPc \in {"check", "giveUp"} -> 1
    [] hbPc = "sleep"              -> 2
    [] hbPc \in {"ok", "failed"}   -> 3
    [] hbPc = "send"               -> 4
    [] hbPc = "readPull"           -> 5
    [] hbPc = "readId"             -> 6
    [] hbPc = "readBusy"           -> 7
    [] hbPc = "take"               -> 8

WindDownBounded ==
  /\ LoopLeft \in 0..(4 * MaxBatch + 7)
  /\ HeartbeatLeft \in 0..8

(* A stop is never taken back; from then on every step of a thread brings   *)
(* that thread nearer to its end and leaves the other where it is.          *)
StopWindsDown ==
  [][stop => /\ stop'
             /\ LoopStep => LoopLeft' < LoopLeft /\ HeartbeatLeft' = HeartbeatLeft
             /\ HeartbeatStep => HeartbeatLeft' < HeartbeatLeft /\ LoopLeft' = LoopLeft
             /\ Clock \/ LateHeartbeat => UNCHANGED <<LoopLeft, HeartbeatLeft>>]_vars

(* Both measures stay within their bounds.                                 *)
LEMMA MeasuresBounded == TypeOK => WindDownBounded
  <1> SUFFICES ASSUME TypeOK PROVE WindDownBounded
    OBVIOUS
  <1>0. MaxBatch \in Nat /\ left \in 0..MaxBatch
    BY LimitAssumption DEF TypeOK
  <1>1. left \in Nat /\ left <= MaxBatch /\ loopPc \in LoopPCs /\ hbPc \in HbPCs
    BY <1>0 DEF TypeOK
  <1>2. LoopLeft \in 0..(4 * MaxBatch + 7)
    <2>1. \/ LoopLeft \in {0, 1, 2, 3}
          \/ LoopLeft \in {4 * left + 4, 4 * left + 5, 4 * left + 6, 4 * left + 7}
          \/ LoopLeft \in {4 * MaxBatch + 5, 4 * MaxBatch + 6, 4 * MaxBatch + 7}
      BY <1>1 DEF LoopLeft, LoopPCs
    <2> QED
      BY <1>0, <1>1, <2>1
  <1>3. HeartbeatLeft \in 0..8
    BY <1>1 DEF HeartbeatLeft, HbPCs
  <1> QED
    BY <1>2, <1>3 DEF WindDownBounded

(* A step of the pull loop, asked to stop, is one of its last.             *)
LEMMA LoopWindsDown ==
  ASSUME TypeOK, stop, LoopStep
  PROVE  stop' /\ LoopLeft' < LoopLeft /\ HeartbeatLeft' = HeartbeatLeft
  <1>1. left \in 0..MaxBatch /\ MaxBatch \in Nat
    BY LimitAssumption DEF TypeOK
  <1>2. UNCHANGED hbPc /\ (stop' = TRUE \/ UNCHANGED stop)
    BY DEF LoopStep, hbVars, LoopTop, Leave, RefreshTags, PullOk, PullError, BeginBusy,
           SetId, EndBusy, ClearId, SkipTask, EndBatch, DropRequestsStop, DropJoins
  <1>3. stop' /\ HeartbeatLeft' = HeartbeatLeft
    BY <1>2 DEF HeartbeatLeft
  <1> SUFFICES LoopLeft' < LoopLeft
    BY <1>3
  <1>4. CASE \/ loopPc = "top" /\ loopPc' = "drop"
             \/ loopPc = "drop" /\ loopPc' = "join"
             \/ loopPc = "join" /\ loopPc' = "ended"
    BY <1>4 DEF LoopLeft
  <1>5. CASE \/ loopPc = "gui" /\ loopPc' = "proxmox"
             \/ loopPc = "proxmox" /\ loopPc' = "pull"
    BY <1>1, <1>5 DEF LoopLeft
  <1>6. CASE \/ loopPc = "pull" /\ loopPc' = "batch" /\ left' \in 0..MaxBatch
             \/ loopPc = "pull" /\ loopPc' \in {"top", "drop"}
    BY <1>1, <1>6 DEF LoopLeft
  <1>7. CASE /\ loopPc = "batch" /\ loopPc' \in {"setId", "batch"}
             /\ left > 0 /\ left' = left - 1
    BY <1>1, <1>7 DEF LoopLeft
  <1>8. CASE /\ \/ loopPc = "setId" /\ loopPc' = "run"
                \/ loopPc = "run" /\ loopPc' = "clearId"
                \/ loopPc = "clearId" /\ loopPc' = "batch"
             /\ UNCHANGED left
    BY <1>1, <1>8 DEF LoopLeft
  <1>9. CASE loopPc = "batch" /\ loopPc' = "top"
    BY <1>1, <1>9 DEF LoopLeft
  <1> QED
    BY <1>4, <1>5, <1>6, <1>7, <1>8, <1>9
    DEF LoopStep, LoopTo, LoopTop, Leave, RefreshTags, PullOk, PullError, BeginBusy,
        SetId, EndBusy, ClearId, SkipTask, EndBatch, DropRequestsStop, DropJoins

(* So is a step of the heartbeat thread.                                   *)
LEMMA HeartbeatWindsDown ==
  ASSUME stop, HeartbeatStep
  PROVE  stop' /\ HeartbeatLeft' < HeartbeatLeft /\ LoopLeft' = LoopLeft
  <1> USE DEF HeartbeatStep, CheckStop, TakeTags, ReadBusy, ReadId, ReadPull, SendOk,
              SendError, RecordSuccess, RecordFailure, GiveUp, Wake
  <1>1. UNCHANGED <<loopPc, left>> /\ (stop' = TRUE \/ UNCHANGED stop)
    BY DEF loopVars
  <1>2. \/ hbPc = "check" /\ hbPc' = "done"
        \/ hbPc = "take" /\ hbPc' = "readBusy"
        \/ hbPc = "readBusy" /\ hbPc' \in {"readId", "readPull"}
        \/ hbPc = "readId" /\ hbPc' = "readPull"
        \/ hbPc = "readPull" /\ hbPc' = "send"
        \/ hbPc = "send" /\ hbPc' \in {"ok", "failed"}
        \/ hbPc = "ok" /\ hbPc' = "sleep"
        \/ hbPc = "failed" /\ hbPc' \in {"giveUp", "sleep"}
        \/ hbPc = "giveUp" /\ hbPc' = "done"
        \/ hbPc = "sleep" /\ hbPc' = "check"
    BY DEF HbTo
  <1>3. HeartbeatLeft' < HeartbeatLeft
    BY <1>2 DEF HeartbeatLeft
  <1>4. stop' /\ LoopLeft' = LoopLeft
    BY <1>1 DEF LoopLeft
  <1> QED
    BY <1>3, <1>4

(* Once the heartbeat thread has given up, or the loop is about to join it, *)
(* at most 4 * MaxBatch + 7 steps of the loop and 8 of the thread are left: *)
(* neither goes round again (should_stop, the Drop of HeartbeatThread, both *)
(* in pull.rs).                                                             *)
THEOREM StopTerminates == Spec => []WindDownBounded /\ StopWindsDown
  <1> DEFINE Winds ==
        stop => /\ stop'
                /\ LoopStep => LoopLeft' < LoopLeft /\ HeartbeatLeft' = HeartbeatLeft
                /\ HeartbeatStep => HeartbeatLeft' < HeartbeatLeft /\ LoopLeft' = LoopLeft
                /\ Clock \/ LateHeartbeat => UNCHANGED <<LoopLeft, HeartbeatLeft>>
  <1>1. TypeOK /\ [Next]_vars => [Winds]_vars
    <2> SUFFICES ASSUME TypeOK, Next, stop PROVE Winds
      OBVIOUS
    <2>1. LoopStep => stop' /\ LoopLeft' < LoopLeft /\ HeartbeatLeft' = HeartbeatLeft
      BY LoopWindsDown
    <2>2. HeartbeatStep => stop' /\ HeartbeatLeft' < HeartbeatLeft /\ LoopLeft' = LoopLeft
      BY HeartbeatWindsDown
    <2>3. Clock \/ LateHeartbeat \/ SessionOver =>
            UNCHANGED <<stop, loopPc, left, hbPc>> /\ stop'
      BY DEF Clock, WindowPasses, PullGoesStale, LateHeartbeat, SessionOver, vars,
             loopVars, hbVars
    <2>4. Clock \/ LateHeartbeat => UNCHANGED <<LoopLeft, HeartbeatLeft>>
      BY <2>3 DEF LoopLeft, HeartbeatLeft
    <2> HIDE DEF LoopLeft, HeartbeatLeft
    <2> QED
      BY <2>1, <2>2, <2>3, <2>4 DEF Next
  <1> QED
    BY <1>1, MeasuresBounded, SessionInvariant, PTL DEF Spec, StopWindsDown

===============================================================================
