------------------------ MODULE CommandDelivery_proofs ------------------------
(***************************************************************************)
(* The safety of CommandDelivery for every number of commands, capacity    *)
(* and bound: its types, the duplicate filter, one answer per command      *)
(* begun, and the refinement of BoundedDedup.                              *)
(***************************************************************************)
EXTENDS CommandDelivery, RecentCommandIds_proofs

(* What is in hand at each point of the loop.                              *)
InHandOK ==
  /\ pc \in {"down", "loop", "batch"} => current = NoTask
  /\ pc = "handling" => current \in Command \cup {SelfUpdate}
  /\ pc \in {"submit", "submitThenExit"} => current \in Command

(* Typing, what is in hand and the state of the filter, which need each    *)
(* other: what insert_if_new leaves is a window only if it was given one   *)
(* in step, and answered is a sequence of ids only if an id is in hand.    *)
FilterInv == TypeOK /\ InHandOK /\ InStep(recent) /\ Tracks(recent, accepted)

(* A new AgentSessionState remembers nothing, and remembers it in step.    *)
LEMMA EmptyWindowOK ==
  EmptyWindow \in Windows /\ InStep(EmptyWindow) /\ Tracks(EmptyWindow, << >>)
  BY CapacityAssumption DEF EmptyWindow, Windows, InStep, Tracks

(* Taking the first task of a response leaves a shorter response.          *)
LEMMA TailOfBatch ==
  ASSUME NEW s \in Seq(Task), s # << >>
  PROVE  Head(s) \in Task /\ Tail(s) \in Seq(Task)
  OBVIOUS

(* A pull response is a sequence of tasks, whatever the server puts in it. *)
LEMMA ResponseIsBatch ==
  ASSUME TypeOK, NEW b \in Responses
  PROVE  b \in Seq(Task)
  <1>1. PICK n \in 0..MaxBatch : b \in [1..n -> outstanding \cup {SelfUpdate, NoOp}]
    BY DEF Responses
  <1>2. b \in [1..n -> Task] /\ n \in Nat
    BY <1>1, BoundAssumption DEF TypeOK, Task
  <1> QED
    BY <1>2

(* Before the first session the filter is empty and nothing is in hand.    *)
LEMMA FilterInit == Init => FilterInv
  <1> SUFFICES ASSUME Init PROVE FilterInv
    OBVIOUS
  <1>1. TypeOK
    BY EmptyWindowOK, BoundAssumption DEF Init, TypeOK, PCs
  <1> QED
    BY <1>1, EmptyWindowOK DEF Init, FilterInv, InHandOK

(* Leaving a session puts everything it kept back to its initial value.    *)
LEMMA DownTypes ==
  ASSUME TypeOK, Down
  PROVE  /\ pc' \in PCs /\ batch' \in Seq(Task)
         /\ current' \in Command \cup {SelfUpdate, NoTask}
         /\ recent' \in Windows /\ failures' \in 0..MaxPullFailures
         /\ sessions' \in 0..MaxSessions
         /\ accepted' \in Seq(Command) /\ answered' \in Seq(Command)
         /\ InStep(recent') /\ Tracks(recent', accepted') /\ InHandOK'
  BY EmptyWindowOK, BoundAssumption DEF TypeOK, Down, PCs, InHandOK

(* One attempt at submit_result keeps the types of server and network.     *)
LEMMA ExchangeTypes ==
  ASSUME TypeOK, current \in Command, Exchange(current)
  PROVE  /\ outstanding' \subseteq Command
         /\ received' \in [Command -> Nat] /\ late' \in [Command -> Nat]
  <1>1. received[current] + 1 \in Nat /\ late[current] + 1 \in Nat
    BY DEF TypeOK
  <1>2. CASE Take(current) /\ UNCHANGED late
    BY <1>1, <1>2 DEF Take, TypeOK
  <1>3. CASE /\ late' = [late EXCEPT ![current] = @ + 1]
             /\ UNCHANGED <<outstanding, received>>
    BY <1>1, <1>3 DEF TypeOK
  <1>4. CASE UNCHANGED server
    BY <1>4 DEF TypeOK, server
  <1> QED
    BY <1>2, <1>3, <1>4 DEF Exchange

(* Every step of server, agent and network keeps the filter invariant.     *)
LEMMA FilterStep == FilterInv /\ [Next]_vars => FilterInv'
  <1> SUFFICES ASSUME FilterInv, [Next]_vars PROVE FilterInv'
    OBVIOUS
  <1> USE TaskAssumption DEF FilterInv, InHandOK
  <1>1. CASE ServerStep
    <2>1. PICK c \in Command : Issue(c) \/ Withdraw(c) \/ LateResult(c)
      BY <1>1 DEF ServerStep
    <2>2. /\ outstanding' \subseteq Command
          /\ received' \in [Command -> Nat] /\ late' \in [Command -> Nat]
      <3>1. CASE Issue(c) \/ Withdraw(c)
        BY <3>1 DEF Issue, Withdraw, TypeOK
      <3>2. CASE LateResult(c)
        <4>1. late[c] \in Nat /\ received[c] \in Nat
          BY DEF TypeOK
        <4>2. late[c] - 1 \in Nat /\ received[c] + 1 \in Nat
          BY <3>2, <4>1 DEF LateResult
        <4> QED
          BY <3>2, <4>2 DEF LateResult, Take, TypeOK
      <3> QED
        BY <2>1, <3>1, <3>2
    <2>3. UNCHANGED <<pc, session, sessions, handled>>
      BY <2>1 DEF Issue, Withdraw, LateResult
    <2> QED
      BY <2>2, <2>3 DEF TypeOK, session
  <1>2. CASE StartSession
    BY <1>2, BoundAssumption DEF StartSession, TypeOK, PCs, server, session
  <1>3. CASE StopSession
    BY <1>3, DownTypes DEF StopSession, TypeOK, server
  <1>4. CASE ResetSession
    BY <1>4, DownTypes DEF ResetSession, TypeOK, server
  <1>5. CASE PullOk
    BY <1>5, ResponseIsBatch DEF PullOk, TypeOK, PCs, server
  <1>6. CASE PullError
    BY <1>6, BoundAssumption DEF PullError, TypeOK, server
  <1>7. CASE SkipDuplicate
    BY <1>7, TailOfBatch DEF SkipDuplicate, NextTask, TypeOK, server
  <1>8. CASE SkipNoOp
    BY <1>8, TailOfBatch DEF SkipNoOp, NextTask, TypeOK, server
  <1>9. ASSUME NEW c \in Command, BeginCommand(c) PROVE FilterInv'
    <2>1. recent' \in Windows /\ InStep(recent')
      BY <1>9, InsertTyped, InsertInStep DEF BeginCommand, TypeOK
    <2>2. Tracks(recent', accepted')
      BY <1>9, InsertTracks DEF BeginCommand, TypeOK
    <2>3. batch' \in Seq(Task) /\ accepted' \in Seq(Command)
      BY <1>9, TailOfBatch DEF BeginCommand, NextTask, TypeOK
    <2>4. TypeOK'
      <3>1. handled' \in [Command -> Nat]
        BY <1>9 DEF BeginCommand, TypeOK
      <3>2. /\ pc' \in PCs
            /\ current' \in Command \cup {SelfUpdate, NoTask}
            /\ UNCHANGED <<outstanding, received, late, failures, answered, sessions>>
        BY <1>9 DEF BeginCommand, PCs, server
      <3> QED
        BY <2>1, <2>3, <3>1, <3>2 DEF TypeOK
    <2>5. InHandOK'
      BY <1>9 DEF BeginCommand
    <2> QED
      BY <2>1, <2>2, <2>4, <2>5
  <1>10. CASE BeginSelfUpdate
    BY <1>10, TailOfBatch DEF BeginSelfUpdate, NextTask, TypeOK, PCs, server
  <1>11. CASE EndBatch
    BY <1>11, BoundAssumption DEF EndBatch, TypeOK, PCs, server
  <1>12. CASE RejectCommand
    BY <1>12 DEF RejectCommand, TypeOK, PCs, server, session
  <1>13. CASE RunCommand
    BY <1>13 DEF RunCommand, TypeOK, PCs, server, session
  <1>14. CASE SubmitResult
    <2>1. current \in Command
      BY <1>14 DEF SubmitResult
    <2>2. outstanding' \subseteq Command /\ received' \in [Command -> Nat] /\ late' \in [Command -> Nat]
      BY <1>14, <2>1, ExchangeTypes DEF SubmitResult
    <2>3. answered' \in Seq(Command)
      BY <1>14, <2>1 DEF SubmitResult, TypeOK
    <2> QED
      BY <1>14, <2>2, <2>3 DEF SubmitResult, TypeOK, PCs
  <1>15. CASE SubmitResultAndExit
    <2>1. outstanding' \subseteq Command /\ received' \in [Command -> Nat] /\ late' \in [Command -> Nat]
      BY <1>15, ExchangeTypes DEF SubmitResultAndExit
    <2> QED
      BY <1>15, <2>1, DownTypes DEF SubmitResultAndExit, TypeOK
  <1>16. CASE SelfUpdateReturns
    BY <1>16 DEF SelfUpdateReturns, TypeOK, PCs, server
  <1>17. CASE SelfUpdateExits
    BY <1>17, DownTypes DEF SelfUpdateExits, TypeOK, server
  <1>18. CASE Crash
    BY <1>18, DownTypes DEF Crash, TypeOK, server
  <1>19. CASE UNCHANGED vars
    BY <1>19 DEF vars, server, session, TypeOK
  <1> QED
    BY <1>1, <1>2, <1>3, <1>4, <1>5, <1>6, <1>7, <1>8, <1>9, <1>10, <1>11,
       <1>12, <1>13, <1>14, <1>15, <1>16, <1>17, <1>18, <1>19
    DEF Next, AgentStep, LoopStep, BatchStep, HandleTask

(* So it holds in every state of every behaviour.                          *)
LEMMA FilterInvariant == Spec => []FilterInv
  BY FilterInit, FilterStep, PTL DEF Spec

(* Every variable of the pull loop, the server and the network keeps its   *)
(* type (run_pull_session, handle_task in agent_run.rs).                   *)
THEOREM TypeCorrect == Spec => []TypeOK
  <1>1. FilterInv => TypeOK
    BY DEF FilterInv
  <1> QED
    BY <1>1, FilterInvariant, PTL

(* insert_if_new's queue and set stay in step whatever is redelivered      *)
(* (RecentCommandIds in pull.rs).                                          *)
THEOREM WindowCorrect == Spec => []WindowInStep
  <1>1. FilterInv => WindowInStep
    BY DEF FilterInv, WindowInStep
  <1> QED
    BY <1>1, FilterInvariant, PTL

-------------------------------------------------------------------------------
(* One answer per command begun. *)

OrderInv == FilterInv /\ AnsweredInOrder

(* A step that begins a command puts it in hand, and only the step that    *)
(* submits its result takes it out again.                                  *)
LEMMA OrderStep == OrderInv /\ [Next]_vars => OrderInv'
  <1> SUFFICES ASSUME OrderInv, [Next]_vars PROVE AnsweredInOrder'
    BY FilterStep DEF OrderInv
  <1> USE TaskAssumption DEF OrderInv, FilterInv, InHandOK, AnsweredInOrder
  <1>1. CASE \E c \in Command : BeginCommand(c)
    <2>1. current = NoTask
      BY <1>1 DEF BeginCommand, NextTask
    <2> QED
      BY <1>1, <2>1 DEF BeginCommand
  <1>2. CASE SubmitResult
    BY <1>2 DEF SubmitResult
  <1>3. CASE Down
    BY <1>3 DEF Down
  <1>4. CASE BeginSelfUpdate
    BY <1>4 DEF BeginSelfUpdate, NextTask
  <1>5. CASE SelfUpdateReturns
    BY <1>5 DEF SelfUpdateReturns
  <1>6. CASE UNCHANGED <<current, accepted, answered>>
    BY <1>6
  <1> QED
    BY <1>1, <1>2, <1>3, <1>4, <1>5, <1>6
    DEF Next, ServerStep, AgentStep, LoopStep, BatchStep, HandleTask, vars, session,
        Issue, Withdraw, LateResult, StartSession, StopSession, ResetSession, PullOk,
        PullError, SkipDuplicate, SkipNoOp, EndBatch, RejectCommand, RunCommand,
        SubmitResultAndExit, SelfUpdateExits, Crash

(* Every command a session begins is answered once, in the order begun     *)
(* (handle_task in agent_run.rs, with all its ways to an error result).    *)
THEOREM AnswersCorrect == Spec => []AnsweredInOrder
  <1>1. Init => OrderInv
    BY FilterInit, TaskAssumption DEF OrderInv, Init, AnsweredInOrder
  <1>2. OrderInv => AnsweredInOrder
    BY DEF OrderInv
  <1> QED
    BY <1>1, <1>2, OrderStep, PTL DEF Spec

-------------------------------------------------------------------------------
(* The server never holds more results than the agent handled commands. *)

ResultsInv == FilterInv /\ ResultsMatchHandlings

(* Leaving a session takes nothing in hand with it.                        *)
LEMMA DownReleases ==
  ASSUME TypeOK, Down
  PROVE  \A c \in Command : InHand(c)' = 0
  BY TaskAssumption DEF Down, InHand

(* One submission moves what is in hand to the server, the wire or nowhere. *)
LEMMA ExchangeBound ==
  ASSUME TypeOK, ResultsMatchHandlings, current \in Command, Exchange(current),
         NEW c \in Command
  PROVE  received'[c] + late'[c] <= handled[c]
  <1>0. received[c] \in Nat /\ late[c] \in Nat /\ handled[c] \in Nat
    BY DEF TypeOK
  <1>1. received[c] + late[c] + InHand(c) <= handled[c]
    BY DEF ResultsMatchHandlings
  <1>2. CASE c = current
    <2>1. InHand(c) = 1
      BY <1>2 DEF InHand
    <2>2. \/ received'[c] = received[c] + 1 /\ late'[c] = late[c]
          \/ received'[c] = received[c] /\ late'[c] = late[c] + 1
          \/ received'[c] = received[c] /\ late'[c] = late[c]
      BY <1>2 DEF Exchange, Take, TypeOK, server
    <2> QED
      BY <1>0, <1>1, <2>1, <2>2
  <1>3. CASE c # current
    <2>1. received'[c] = received[c] /\ late'[c] = late[c]
      BY <1>3 DEF Exchange, Take, TypeOK, server
    <2>2. InHand(c) = 0
      BY <1>3 DEF InHand
    <2> QED
      BY <1>0, <1>1, <2>1, <2>2
  <1> QED
    BY <1>2, <1>3

(* Begun commands pay for the results in hand, on the wire and received.   *)
LEMMA ResultsStep == ResultsInv /\ [Next]_vars => ResultsInv'
  <1> SUFFICES ASSUME ResultsInv, [Next]_vars, NEW c \in Command
               PROVE  (received[c] + late[c] + InHand(c) <= handled[c])'
    BY FilterStep DEF ResultsInv, ResultsMatchHandlings
  <1> USE TaskAssumption DEF ResultsInv
  <1>0. /\ TypeOK /\ InHandOK
        /\ received[c] \in Nat /\ late[c] \in Nat /\ handled[c] \in Nat
        /\ InHand(c) \in {0, 1}
        /\ received[c] + late[c] + InHand(c) <= handled[c]
    BY DEF FilterInv, TypeOK, InHand, ResultsMatchHandlings
  <1>1. CASE UNCHANGED <<received, late, handled>> /\ (current' = current \/ InHand(c)' = 0)
    BY <1>0, <1>1 DEF InHand
  <1>2. ASSUME NEW d \in Command, LateResult(d)
        PROVE  (received[c] + late[c] + InHand(c) <= handled[c])'
    <2>1. \/ received'[c] = received[c] + 1 /\ late'[c] = late[c] - 1
          \/ received'[c] = received[c] /\ late'[c] = late[c]
      BY <1>0, <1>2 DEF LateResult, Take, TypeOK
    <2>2. handled' = handled /\ current' = current
      BY <1>2 DEF LateResult, session
    <2> QED
      BY <1>0, <2>1, <2>2 DEF InHand
  <1>3. ASSUME NEW d \in Command, BeginCommand(d)
        PROVE  (received[c] + late[c] + InHand(c) <= handled[c])'
    <2>1. received' = received /\ late' = late /\ current' = d
      BY <1>3 DEF BeginCommand, server
    <2>2. InHand(c) = 0
      BY <1>0, <1>3 DEF InHandOK, BeginCommand, NextTask, InHand
    <2>3. CASE d = c
      <3>1. handled'[c] = handled[c] + 1
        BY <1>0, <1>3, <2>3 DEF BeginCommand, TypeOK
      <3> QED
        BY <1>0, <2>1, <2>2, <2>3, <3>1 DEF InHand
    <2>4. CASE d # c
      <3>1. handled'[c] = handled[c]
        BY <1>0, <1>3, <2>4 DEF BeginCommand, TypeOK
      <3> QED
        BY <1>0, <2>1, <2>2, <2>4, <3>1 DEF InHand
    <2> QED
      BY <2>3, <2>4
  <1>4. CASE SubmitResult
    <2>1. received'[c] + late'[c] <= handled[c]
      BY <1>0, <1>4, ExchangeBound DEF SubmitResult, InHandOK
    <2>2. InHand(c)' = 0 /\ handled' = handled
      BY <1>4 DEF SubmitResult, InHand
    <2>3. received'[c] \in Nat /\ late'[c] \in Nat
      BY FilterStep DEF FilterInv, TypeOK
    <2> QED
      BY <1>0, <2>1, <2>2, <2>3
  <1>5. CASE SubmitResultAndExit
    <2>1. received'[c] + late'[c] <= handled[c]
      BY <1>0, <1>5, ExchangeBound DEF SubmitResultAndExit, InHandOK
    <2>2. InHand(c)' = 0 /\ handled' = handled
      BY <1>0, <1>5, DownReleases DEF SubmitResultAndExit
    <2>3. received'[c] \in Nat /\ late'[c] \in Nat
      BY FilterStep DEF FilterInv, TypeOK
    <2> QED
      BY <1>0, <2>1, <2>2, <2>3
  <1>6. CASE StopSession \/ ResetSession \/ SelfUpdateExits \/ Crash
    BY <1>0, <1>1, <1>6, DownReleases
    DEF StopSession, ResetSession, SelfUpdateExits, Crash, server
  <1>7. CASE BeginSelfUpdate \/ SelfUpdateReturns
    BY <1>0, <1>1, <1>7
    DEF BeginSelfUpdate, SelfUpdateReturns, InHand, server
  <1> QED
    BY <1>0, <1>1, <1>2, <1>3, <1>4, <1>5, <1>6, <1>7
    DEF Next, ServerStep, AgentStep, LoopStep, BatchStep, HandleTask, vars, session,
        server, Issue, Withdraw, StartSession, PullOk, PullError,
        SkipDuplicate, SkipNoOp, EndBatch, RejectCommand, RunCommand

(* The server takes at most one result for each time a command was begun   *)
(* (the single submit_result of handle_task, agent_run.rs).                *)
THEOREM ResultsCorrect == Spec => []ResultsMatchHandlings
  <1>1. Init => ResultsInv
    BY FilterInit, TaskAssumption
    DEF ResultsInv, Init, ResultsMatchHandlings, InHand
  <1>2. ResultsInv => ResultsMatchHandlings
    BY DEF ResultsInv
  <1> QED
    BY <1>1, <1>2, ResultsStep, PTL DEF Spec

-------------------------------------------------------------------------------
(* The duplicate filter implements BoundedDedup. *)

(* The set of the filter is exactly the last Capacity ids accepted.        *)
LEMMA RecentIsSet ==
  ASSUME FilterInv
  PROVE  Dedup!Recent = recent.set
  <1> DEFINE n == Len(accepted)
             m == Len(recent.order)
  <1>1. /\ n \in Nat /\ m \in Nat /\ DOMAIN accepted = 1..n
        /\ DOMAIN recent.order = 1..m
    BY DEF FilterInv, TypeOK, Windows
  <1>2. /\ m = IF n < Capacity THEN n ELSE Capacity
        /\ \A k \in 1..m : recent.order[k] = accepted[n - m + k]
    BY DEF FilterInv, Tracks
  <1>3. recent.set = {recent.order[k] : k \in 1..m}
    BY <1>1 DEF FilterInv, InStep
  <1>4. Dedup!Recent = {accepted[i] : i \in {j \in 1..n : j > n - Capacity}}
    BY <1>1 DEF Dedup!Recent
  <1> HIDE DEF n, m
  <1>5. ASSUME NEW i \in 1..n, i > n - Capacity
        PROVE  \E k \in 1..m : recent.order[k] = accepted[i]
    <2>1. i - (n - m) \in 1..m /\ n - m + (i - (n - m)) = i
      BY <1>1, <1>2, <1>5, CapacityAssumption
    <2> QED
      BY <1>2, <2>1
  <1>6. ASSUME NEW k \in 1..m
        PROVE  \E i \in {j \in 1..n : j > n - Capacity} : accepted[i] = recent.order[k]
    <2>1. n - m + k \in 1..n /\ n - m + k > n - Capacity
      BY <1>1, <1>2, CapacityAssumption
    <2> QED
      BY <1>2, <2>1
  <1> QED
    BY <1>3, <1>4, <1>5, <1>6

(* Every step is an acceptance, a new session or a stutter of BoundedDedup. *)
LEMMA DedupStep ==
  FilterInv /\ [Next]_vars => [Dedup!Next]_accepted
  <1> SUFFICES ASSUME FilterInv, [Next]_vars PROVE [Dedup!Next]_accepted
    OBVIOUS
  <1>1. ASSUME NEW c \in Command, BeginCommand(c) PROVE Dedup!Next
    BY <1>1, RecentIsSet DEF BeginCommand, IsNew, Dedup!Next, Dedup!Accept
  <1>2. CASE Down
    BY <1>2 DEF Down, Dedup!Next, Dedup!NewSession
  <1>3. CASE UNCHANGED accepted
    BY <1>3
  <1> QED
    BY <1>1, <1>2, <1>3
    DEF Next, ServerStep, AgentStep, LoopStep, BatchStep, HandleTask, vars, session,
        Issue, Withdraw, LateResult, StartSession, StopSession, ResetSession, PullOk,
        PullError, SkipDuplicate, SkipNoOp, EndBatch, BeginSelfUpdate, RejectCommand,
        RunCommand, SubmitResult, SubmitResultAndExit, SelfUpdateReturns,
        SelfUpdateExits, Crash

(* The pull loop implements the abstract filter: every acceptance is of an *)
(* id the filter's promise allows, and only a new session forgets.         *)
THEOREM DedupRefinement == Spec => RefinesBoundedDedup
  <1>1. Init => Dedup!Init
    BY DEF Init, Dedup!Init
  <1> QED
    BY <1>1, DedupStep, FilterInvariant, PTL DEF Spec, Dedup!Spec, RefinesBoundedDedup

(* A newly accepted id was not among the last Capacity ids accepted.       *)
LEMMA GapStep ==
  accepted \in Seq(Command) /\ Dedup!RedeliveryGap /\ [Dedup!Next]_accepted
    => Dedup!RedeliveryGap'
  <1> SUFFICES ASSUME accepted \in Seq(Command), Dedup!RedeliveryGap, [Dedup!Next]_accepted
               PROVE  Dedup!RedeliveryGap'
    OBVIOUS
  <1>1. ASSUME NEW c \in Command, Dedup!Accept(c) PROVE Dedup!RedeliveryGap'
    <2>1. accepted' = Append(accepted, c) /\ c \notin Dedup!Recent
      BY <1>1 DEF Dedup!Accept
    <2>2. /\ DOMAIN accepted' = 1..Len(accepted) + 1
          /\ \A i \in 1..Len(accepted) : accepted'[i] = accepted[i]
          /\ accepted'[Len(accepted) + 1] = c
          /\ DOMAIN accepted = 1..Len(accepted) /\ Len(accepted) \in Nat
      BY <2>1
    <2>3. \A i \in 1..Len(accepted) : accepted[i] = c => ~(i > Len(accepted) - Capacity)
      BY <2>1, <2>2 DEF Dedup!Recent
    <2> SUFFICES ASSUME NEW i \in DOMAIN accepted', NEW j \in DOMAIN accepted',
                        i < j, accepted'[i] = accepted'[j]
                 PROVE  j - i > Capacity
      BY DEF Dedup!RedeliveryGap
    <2>4. CASE j \in 1..Len(accepted)
      BY <2>2, <2>4 DEF Dedup!RedeliveryGap
    <2>5. CASE j = Len(accepted) + 1
      BY <2>2, <2>3, <2>5, CapacityAssumption
    <2> QED
      BY <2>2, <2>4, <2>5
  <1>2. CASE Dedup!NewSession
    BY <1>2 DEF Dedup!NewSession, Dedup!RedeliveryGap
  <1>3. CASE UNCHANGED accepted
    BY <1>3 DEF Dedup!RedeliveryGap
  <1> QED
    BY <1>1, <1>2, <1>3 DEF Dedup!Next

(* Two executions of one id in a session are more than Capacity apart      *)
(* (remember_command_id in pull.rs).                                       *)
THEOREM GapCorrect == Spec => []RedeliveryGap
  <1>1. Init => Dedup!RedeliveryGap
    BY DEF Init, Dedup!RedeliveryGap
  <1>2. FilterInv => accepted \in Seq(Command)
    BY DEF FilterInv, TypeOK
  <1> QED
    BY <1>1, <1>2, GapStep, FilterInvariant, DedupRefinement, PTL
    DEF Spec, Dedup!Spec, RefinesBoundedDedup, RedeliveryGap

-------------------------------------------------------------------------------
(* A batch winds down: the safety half of BatchDrains. *)

(* What is left to do of a response: three steps for each task not yet     *)
(* looked at (begun, run, answered), those of the task in hand, and the    *)
(* return to the top of the loop.                                          *)
BatchLeft ==
  CASE pc \in {"down", "loop"}             -> 0
    [] pc = "batch"                        -> 3 * Len(batch) + 1
    [] pc \in {"submit", "submitThenExit"} -> 3 * Len(batch) + 2
    [] pc = "handling"                     -> 3 * Len(batch) + 3

BatchBounded == BatchLeft \in 0..(3 * MaxBatch + 1)

(* Every step on the response takes something off it, and until it is dealt *)
(* with no server, network, crash or later pull puts anything back.         *)
BatchWindsDown ==
  [][/\ BatchStep \/ HandleTask => BatchLeft' < BatchLeft
     /\ BatchLeft > 0 => BatchLeft' <= BatchLeft]_vars

(* The measure is a number, and 0 exactly when no response is dealt with.  *)
LEMMA BatchLeftNat ==
  ASSUME TypeOK, TypeOK'
  PROVE  /\ Len(batch) \in Nat /\ Len(batch') \in Nat
         /\ BatchLeft \in Nat /\ BatchLeft' \in Nat
         /\ BatchLeft = 0 <=> pc \in {"down", "loop"}
  <1>1. pc \in PCs /\ Len(batch) \in Nat
    BY DEF TypeOK
  <1>2. pc' \in PCs /\ Len(batch') \in Nat
    BY DEF TypeOK
  <1>3. BatchLeft \in Nat /\ (BatchLeft = 0 <=> pc \in {"down", "loop"})
    BY <1>1 DEF BatchLeft, PCs
  <1>4. BatchLeft' \in Nat
    BY <1>2 DEF BatchLeft, PCs
  <1> QED
    BY <1>1, <1>2, <1>3, <1>4

(* Each step of the loop that is on a response shortens the rest of it.    *)
LEMMA BatchShrinks ==
  ASSUME FilterInv, FilterInv', BatchStep \/ HandleTask
  PROVE  BatchLeft' < BatchLeft
  <1>0. TypeOK /\ TypeOK'
    BY DEF FilterInv
  <1>1. Len(batch) \in Nat /\ Len(batch') \in Nat
    BY <1>0, BatchLeftNat
  <1>2. CASE SkipDuplicate \/ SkipNoOp
    <2>1. pc = "batch" /\ pc' = "batch" /\ Len(batch') = Len(batch) - 1
      BY <1>0, <1>2 DEF SkipDuplicate, SkipNoOp, NextTask, TypeOK
    <2> QED
      BY <1>0, <1>1, <2>1 DEF BatchLeft
  <1>3. CASE BeginSelfUpdate \/ \E c \in Command : BeginCommand(c)
    <2>1. pc = "batch" /\ pc' = "handling" /\ Len(batch') = Len(batch) - 1
      BY <1>0, <1>3 DEF BeginSelfUpdate, BeginCommand, NextTask, TypeOK
    <2> QED
      BY <1>0, <1>1, <2>1 DEF BatchLeft
  <1>4. CASE EndBatch
    BY <1>0, <1>1, <1>4 DEF EndBatch, BatchLeft, TypeOK
  <1>5. CASE RejectCommand \/ RunCommand
    <2>1. /\ pc = "handling" /\ pc' \in {"submit", "submitThenExit"}
          /\ batch' = batch
      BY <1>5 DEF RejectCommand, RunCommand, session
    <2> QED
      BY <1>0, <1>1, <2>1 DEF BatchLeft
  <1>6. CASE SubmitResult \/ SelfUpdateReturns
    <2>1. pc \in {"submit", "handling"} /\ pc' = "batch" /\ batch' = batch
      BY <1>6 DEF SubmitResult, SelfUpdateReturns
    <2> QED
      BY <1>0, <1>1, <2>1 DEF BatchLeft
  <1>7. CASE SubmitResultAndExit \/ SelfUpdateExits
    <2>1. pc \in {"submitThenExit", "handling"} /\ pc' = "down"
      BY <1>7 DEF SubmitResultAndExit, SelfUpdateExits, Down
    <2> QED
      BY <1>0, <1>1, <2>1 DEF BatchLeft
  <1> QED
    BY <1>2, <1>3, <1>4, <1>5, <1>6, <1>7 DEF BatchStep, HandleTask

(* Whatever else happens meanwhile leaves the rest of a response as it is  *)
(* or ends the session.                                                    *)
LEMMA BatchKept ==
  ASSUME FilterInv, FilterInv', [Next]_vars, BatchLeft > 0
  PROVE  BatchLeft' <= BatchLeft
  <1>0. TypeOK /\ TypeOK' /\ BatchLeft \in Nat /\ BatchLeft' \in Nat
    BY BatchLeftNat DEF FilterInv
  <1>1. pc \notin {"down", "loop"}
    BY <1>0, BatchLeftNat
  <1>2. CASE BatchStep \/ HandleTask
    BY <1>0, <1>2, BatchShrinks
  <1>3. CASE ServerStep \/ UNCHANGED vars
    <2>1. UNCHANGED <<pc, batch>>
      BY <1>3 DEF ServerStep, Issue, Withdraw, LateResult, vars, session
    <2>2. BatchLeft' = BatchLeft
      BY <2>1 DEF BatchLeft
    <2> QED
      BY <1>0, <2>2
  <1>4. CASE Crash
    <2>1. pc' = "down"
      BY <1>4 DEF Crash, Down
    <2>2. BatchLeft' = 0
      BY <2>1 DEF BatchLeft
    <2> QED
      BY <1>0, <2>2
  <1>5. CASE StartSession \/ LoopStep
    BY <1>1, <1>5
    DEF StartSession, LoopStep, StopSession, ResetSession, PullOk, PullError
  <1> QED
    BY <1>2, <1>3, <1>4, <1>5 DEF Next, AgentStep

(* A response of n tasks takes the loop at most 3n + 1 steps, whatever is  *)
(* duplicated, rejected or not received: no path of handle_task returns to *)
(* a task it has left (run_pull_session in agent_run.rs).                  *)
THEOREM BatchTerminates == Spec => []BatchBounded /\ BatchWindsDown
  <1>1. Init => BatchBounded
    <2> SUFFICES ASSUME Init PROVE BatchBounded
      OBVIOUS
    <2>1. BatchLeft = 0
      BY DEF Init, BatchLeft
    <2> QED
      BY <2>1, BoundAssumption DEF BatchBounded
  <1>2. FilterInv /\ FilterInv' /\ BatchBounded /\ [Next]_vars => BatchBounded'
    <2> SUFFICES ASSUME FilterInv, FilterInv', BatchBounded, [Next]_vars
                 PROVE  BatchBounded'
      OBVIOUS
    <2>0. TypeOK /\ TypeOK' /\ MaxBatch \in Nat
      BY BoundAssumption DEF FilterInv
    <2>1. CASE BatchLeft > 0
      BY <2>0, <2>1, BatchKept, BatchLeftNat DEF BatchBounded
    <2>2. CASE BatchLeft = 0 /\ PullOk
      <3>1. PICK n \in 0..MaxBatch : batch' \in [1..n -> outstanding \cup {SelfUpdate, NoOp}]
        BY <2>2 DEF PullOk, Responses
      <3>2. pc' = "batch" /\ Len(batch') = n
        BY <2>0, <2>2, <3>1 DEF PullOk, TypeOK
      <3> QED
        BY <2>0, <3>2 DEF BatchBounded, BatchLeft
    <2>3. CASE BatchLeft = 0 /\ ~PullOk
      <3>1. pc \in {"down", "loop"}
        BY <2>0, <2>3, BatchLeftNat
      <3>2. pc' \in {"down", "loop"}
        BY <2>3, <3>1
        DEF Next, ServerStep, AgentStep, LoopStep, BatchStep, HandleTask, vars, session,
            Issue, Withdraw, LateResult, StartSession, StopSession, ResetSession,
            PullError, SkipDuplicate, SkipNoOp, EndBatch, BeginSelfUpdate, BeginCommand,
            NextTask, RejectCommand, RunCommand, SubmitResult, SubmitResultAndExit,
            SelfUpdateReturns, SelfUpdateExits, Crash, Down
      <3> QED
        BY <2>0, <3>2 DEF BatchBounded, BatchLeft
    <2> QED
      BY <2>0, <2>1, <2>2, <2>3, BatchLeftNat
  <1>3. FilterInv /\ FilterInv' /\ [Next]_vars
          => [/\ BatchStep \/ HandleTask => BatchLeft' < BatchLeft
              /\ BatchLeft > 0 => BatchLeft' <= BatchLeft]_vars
    BY BatchShrinks, BatchKept
  <1> QED
    BY <1>1, <1>2, <1>3, FilterInvariant, PTL DEF Spec, BatchWindsDown

===============================================================================
