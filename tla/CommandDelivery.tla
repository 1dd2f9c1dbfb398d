---------------------------- MODULE CommandDelivery ----------------------------
(***************************************************************************)
(* How a command travels from the server to the agent and its result back: *)
(* the pull loop of src/src/agent_run.rs (run_pull_session, handle_task),  *)
(* the duplicate filter of src/src/pull.rs and the single attempt of       *)
(* src/src/client.rs to submit a result.                                   *)
(*                                                                         *)
(* One session is one call of run_pull_session; everything it keeps is     *)
(* volatile and starts afresh with the next one, whether the session was   *)
(* left by a return, by process::exit or by the death of the process.  The *)
(* server hands out any command it still waits for, as often as it likes.  *)
(*                                                                         *)
(* Left to other modules: the heartbeat thread (HeartbeatSession), why a   *)
(* session stops, and what a handler does to the machine.                  *)
(***************************************************************************)
EXTENDS RecentCommandIds, FiniteSetsExt

CONSTANTS
  SelfUpdate, NoOp,     \* the two kinds of task that carry no command id
  NoTask,               \* nothing in hand
  MaxPullFailures,      \* MAX_CONSECUTIVE_PULL_FAILURES (5 in the code)
  MaxBatch,             \* bound: tasks in one pull response
  MaxAccepted,          \* bound: commands begun, over all sessions
  MaxSessions           \* bound: sessions

ASSUME TaskAssumption ==
  /\ SelfUpdate \notin Command
  /\ NoOp \notin Command \cup {SelfUpdate}
  /\ NoTask \notin Command \cup {SelfUpdate, NoOp}

ASSUME BoundAssumption ==
  {MaxPullFailures, MaxBatch, MaxAccepted, MaxSessions} \subseteq Nat \ {0}

Task == Command \cup {SelfUpdate, NoOp}

VARIABLES
  outstanding,  \* server: commands handed out until their result is in
  received,     \* server: how many results of each command it has taken
  late,         \* network: results the agent gave up on that may still arrive
  pc,           \* where the pull loop is
  batch,        \* response.tasks not yet looked at
  current,      \* the task in handle_task, or NoTask
  recent,       \* recent_command_ids
  failures,     \* consecutive_pull_failures
  sessions,     \* sessions started so far
  accepted,     \* history: ids begun in this session, oldest first
  answered,     \* history: ids whose result this session tried to submit
  handled       \* history: how often each command was begun, over all sessions

server  == <<outstanding, received, late>>
session == <<batch, current, recent, failures, accepted, answered>>
vars    == <<server, pc, session, sessions, handled>>

PCs == {"down", "loop", "batch", "handling", "submit", "submitThenExit"}

(* Types; failures in particular never passes the limit at which           *)
(* should_reset_pull_session ends the session.                             *)
TypeOK ==
  /\ outstanding \subseteq Command
  /\ received \in [Command -> Nat]
  /\ late \in [Command -> Nat]
  /\ pc \in PCs
  /\ batch \in Seq(Task)
  /\ current \in Command \cup {SelfUpdate, NoTask}
  /\ recent \in Windows
  /\ failures \in 0..MaxPullFailures
  /\ sessions \in 0..MaxSessions
  /\ accepted \in Seq(Command)
  /\ answered \in Seq(Command)
  /\ handled \in [Command -> Nat]

-------------------------------------------------------------------------------

Init ==
  /\ outstanding = {}
  /\ received = [c \in Command |-> 0]
  /\ late = [c \in Command |-> 0]
  /\ pc = "down"
  /\ batch = << >> /\ current = NoTask
  /\ recent = EmptyWindow /\ failures = 0
  /\ accepted = << >> /\ answered = << >>
  /\ sessions = 0
  /\ handled = [c \in Command |-> 0]

(* The session is gone and all it remembered with it.                      *)
Down ==
  /\ pc' = "down"
  /\ batch' = << >>
  /\ current' = NoTask
  /\ recent' = EmptyWindow
  /\ failures' = 0
  /\ accepted' = << >>
  /\ answered' = << >>
  /\ UNCHANGED sessions

-------------------------------------------------------------------------------
(* The server and the network.                                             *)

(* An operator queues a command; each id is used for one command.          *)
Issue(c) ==
  /\ received[c] = 0 /\ handled[c] = 0
  /\ c \notin outstanding
  /\ outstanding' = outstanding \cup {c}
  /\ UNCHANGED <<received, late, pc, session, sessions, handled>>

(* The server stops waiting without a result: a reboot it completes when   *)
(* the host is back online, a command the operator gave up on.             *)
Withdraw(c) ==
  /\ handled[c] > 0
  /\ outstanding' = outstanding \ {c}
  /\ UNCHANGED <<received, late, pc, session, sessions, handled>>

Take(c) ==
  /\ received' = [received EXCEPT ![c] = @ + 1]
  /\ outstanding' = outstanding \ {c}

(* A result whose submission timed out on the agent reaches the server.    *)
LateResult(c) ==
  /\ late[c] > 0
  /\ late' = [late EXCEPT ![c] = @ - 1]
  /\ Take(c)
  /\ UNCHANGED <<pc, session, sessions, handled>>

-------------------------------------------------------------------------------
(* The service loop and the top of the pull loop.                          *)

StartSession ==
  /\ pc = "down"
  /\ sessions < MaxSessions
  /\ pc' = "loop"
  /\ sessions' = sessions + 1
  /\ UNCHANGED <<server, session, handled>>

(* should_stop, ServerIdentityChanged, no pull within the startup grace,   *)
(* or a pull or state sync answered with "revoked".                        *)
StopSession ==
  /\ pc = "loop"
  /\ Down
  /\ UNCHANGED <<server, handled>>

(* should_reset_pull_session on sustained pull failures.                   *)
ResetSession ==
  /\ pc = "loop"
  /\ failures = MaxPullFailures
  /\ Down
  /\ UNCHANGED <<server, handled>>

HandledSoFar == MapThenSumSet(LAMBDA c : handled[c], Command)

Responses ==
  UNION {[1..n -> outstanding \cup {SelfUpdate, NoOp}] : n \in 0..MaxBatch}

PullOk ==
  /\ pc = "loop"
  /\ failures < MaxPullFailures
  /\ batch' \in Responses
  /\ HandledSoFar + Len(batch') <= MaxAccepted
  /\ pc' = "batch"
  /\ UNCHANGED <<server, current, recent, failures, accepted, answered, sessions, handled>>

(* Mutant: the threshold of should_reset_pull_session passed by one.       *)
PullErrorOnceMore ==
  /\ pc = "loop"
  /\ failures <= MaxPullFailures
  /\ failures' = failures + 1
  /\ UNCHANGED <<server, pc, batch, current, recent, accepted, answered, sessions, handled>>

PullError ==
  /\ pc = "loop"
  /\ failures < MaxPullFailures
  /\ failures' = failures + 1
  /\ UNCHANGED <<server, pc, batch, current, recent, accepted, answered, sessions, handled>>

-------------------------------------------------------------------------------
(* for task in response.tasks                                              *)

NextTask == pc = "batch" /\ batch # << >>

SkipDuplicate ==
  /\ NextTask
  /\ Head(batch) \in Command /\ ~IsNew(recent, Head(batch))
  /\ batch' = Tail(batch)
  /\ UNCHANGED <<server, pc, current, recent, failures, accepted, answered, sessions, handled>>

SkipNoOp ==
  /\ NextTask
  /\ Head(batch) = NoOp
  /\ batch' = Tail(batch)
  /\ UNCHANGED <<server, pc, current, recent, failures, accepted, answered, sessions, handled>>

(* remember_command_id, then begin_command: the id is remembered before    *)
(* the signature is verified and before anything is run.                   *)
BeginCommand(c) ==
  /\ NextTask
  /\ Head(batch) = c /\ IsNew(recent, c)
  /\ batch' = Tail(batch)
  /\ current' = c
  /\ recent' = InsertIfNew(recent, c)
  /\ accepted' = Append(accepted, c)
  /\ handled' = [handled EXCEPT ![c] = @ + 1]
  /\ pc' = "handling"
  /\ UNCHANGED <<server, failures, answered, sessions>>

BeginSelfUpdate ==
  /\ NextTask
  /\ Head(batch) = SelfUpdate
  /\ batch' = Tail(batch)
  /\ current' = SelfUpdate
  /\ pc' = "handling"
  /\ UNCHANGED <<server, recent, failures, accepted, answered, sessions, handled>>

(* Mutant: the batch waits until the server has every result.              *)
EndBatchWhenReceived ==
  /\ pc = "batch" /\ batch = << >>
  /\ \A c \in Command : received[c] = handled[c]
  /\ failures' = 0
  /\ pc' = "loop"
  /\ UNCHANGED <<server, batch, current, recent, accepted, answered, sessions, handled>>

(* The loop body is done: sleep, and back to the top.                      *)
EndBatch ==
  /\ pc = "batch" /\ batch = << >>
  /\ failures' = 0
  /\ pc' = "loop"
  /\ UNCHANGED <<server, batch, current, recent, accepted, answered, sessions, handled>>

-------------------------------------------------------------------------------
(* handle_task                                                             *)

(* Mutant: an early return of handle_task without a result.                *)
RejectSilently ==
  /\ pc = "handling" /\ current \in Command
  /\ current' = NoTask
  /\ pc' = "batch"
  /\ UNCHANGED <<server, batch, recent, failures, accepted, answered, sessions, handled>>

(* Bad task signature, no signing key, or not allowed by policy: an error  *)
(* result and nothing else.                                                *)
RejectCommand ==
  /\ pc = "handling" /\ current \in Command
  /\ pc' = "submit"
  /\ UNCHANGED <<server, session, sessions, handled>>

(* The handler has run, whatever its exit code.  An agent.update that      *)
(* replaced the binary leaves the process once its result is submitted.    *)
RunCommand ==
  /\ pc = "handling" /\ current \in Command
  /\ pc' \in {"submit", "submitThenExit"}
  /\ UNCHANGED <<server, session, sessions, handled>>

(* The one call of submit_result; a failure is only logged.  It returns Ok *)
(* and the server has the result, or it fails and the server has it too    *)
(* (the reply was lost), gets it later, or never gets it.                  *)
Exchange(c) ==
  \/ /\ Take(c)
     /\ UNCHANGED late
  \/ /\ late' = [late EXCEPT ![c] = @ + 1]
     /\ UNCHANGED <<outstanding, received>>
  \/ UNCHANGED server

(* Mutant: a failed submission is tried again.                             *)
SubmitWithRetry ==
  /\ pc = "submit"
  /\ Exchange(current)
  /\ \/ /\ answered' = Append(answered, current)
        /\ current' = NoTask
        /\ pc' = "batch"
     \/ /\ received' = received
        /\ UNCHANGED <<answered, current, pc>>
  /\ UNCHANGED <<batch, recent, failures, accepted, sessions, handled>>

SubmitResult ==
  /\ pc = "submit"
  /\ Exchange(current)
  /\ answered' = Append(answered, current)
  /\ current' = NoTask
  /\ pc' = "batch"
  /\ UNCHANGED <<batch, recent, failures, accepted, sessions, handled>>

SubmitResultAndExit ==
  /\ pc = "submitThenExit"
  /\ Exchange(current)
  /\ Down
  /\ UNCHANGED handled

(* A self-update that failed, or whose installer never stopped the agent.  *)
SelfUpdateReturns ==
  /\ pc = "handling" /\ current = SelfUpdate
  /\ current' = NoTask
  /\ pc' = "batch"
  /\ UNCHANGED <<server, batch, recent, failures, accepted, answered, sessions, handled>>

SelfUpdateExits ==
  /\ pc = "handling" /\ current = SelfUpdate
  /\ Down
  /\ UNCHANGED <<server, handled>>

(* The process dies: a reboot it was asked for, a package installer that   *)
(* stops the service, a power cut.                                         *)
Crash ==
  /\ pc # "down"
  /\ Down
  /\ UNCHANGED <<server, handled>>

-------------------------------------------------------------------------------

ServerStep == \E c \in Command : Issue(c) \/ Withdraw(c) \/ LateResult(c)

HandleTask ==
  \/ RejectCommand \/ RunCommand
  \/ SubmitResult \/ SubmitResultAndExit
  \/ SelfUpdateReturns \/ SelfUpdateExits

BatchStep ==
  \/ SkipDuplicate \/ SkipNoOp \/ BeginSelfUpdate \/ EndBatch
  \/ \E c \in Command : BeginCommand(c)

LoopStep == StopSession \/ ResetSession \/ PullOk \/ PullError

AgentStep == StartSession \/ LoopStep \/ BatchStep \/ HandleTask

Next == ServerStep \/ AgentStep \/ Crash

Spec == Init /\ [][Next]_vars

(* The loop is never parked and handlers return (shell.run, which may not, *)
(* is looked at in ShellRun), so the pull loop's own steps are fair;       *)
(* nothing is assumed of the server, of the network or of crashes.         *)
FairSpec == Spec /\ WF_vars(BatchStep) /\ WF_vars(HandleTask)

-------------------------------------------------------------------------------

(* The queue and the set of the duplicate filter agree, hold no id twice   *)
(* and stay within the capacity, whatever is redelivered in what order     *)
(* (pull.rs, insert_if_new).                                               *)
WindowInStep == InStep(recent)

(* Every command a session begins is answered exactly once, in the order   *)
(* it was begun: handle_task has no return that forgets submit_result and  *)
(* none that submits twice.                                                *)
AnsweredInOrder ==
  accepted = IF current \in Command THEN Append(answered, current) ELSE answered

InHand(c) == IF current = c THEN 1 ELSE 0

(* The server never takes more results of a command than times the agent   *)
(* began it, over all sessions, crashes and late deliveries: a result is   *)
(* submitted once and never re-sent after a timeout (client.rs).           *)
ResultsMatchHandlings ==
  \A c \in Command : received[c] + late[c] + InHand(c) <= handled[c]

Dedup == INSTANCE BoundedDedup WITH accepted <- accepted

(* The duplicate filter implements BoundedDedup: whatever is redelivered,  *)
(* evicted or rejected, a step of the pull loop accepts an id the promise  *)
(* allows, starts a new session or is invisible (remember_command_id).     *)
RefinesBoundedDedup == Dedup!Spec

(* Within a session, two executions of one id are more than Capacity       *)
(* accepted commands apart (RECENT_COMMAND_ID_CAPACITY in pull.rs).        *)
RedeliveryGap == Dedup!RedeliveryGap

(* Every task of a pull response is dealt with, or the session ends: no    *)
(* duplicate, rejected command or failed submission stalls the batch.      *)
BatchDrains == pc = "batch" ~> pc \in {"loop", "down"}

===============================================================================
