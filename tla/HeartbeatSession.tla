--------------------------- MODULE HeartbeatSession ---------------------------
(***************************************************************************)
(* One pull session seen as its two threads: the pull loop (run_pull_      *)
(* session, src/src/agent_run.rs) and the heartbeat thread (HeartbeatThread*)
(* ::spawn, send_heartbeat_once, src/src/pull.rs).  They share             *)
(* AgentSessionState, a set of atomics and small mutexes with no lock over *)
(* the whole, so each load, store or locked access is a step of its own.   *)
(* Steps of one thread on state no other thread writes are merged.         *)
(*                                                                         *)
(* Time is abstract: age counts the pull_stale_after windows the session   *)
(* has lived (2 = beyond the reset limit), lastPull goes stale on its own. *)
(* Tag sets are numbered in the order they are computed: 0 is the startup  *)
(* set, higher numbers come from queue_tag_refresh.                        *)
(***************************************************************************)
EXTENDS Integers

CONSTANTS
  Command,               \* ids of the commands the session may run
  NoId,                  \* None: no command id
  NoTags,                \* None: no tag set
  MaxHeartbeatFailures,  \* MAX_CONSECUTIVE_HEARTBEAT_FAILURES (6 in the code)
  MaxPullFailures,       \* MAX_CONSECUTIVE_PULL_FAILURES (5 in the code)
  MaxBatch,              \* bound: tasks in one pull response
  MaxRefreshes           \* bound: tag refreshes in the session

ASSUME NoneAssumption == NoId \notin Command /\ NoTags \notin Nat

ASSUME LimitAssumption ==
  /\ {MaxHeartbeatFailures, MaxPullFailures, MaxBatch} \subseteq Nat \ {0}
  /\ MaxRefreshes \in Nat

VARIABLES
  (* AgentSessionState *)
  stop, startupTags, pendingTags, busy, commandId, lastPull, hbFailures,
  (* the pull loop *)
  loopPc,      \* where it is
  left,        \* tasks of the response not yet begun
  running,     \* the id of the task in hand (NoId for a self-update)
  failures,    \* consecutive_pull_failures
  (* the heartbeat thread *)
  hbPc,        \* where it is
  msg,         \* the request being put together
  (* the world *)
  age,         \* stale windows since the session started, up to 2
  serverTags,  \* the last tag set the server has recorded
  late,        \* tag sets of failed heartbeats: they arrive later, or never
  (* history *)
  newest,      \* the tag set computed last
  reached,     \* tag sets the server recorded at some time
  hbRun,       \* heartbeats failed in a row, up to MaxHeartbeatFailures
  seen         \* ids in flight between the message's two reads, busy and id

loopVars  == <<loopPc, left, running, failures>>
hbVars    == <<hbPc, msg>>
wireVars  == <<serverTags, late, reached>>
tagVars   == <<startupTags, pendingTags, newest, wireVars>>
workVars  == <<busy, commandId, seen>>
failVars  == <<hbFailures, hbRun>>
clockVars == <<lastPull, age>>
vars == <<stop, loopVars, hbVars, tagVars, workVars, failVars, clockVars>>

TagSets == 0..MaxRefreshes \cup {NoTags}
Ids     == Command \cup {NoId}

LoopPCs == {"top", "gui", "proxmox", "pull", "batch", "setId", "run", "clearId",
            "drop", "join", "ended"}
HbPCs   == {"check", "take", "readBusy", "readId", "readPull", "send", "ok",
            "failed", "giveUp", "sleep", "done"}

Messages == [tags : TagSets, busy : BOOLEAN, id : Ids, healthy : BOOLEAN]

Blank == [tags |-> NoTags, busy |-> FALSE, id |-> NoId, healthy |-> TRUE]

(* Types; both failure counters stay within their limits although the pull *)
(* loop resets the one the heartbeat thread counts.                        *)
TypeOK ==
  /\ stop \in BOOLEAN
  /\ {startupTags, pendingTags, serverTags, newest} \subseteq TagSets
  /\ {late, reached} \subseteq SUBSET (TagSets \ {NoTags})
  /\ busy \in BOOLEAN
  /\ commandId \in Ids
  /\ running \in Ids
  /\ seen \subseteq Command
  /\ lastPull \in {"never", "recent", "stale"}
  /\ age \in 0..2
  /\ hbFailures \in 0..MaxHeartbeatFailures
  /\ hbRun \in 0..MaxHeartbeatFailures
  /\ failures \in 0..MaxPullFailures
  /\ left \in 0..MaxBatch
  /\ loopPc \in LoopPCs
  /\ hbPc \in HbPCs
  /\ msg \in Messages

(* collect_agent_tags may fail: then there is no startup set.  The heart-  *)
(* beat thread ends at once if it gets no runtime.                         *)
Init ==
  /\ startupTags \in {0, NoTags} /\ newest = startupTags
  /\ pendingTags = NoTags /\ serverTags = NoTags
  /\ late = {} /\ reached = {}
  /\ stop = FALSE
  /\ busy = FALSE /\ commandId = NoId /\ seen = {}
  /\ lastPull = "never" /\ age = 0
  /\ hbFailures = 0 /\ hbRun = 0
  /\ loopPc = "top" /\ left = 0 /\ running = NoId /\ failures = 0
  /\ hbPc \in {"check", "done"} /\ msg = Blank

-------------------------------------------------------------------------------
(* The pull loop.                                                          *)

LoopTo(from, to) == loopPc = from /\ loopPc' = to

(* Mutant: the limit of pull failures is exceeded instead of reached.      *)
ResetPastLimit ==
  \/ failures > MaxPullFailures
  \/ lastPull = "never" /\ age = 2

(* should_reset_pull_session                                               *)
ShouldReset ==
  \/ failures >= MaxPullFailures
  \/ lastPull = "never" /\ age = 2

LoopTop ==
  /\ LoopTo("top", IF stop \/ ShouldReset THEN "drop" ELSE "gui")
  /\ UNCHANGED <<stop, left, running, failures, hbVars, tagVars, workVars, failVars, clockVars>>

(* The session ends for a reason outside this module: the server identity  *)
(* changed on disk, or a state sync or a pull was answered "revoked".      *)
Leave ==
  /\ loopPc \in {"top", "pull"} /\ loopPc' = "drop"
  /\ UNCHANGED <<stop, left, running, failures, hbVars, tagVars, workVars, failVars, clockVars>>

(* Twice per iteration, for the desktop and for the Proxmox helper: if the *)
(* helper's tags changed, queue the merged set.                            *)
RefreshTags(from, to) ==
  /\ LoopTo(from, to)
  /\ \/ UNCHANGED <<newest, pendingTags>>
     \/ \E v \in 1..MaxRefreshes :
          /\ v = IF newest = NoTags THEN 1 ELSE newest + 1
          /\ newest' = v
          /\ pendingTags' = v
  /\ UNCHANGED <<stop, left, running, failures, hbVars, startupTags, wireVars,
                 workVars, failVars, clockVars>>

PullOk ==
  /\ LoopTo("pull", "batch")
  /\ lastPull' = "recent"
  /\ left' \in 0..MaxBatch
  /\ UNCHANGED <<stop, running, failures, hbVars, tagVars, workVars, failVars, age>>

PullError ==
  /\ LoopTo("pull", "top")
  /\ failures' = failures + 1
  /\ UNCHANGED <<stop, left, running, hbVars, tagVars, workVars, failVars, clockVars>>

(* begin_busy raises the flag first and names the command second.          *)
BeginBusy ==
  /\ LoopTo("batch", "setId")
  /\ left > 0 /\ left' = left - 1
  /\ busy' = TRUE
  /\ running' \in Ids
  /\ seen' = IF hbPc = "readId" THEN seen \cup ({running'} \cap Command) ELSE seen
  /\ UNCHANGED <<stop, failures, hbVars, tagVars, commandId, failVars, clockVars>>

SetId ==
  /\ LoopTo("setId", "run")
  /\ commandId' = running
  /\ UNCHANGED <<stop, left, running, failures, hbVars, tagVars, busy, seen, failVars, clockVars>>

(* end_command: the flag first, then the id.                               *)
EndBusy ==
  /\ LoopTo("run", "clearId")
  /\ busy' = FALSE
  /\ UNCHANGED <<stop, left, running, failures, hbVars, tagVars, commandId, seen, failVars, clockVars>>

(* Mutant: end_command lowers the flag and leaves the id.                  *)
LeaveId ==
  /\ LoopTo("clearId", "batch")
  /\ running' = NoId
  /\ UNCHANGED <<stop, left, failures, hbVars, tagVars, busy, commandId, seen, failVars, clockVars>>

ClearId ==
  /\ LoopTo("clearId", "batch")
  /\ commandId' = NoId
  /\ running' = NoId
  /\ UNCHANGED <<stop, left, failures, hbVars, tagVars, busy, seen, failVars, clockVars>>

(* A task that runs nothing: a NoOp or a duplicate command id.             *)
SkipTask ==
  /\ LoopTo("batch", "batch")
  /\ left > 0 /\ left' = left - 1
  /\ UNCHANGED <<stop, running, failures, hbVars, tagVars, workVars, failVars, clockVars>>

(* After the last task: reset_transport_failures, sleep, back to the top.  *)
EndBatch ==
  /\ LoopTo("batch", "top")
  /\ left = 0
  /\ failures' = 0
  /\ hbFailures' = 0
  /\ UNCHANGED <<stop, left, running, hbVars, tagVars, workVars, hbRun, clockVars>>

(* Drop for HeartbeatThread: request_stop, then join.                      *)
DropRequestsStop ==
  /\ LoopTo("drop", "join")
  /\ stop' = TRUE
  /\ UNCHANGED <<left, running, failures, hbVars, tagVars, workVars, failVars, clockVars>>

DropJoins ==
  /\ LoopTo("join", "ended")
  /\ hbPc = "done"
  /\ UNCHANGED <<stop, left, running, failures, hbVars, tagVars, workVars, failVars, clockVars>>

-------------------------------------------------------------------------------
(* The heartbeat thread.                                                   *)

HbTo(from, to) == hbPc = from /\ hbPc' = to

(* Mutant: the heartbeat loop does not look at the stop flag.              *)
IgnoreStop ==
  /\ HbTo("check", "take")
  /\ UNCHANGED <<stop, loopVars, msg, tagVars, workVars, failVars, clockVars>>

CheckStop ==
  /\ HbTo("check", IF stop THEN "done" ELSE "take")
  /\ UNCHANGED <<stop, loopVars, msg, tagVars, workVars, failVars, clockVars>>

(* Mutant: both sets are taken, and the startup set preferred.             *)
TakeBoth ==
  /\ HbTo("take", "readBusy")
  /\ msg' = [Blank EXCEPT !.tags = IF startupTags # NoTags THEN startupTags ELSE pendingTags]
  /\ startupTags' = NoTags /\ pendingTags' = NoTags
  /\ UNCHANGED <<stop, loopVars, newest, wireVars, workVars, failVars, clockVars>>

(* Mutant: the pending set is preferred to the startup set.                *)
TakePendingFirst ==
  /\ HbTo("take", "readBusy")
  /\ IF pendingTags # NoTags
     THEN /\ msg' = [Blank EXCEPT !.tags = pendingTags]
          /\ pendingTags' = NoTags
          /\ UNCHANGED startupTags
     ELSE /\ msg' = [Blank EXCEPT !.tags = startupTags]
          /\ startupTags' = NoTags
          /\ UNCHANGED pendingTags
  /\ UNCHANGED <<stop, loopVars, newest, wireVars, workVars, failVars, clockVars>>

(* take_heartbeat_tags: the startup set if it is still there, or else the  *)
(* pending one; either is taken, not copied.                               *)
TakeTags ==
  /\ HbTo("take", "readBusy")
  /\ IF startupTags # NoTags
     THEN /\ msg' = [Blank EXCEPT !.tags = startupTags]
          /\ startupTags' = NoTags
          /\ UNCHANGED pendingTags
     ELSE /\ msg' = [Blank EXCEPT !.tags = pendingTags]
          /\ pendingTags' = NoTags
          /\ UNCHANGED startupTags
  /\ UNCHANGED <<stop, loopVars, newest, wireVars, workVars, failVars, clockVars>>

InFlight == IF loopPc \in {"setId", "run"} THEN {running} \cap Command ELSE {}

(* Mutant: the snapshot waits for the command, as it would behind a lock.  *)
WaitWhileBusy ==
  /\ ~busy
  /\ HbTo("readBusy", "readPull")
  /\ msg' = [msg EXCEPT !.busy = busy]
  /\ seen' = InFlight
  /\ UNCHANGED <<stop, loopVars, tagVars, busy, commandId, failVars, clockVars>>

(* health_snapshot: the flag, the id if the flag was up, the last pull.    *)
ReadBusy ==
  /\ HbTo("readBusy", IF busy THEN "readId" ELSE "readPull")
  /\ msg' = [msg EXCEPT !.busy = busy]
  /\ seen' = InFlight
  /\ UNCHANGED <<stop, loopVars, tagVars, busy, commandId, failVars, clockVars>>

ReadId ==
  /\ HbTo("readId", "readPull")
  /\ msg' = [msg EXCEPT !.id = commandId]
  /\ UNCHANGED <<stop, loopVars, tagVars, workVars, failVars, clockVars>>

ReadPull ==
  /\ HbTo("readPull", "send")
  /\ msg' = [msg EXCEPT !.healthy =
               msg.busy \/ lastPull = "recent" \/ (lastPull = "never" /\ age = 0)]
  /\ UNCHANGED <<stop, loopVars, tagVars, workVars, failVars, clockVars>>

(* A heartbeat without tags leaves the server's tags alone.                *)
Arrives(tags) ==
  /\ serverTags' = IF tags = NoTags THEN serverTags ELSE tags
  /\ reached' = reached \cup ({tags} \ {NoTags})

SendOk ==
  /\ HbTo("send", "ok")
  /\ Arrives(msg.tags)
  /\ UNCHANGED <<stop, loopVars, msg, startupTags, pendingTags, newest, late,
                 workVars, failVars, clockVars>>

(* The request fails: after the server recorded it, or else it may be lost *)
(* or still be under way when the client gives up on it (its timeout).     *)
SendError ==
  /\ HbTo("send", "failed")
  /\ \/ Arrives(msg.tags) /\ UNCHANGED late
     \/ late' = late \cup ({msg.tags} \ {NoTags}) /\ UNCHANGED <<serverTags, reached>>
  /\ UNCHANGED <<stop, loopVars, msg, startupTags, pendingTags, newest,
                 workVars, failVars, clockVars>>

(* A heartbeat the agent has given up on arrives after all.                *)
LateHeartbeat ==
  \E tags \in late :
    /\ late' = late \ {tags}
    /\ Arrives(tags)
    /\ UNCHANGED <<stop, loopVars, hbVars, startupTags, pendingTags, newest,
                   workVars, failVars, clockVars>>

(* send_heartbeat_once has returned: its locals are gone.                  *)
EndOfMessage == msg' = Blank /\ seen' = {}

(* Mutant: a heartbeat that succeeds leaves the failure counter.           *)
KeepFailures ==
  /\ HbTo("ok", "sleep")
  /\ hbRun' = 0
  /\ EndOfMessage
  /\ UNCHANGED <<stop, loopVars, tagVars, busy, commandId, hbFailures, clockVars>>

RecordSuccess ==
  /\ HbTo("ok", "sleep")
  /\ hbFailures' = 0
  /\ hbRun' = 0
  /\ EndOfMessage
  /\ UNCHANGED <<stop, loopVars, tagVars, busy, commandId, clockVars>>

(* Mutant: the limit is exceeded instead of reached.                       *)
RecordFailureOnceMore ==
  /\ HbTo("failed", IF hbFailures + 1 > MaxHeartbeatFailures THEN "giveUp" ELSE "sleep")
  /\ hbFailures' = hbFailures + 1
  /\ hbRun' = IF hbRun < MaxHeartbeatFailures THEN hbRun + 1 ELSE hbRun
  /\ EndOfMessage
  /\ UNCHANGED <<stop, loopVars, tagVars, busy, commandId, clockVars>>

RecordFailure ==
  /\ HbTo("failed", IF hbFailures + 1 >= MaxHeartbeatFailures THEN "giveUp" ELSE "sleep")
  /\ hbFailures' = hbFailures + 1
  /\ hbRun' = IF hbRun < MaxHeartbeatFailures THEN hbRun + 1 ELSE hbRun
  /\ EndOfMessage
  /\ UNCHANGED <<stop, loopVars, tagVars, busy, commandId, clockVars>>

GiveUp ==
  /\ HbTo("giveUp", "done")
  /\ stop' = TRUE
  /\ UNCHANGED <<loopVars, msg, tagVars, workVars, failVars, clockVars>>

(* The interval is over, or a slice of it ended with stop requested.       *)
Wake ==
  /\ HbTo("sleep", "check")
  /\ UNCHANGED <<stop, loopVars, msg, tagVars, workVars, failVars, clockVars>>

-------------------------------------------------------------------------------
(* The clock, and the end.                                                 *)

WindowPasses ==
  /\ age < 2 /\ age' = age + 1
  /\ UNCHANGED <<stop, loopVars, hbVars, tagVars, workVars, failVars, lastPull>>

PullGoesStale ==
  /\ lastPull = "recent" /\ lastPull' = "stale"
  /\ UNCHANGED <<stop, loopVars, hbVars, tagVars, workVars, failVars, age>>

SessionOver ==
  /\ loopPc = "ended" /\ hbPc = "done"
  /\ UNCHANGED vars

LoopStep ==
  \/ LoopTop \/ Leave
  \/ RefreshTags("gui", "proxmox") \/ RefreshTags("proxmox", "pull")
  \/ PullOk \/ PullError
  \/ BeginBusy \/ SetId \/ EndBusy \/ ClearId \/ SkipTask \/ EndBatch
  \/ DropRequestsStop \/ DropJoins

HeartbeatStep ==
  \/ CheckStop \/ TakeTags \/ ReadBusy \/ ReadId \/ ReadPull
  \/ SendOk \/ SendError \/ RecordSuccess \/ RecordFailure \/ GiveUp \/ Wake

Clock == WindowPasses \/ PullGoesStale

Next == LoopStep \/ HeartbeatStep \/ LateHeartbeat \/ Clock \/ SessionOver

Spec == Init /\ [][Next]_vars

(* Both threads run and every request ends, it has a timeout.  A command   *)
(* may keep the pull loop for ever: nothing is assumed of EndBusy.         *)
FairSpec ==
  Spec /\ WF_vars(HeartbeatStep) /\ WF_vars(loopPc # "run" /\ LoopStep)

(* The same with a heartbeat thread, commands that return and a network    *)
(* that lets a heartbeat through now and then.                             *)
HealingSpec == FairSpec /\ hbPc = "check" /\ WF_vars(EndBusy) /\ SF_vars(SendOk)

-------------------------------------------------------------------------------

(* The heartbeat thread asks for a reset only after that many heartbeats   *)
(* really failed in a row, though the pull loop resets the same counter    *)
(* concurrently (record_heartbeat_failure, reset_transport_failures).      *)
StopJustified ==
  stop /\ loopPc \notin {"join", "ended"} => hbRun = MaxHeartbeatFailures

(* A heartbeat names a command only if that command was in flight at some  *)
(* moment since the thread began its snapshot: the separate reads of busy  *)
(* and current_command_id never revive a command that ended earlier.       *)
NoGhostCommand ==
  hbPc \in {"readPull", "send"} /\ msg.id # NoId => msg.id \in seen

(* The tag set computed last has reached the server, is waiting, or is on  *)
(* its way, unless a heartbeat that carried it failed: nothing else loses  *)
(* tags (take_heartbeat_tags, queue_tag_refresh in pull.rs).               *)
TagsAccounted ==
  \/ newest \in {NoTags, pendingTags, startupTags}
  \/ newest \in reached \cup late
  \/ hbPc \in {"readBusy", "readId", "readPull", "send"} /\ msg.tags = newest

(* The server's tag set goes back to an older one only when a heartbeat    *)
(* the agent has given up on arrives after a newer one: the agent itself   *)
(* sends the startup set before anything that was queued after it, and no  *)
(* set twice (take_heartbeat_tags in pull.rs, the timeout in client.rs).   *)
TagsMoveForward ==
  [][serverTags # NoTags =>
       /\ serverTags' # NoTags
       /\ serverTags' < serverTags => serverTags' \in late]_serverTags

(* A requested stop ends the session, the loop comes back to should_stop   *)
(* and the join in Drop does not wait for ever, unless a command never     *)
(* returns.                                                                *)
StopEndsSession == (stop ~> loopPc = "ended") \/ <>[](loopPc = "run")

(* Sustained pull failures, or a first pull that does not succeed within   *)
(* the startup grace, end the session (should_reset_pull_session).         *)
SilenceEndsSession ==
  /\ failures = MaxPullFailures ~> loopPc = "ended"
  /\ (lastPull = "never" /\ age = 2) ~> (lastPull # "never" \/ loopPc = "ended")

(* Heartbeats keep flowing whatever the pull loop is stuck in ("long-      *)
(* running commands cannot starve last_seen_at", agent_run.rs) until the   *)
(* thread stops.                                                           *)
HeartbeatsFlow == []<>(hbPc = "send") \/ <>(hbPc = "done")

(* pull.rs: tags are "queued for the next heartbeat when GUI helper state  *)
(* changes".  A queued set reaches the server, or a newer one replaces it, *)
(* or the session ends.                                                    *)
QueuedTagsArrive ==
  \A v \in 1..MaxRefreshes :
    pendingTags = v ~> (serverTags = v \/ newest # v \/ loopPc = "ended")

===============================================================================
