---------------------------- MODULE CommandHandlers ----------------------------
(***************************************************************************)
(* handle_task (src/src/agent_run.rs) with the handlers behind it: a task  *)
(* is taken in hand, its signature and policy are checked, its handler     *)
(* runs to its end, the result is submitted once, and only then is the     *)
(* next task taken.  Updates are PackageUpdate and BinaryUpdater; commands *)
(* for the desktop and Proxmox helpers are requests to other processes     *)
(* that end or time out.                                                   *)
(***************************************************************************)
EXTENDS ShellRun, FileCommands

VARIABLES
  hand,     \* the command in hand
  answer    \* its result

handVars == <<hand, answer>>

handlerVars == <<handVars, shellVars, fileVars>>

Command == FileOp \cup {"shell.run", "system.reboot", "helper"}

HandlersTypeOK ==
  /\ ShellTypeOK
  /\ FileTypeOK
  /\ hand \in Command \cup {"none"}
  /\ answer \in {"none", "running", "rebooting", "ok", "failed", "timed out"}

HandlersInit ==
  /\ ShellInit /\ FilesInit
  /\ hand = "none" /\ answer = "none"

Answer(result) == answer = "running" /\ answer' = result /\ UNCHANGED hand

(* A task of the queue.                                                    *)
TakeTask ==
  /\ hand = "none"
  /\ hand' \in Command /\ answer' = "running"
  /\ IF hand' = "shell.run" THEN Execute /\ UNCHANGED fileVars
     ELSE IF hand' \in FileOp THEN StartFile(hand') /\ UNCHANGED shellVars
     ELSE UNCHANGED <<shellVars, fileVars>>

(* One that is not signed with a key of the configuration, or that its     *)
(* policy does not allow, runs no handler.                                 *)
RefuseTask ==
  /\ hand = "none"
  /\ hand' \in Command /\ answer' = "failed"
  /\ UNCHANGED <<shellVars, fileVars>>

(* run_execve's result, 124 for a program that was killed.                 *)
ShellAnswers ==
  /\ shell = "done"
  /\ Answer(IF failed THEN "failed" ELSE IF timedOut THEN "timed out" ELSE "ok")
  /\ UNCHANGED <<shellVars, fileVars>>

FileAnswers ==
  /\ at = "done"
  /\ Answer(outcome)
  /\ UNCHANGED <<shellVars, fileVars>>

HelperAnswers ==
  /\ hand = "helper"
  /\ \E result \in {"ok", "failed"} : Answer(result)
  /\ UNCHANGED <<shellVars, fileVars>>

(* initiate_system_reboot: a program that fails within three seconds is a  *)
(* failure; a reboot that did not happen two minutes later is one, too.    *)
Reboot ==
  /\ hand = "system.reboot"
  /\ \/ Answer("rebooting") \/ Answer("failed")
     \/ answer = "rebooting" /\ answer' = "failed" /\ UNCHANGED hand
  /\ UNCHANGED <<shellVars, fileVars>>

Forget == ShellForgotten /\ FilesForgotten /\ hand' = "none" /\ answer' = "none"

(* The one attempt to submit the result, whatever becomes of it.           *)
SubmitResult ==
  /\ answer \in {"ok", "failed", "timed out"}
  /\ Forget

(* The agent dies.                                                         *)
AgentDies == hand # "none" /\ Forget

HandlersNext ==
  \/ TakeTask \/ RefuseTask \/ SubmitResult \/ AgentDies
  \/ ShellAnswers \/ FileAnswers \/ HelperAnswers \/ Reboot
  \/ (ProgramStep \/ DeadlinePasses \/ ShellStep \/ ShellError)
       /\ UNCHANGED <<handVars, fileVars>>
  \/ (FileStep \/ Meddle) /\ UNCHANGED <<handVars, shellVars>>

HandlersSpec ==
  HandlersInit /\ [][HandlersNext]_handlerVars /\ ShellFairness

===============================================================================
