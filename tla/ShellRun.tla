-------------------------------- MODULE ShellRun --------------------------------
(***************************************************************************)
(* shell.run (src/src/commands/shell_run.rs): the program is started with  *)
(* both outputs in pipes, polled until it ended or its deadline passed,    *)
(* then killed if need be, and only then are the pipes read, one after the *)
(* other and each up to a limit.  What was read is returned as text: where *)
(* it is not UTF-8 it is replaced.                                         *)
(*                                                                         *)
(* The program may fill a pipe and wait for a reader, may leave a process  *)
(* behind that keeps the pipes open, and may be one the agent must not     *)
(* signal: sudo made it root's and the agent is not.                       *)
(***************************************************************************)
EXTENDS Naturals

CONSTANTS
  PipeSize,     \* what a pipe holds
  MaxOutput,    \* max_output_bytes of the execution policy
  MaxWritten    \* bound: what is written to a pipe

ASSUME ShellAssumption ==
  /\ PipeSize \in Nat \ {0}
  /\ MaxOutput \in Nat
  /\ MaxWritten \in Nat

VARIABLES
  shell,      \* where run_execve is; "stdout" and "stderr": reading it
  child,      \* the program; "exited" until it is waited for
  heir,       \* a process it left behind holds the pipes
  mayKill,    \* the agent may signal it
  expired,    \* the deadline has passed
  timedOut,   \* the program was killed for it
  failed,     \* run_execve returned an error
  pipe,       \* what is in the pipe
  written,    \* what was written to it
  got,        \* what was read from it
  cut,        \* the limit was reached with more to read
  odd,        \* the pipes to which something else than UTF-8 was written
  altered     \* those whose text is not, byte for byte, what was read

pipeVars  == <<pipe, written, got, cut, odd, altered>>
shellVars == <<shell, child, heir, mayKill, expired, timedOut, failed, pipeVars>>

Stream == {"stdout", "stderr"}

ShellTypeOK ==
  /\ shell \in {"idle", "polling", "killing", "stdout", "stderr", "done"}
  /\ child \in {"none", "running", "exited", "reaped"}
  /\ {heir, mayKill, expired, timedOut, failed} \subseteq BOOLEAN
  /\ pipe \in [Stream -> 0..PipeSize]
  /\ written \in [Stream -> 0..MaxWritten]
  /\ got \in [Stream -> 0..MaxOutput]
  /\ cut \in [Stream -> BOOLEAN]
  /\ odd \subseteq Stream
  /\ altered \subseteq Stream

(* The read ends that are still open.                                      *)
Open(s) == \/ shell \in {"polling", "killing", s}
           \/ shell = "stdout"

Writers == child = "running" \/ heir

Nothing(zero) == [s \in Stream |-> zero]

Fresh ==
  /\ pipe' = Nothing(0) /\ written' = Nothing(0)
  /\ got' = Nothing(0) /\ cut' = Nothing(FALSE)
  /\ odd' = {} /\ altered' = {}
  /\ heir' = FALSE /\ expired' = FALSE /\ timedOut' = FALSE

ShellInit ==
  /\ shell = "idle" /\ child = "none" /\ mayKill = TRUE /\ failed = FALSE
  /\ heir = FALSE /\ expired = FALSE /\ timedOut = FALSE
  /\ pipe = Nothing(0) /\ written = Nothing(0)
  /\ got = Nothing(0) /\ cut = Nothing(FALSE)
  /\ odd = {} /\ altered = {}

(* What is left of one call is nothing to the next.                        *)
ShellForgotten ==
  /\ Fresh
  /\ shell' = "idle" /\ child' = "none" /\ mayKill' = TRUE /\ failed' = FALSE

-------------------------------------------------------------------------------
(* The program and what it leaves behind.                                  *)

Write(s) ==
  /\ Writers /\ Open(s)
  /\ pipe[s] < PipeSize /\ written[s] < MaxWritten
  /\ pipe' = [pipe EXCEPT ![s] = @ + 1]
  /\ written' = [written EXCEPT ![s] = @ + 1]
  /\ odd' \in {odd, odd \cup {s}}
  /\ UNCHANGED <<shell, child, heir, mayKill, expired, timedOut, failed, got, cut,
                 altered>>

Exits ==
  /\ child = "running"
  /\ child' = "exited"
  /\ UNCHANGED <<shell, heir, mayKill, expired, timedOut, failed, pipeVars>>

Forks ==
  /\ child = "running" /\ ~heir
  /\ heir' = TRUE
  /\ UNCHANGED <<shell, child, mayKill, expired, timedOut, failed, pipeVars>>

HeirEnds ==
  /\ heir
  /\ heir' = FALSE
  /\ UNCHANGED <<shell, child, mayKill, expired, timedOut, failed, pipeVars>>

-------------------------------------------------------------------------------
(* run_execve                                                              *)

(* exec fails, or the program runs, as root if the agent is to elevate it. *)
Execute ==
  /\ shell = "idle"
  /\ Fresh
  /\ \/ shell' = "done" /\ child' = "none" /\ mayKill' = TRUE /\ failed' = TRUE
     \/ /\ shell' = "polling" /\ child' = "running" /\ failed' = FALSE
        /\ mayKill' \in BOOLEAN

DeadlinePasses ==
  /\ shell = "polling" /\ ~expired
  /\ expired' = TRUE
  /\ UNCHANGED <<shell, child, heir, mayKill, timedOut, failed, pipeVars>>

(* try_wait                                                                *)
SeesExit ==
  /\ shell = "polling" /\ child = "exited"
  /\ child' = "reaped" /\ shell' = "stdout"
  /\ UNCHANGED <<heir, mayKill, expired, timedOut, failed, pipeVars>>

SeesDeadline ==
  /\ shell = "polling" /\ child = "running" /\ expired
  /\ shell' = "killing"
  /\ UNCHANGED <<child, heir, mayKill, expired, timedOut, failed, pipeVars>>

WaitFails ==
  /\ shell = "polling"
  /\ shell' = "done" /\ failed' = TRUE
  /\ UNCHANGED <<child, heir, mayKill, expired, timedOut, pipeVars>>

(* Mutant: the program is waited for but not killed.                       *)
KillNothing ==
  /\ shell = "killing" /\ child = "exited"
  /\ child' = "reaped" /\ timedOut' = TRUE /\ shell' = "stdout"
  /\ UNCHANGED <<heir, mayKill, expired, failed, pipeVars>>

(* kill, whose failure is ignored, then wait: for a program the agent may  *)
(* not signal until it ends of itself.                                     *)
Kill ==
  /\ shell = "killing" /\ (mayKill \/ child = "exited")
  /\ child' = "reaped" /\ timedOut' = TRUE /\ shell' = "stdout"
  /\ UNCHANGED <<heir, mayKill, expired, failed, pipeVars>>

AfterReading(s) == IF s = "stdout" THEN "stderr" ELSE "done"

(* from_utf8_lossy: a sequence of bytes that is no character becomes the   *)
(* three bytes of U+FFFD, so the text may be longer than the limit.  The   *)
(* limit may cut a character in two, or cut off what was not UTF-8.        *)
Convert(s) ==
  IF cut'[s] THEN altered' \in {altered, altered \cup {s}}
  ELSE altered' = altered \cup (odd \cap {s})

(* Mutant: the limit is looked at before a read only.                      *)
ReadBeyond(s) ==
  /\ shell = s
  /\ \E n \in 1..pipe[s] :
       /\ pipe' = [pipe EXCEPT ![s] = @ - n]
       /\ IF got[s] < MaxOutput
          THEN /\ got' = [got EXCEPT ![s] = @ + n]
               /\ UNCHANGED <<shell, cut, altered>>
          ELSE /\ cut' = [cut EXCEPT ![s] = TRUE]
               /\ Convert(s)
               /\ shell' = AfterReading(s)
               /\ UNCHANGED got
  /\ UNCHANGED <<child, heir, mayKill, expired, timedOut, failed, written, odd>>

(* A read returns any part of what is in the pipe.  What does not fit      *)
(* under the limit is dropped and ends the reading.                        *)
Read(s) ==
  /\ shell = s
  /\ \E n \in 1..pipe[s] :
       /\ pipe' = [pipe EXCEPT ![s] = @ - n]
       /\ IF got[s] + n <= MaxOutput
          THEN /\ got' = [got EXCEPT ![s] = @ + n]
               /\ UNCHANGED <<shell, cut, altered>>
          ELSE /\ got' = [got EXCEPT ![s] = MaxOutput]
               /\ cut' = [cut EXCEPT ![s] = TRUE]
               /\ Convert(s)
               /\ shell' = AfterReading(s)
  /\ UNCHANGED <<child, heir, mayKill, expired, timedOut, failed, written, odd>>

(* Mutant: an empty pipe is taken for a closed one.                        *)
ReadEmpty(s) ==
  /\ shell = s /\ pipe[s] = 0
  /\ cut' = cut /\ Convert(s)
  /\ shell' = AfterReading(s)
  /\ UNCHANGED <<child, heir, mayKill, expired, timedOut, failed, pipe, written,
                 got, odd>>

(* The end of the output is when nobody holds the pipe any more.           *)
ReadEnd(s) ==
  /\ shell = s /\ pipe[s] = 0 /\ ~Writers
  /\ cut' = cut /\ Convert(s)
  /\ shell' = AfterReading(s)
  /\ UNCHANGED <<child, heir, mayKill, expired, timedOut, failed, pipe, written,
                 got, odd>>

ReadFails(s) ==
  /\ shell = s
  /\ shell' = "done" /\ failed' = TRUE
  /\ UNCHANGED <<child, heir, mayKill, expired, timedOut, pipeVars>>

ProgramStep == (\E s \in Stream : Write(s)) \/ Exits \/ Forks \/ HeirEnds

ShellStep ==
  \/ SeesExit \/ SeesDeadline \/ Kill
  \/ \E s \in Stream : Read(s) \/ ReadEnd(s)

ShellError == WaitFails \/ \E s \in Stream : ReadFails(s)

(* Threads run, and time passes.  Nothing makes the program end.           *)
ShellFairness == WF_shellVars(ShellStep) /\ WF_shellVars(DeadlinePasses)

-------------------------------------------------------------------------------
(* Properties.                                                             *)

(* A call that returned output has waited for its program and has read all *)
(* that was written to a pipe, with nobody left who could write more, or   *)
(* what fits under the limit, marked as truncated.  Text that is not so    *)
(* marked is what was written if all of that was UTF-8; if not, it is      *)
(* something else, and nothing says so.                                    *)
OutputComplete ==
  shell = "done" /\ ~failed =>
    /\ child = "reaped"
    /\ \A s \in Stream :
         IF cut[s] THEN got[s] = MaxOutput /\ written[s] > MaxOutput
                   ELSE got[s] = written[s] /\ ~heir /\ (s \in altered <=> s \in odd)

(* A call returns, the deadline freeing a program that waits for room in a *)
(* pipe.  What may hold it for ever is a process left behind that keeps a  *)
(* pipe open, or a program the agent may not signal.                       *)
ShellReturns ==
  (shell \notin {"idle", "done"})
    ~> (shell \in {"idle", "done"} \/ heir \/ (~mayKill /\ child = "running"))

===============================================================================
