----------------------------- MODULE BinaryUpdater -----------------------------
(***************************************************************************)
(* Updates by replacing the binary (src/src/updater.rs), on a platform     *)
(* without installer packages: the agent's program is moved aside to a     *)
(* ".prev" and a verified copy of the download takes its place; if that    *)
(* fails the ".prev" is moved back.  The service and the command line may  *)
(* do this at the same time, and a process may die between any two steps.  *)
(*                                                                         *)
(* A file is moved by rename, in one step, or copied and then removed:     *)
(* across file systems, or by sudo install when sudo mv did not work.      *)
(* Staging names and names of verified copies are random, so every update  *)
(* has its own.  Both files are removed at the end, but nobody looks       *)
(* whether that worked; what stays behind has a name that no update ever   *)
(* opens again, and is not modelled.                                       *)
(***************************************************************************)
EXTENDS Naturals

CONSTANTS
  Process,      \* the service and the command lines that update
  MaxAttempts   \* bound: updates begun

ASSUME AttemptBoundAssumption == MaxAttempts \in Nat

VARIABLES
  current,      \* the file at the install path
  backup,       \* the file at the install path with ".prev"
  live,         \* the processes that run
  step,         \* where each process is in its update
  staged,       \* what the staging file of each process's update holds
  artifact,     \* what each process has read of it into memory
  source,       \* the content a process is copying
  causes,       \* what has gone wrong so far, of the kinds listed in Cause
  attempts      \* updates begun so far

binaryVars == <<current, backup, live, step, staged, artifact, source, causes,
                attempts>>

(* A file is absent, cut off, or complete: the old version, the new one,   *)
(* the new one without its executable bit ("plain"), or not what was       *)
(* signed.  write_staging_exclusive makes a verified copy with mode 0600.  *)
Complete == {"old", "new", "plain", "bad"}
File     == Complete \cup {"none", "torn"}
Runs     == {"old", "new"}

Window   == {"place", "placing", "restore", "restoring"}
Trusting == {"drop", "aside", "asiding"} \cup Window
Cause    == {"killed", "cut", "unrestored", "overlap"}

BinaryTypeOK ==
  /\ current \in File
  /\ backup \in File
  /\ live \subseteq Process
  /\ step \in [Process -> {"idle", "stage", "verify"} \cup Trusting]
  /\ staged \in [Process -> {"good", "bad"}]
  /\ artifact \in [Process -> {"good", "bad"}]
  /\ source \in [Process -> File]
  /\ causes \subseteq Cause
  /\ attempts \in 0..MaxAttempts
  /\ \A p \in Process : step[p] # "idle" => p \in live
  /\ \A p \in Process : step[p] \in Trusting => artifact[p] = "good"

BinaryInit ==
  /\ current = "old"
  /\ backup = "none"
  /\ live = {}
  /\ step = [p \in Process |-> "idle"]
  /\ staged = [p \in Process |-> "bad"]
  /\ artifact = [p \in Process |-> "bad"]
  /\ source = [p \in Process |-> "none"]
  /\ causes = {}
  /\ attempts = 0

Updating == {p \in Process : step[p] # "idle"}

Goto(p, to) == step' = [step EXCEPT ![p] = to]

-------------------------------------------------------------------------------
(* Processes.                                                              *)

(* The supervisor or somebody at a terminal starts the program, if the     *)
(* file at the install path can be run.                                    *)
Starts(p) ==
  /\ p \notin live
  /\ current \in Runs
  /\ live' = live \cup {p}
  /\ UNCHANGED <<current, backup, step, staged, artifact, source, causes,
                 attempts>>

(* A process ends, at any time: a crash or a stop.                         *)
Dies(p) ==
  /\ p \in live
  /\ live' = live \ {p}
  /\ causes' = causes \cup (IF step[p] # "idle" THEN {"killed"} ELSE {})
                      \cup (IF step[p] \in Window THEN {"cut"} ELSE {})
  /\ Goto(p, "idle")
  /\ UNCHANGED <<current, backup, staged, artifact, source, attempts>>

(* Somebody else writes to the staging file of an update, or swaps it.     *)
StagingChanges(p) ==
  /\ step[p] \notin {"idle", "stage"}
  /\ staged' = [staged EXCEPT ![p] = "bad"]
  /\ UNCHANGED <<current, backup, live, step, artifact, source, causes, attempts>>

-------------------------------------------------------------------------------
(* One update, step by step.                                               *)

BeginReplace(p) ==
  /\ p \in live
  /\ step[p] = "idle"
  /\ attempts < MaxAttempts
  /\ attempts' = attempts + 1
  /\ causes' = IF Updating = {} THEN causes ELSE causes \cup {"overlap"}
  /\ Goto(p, "stage")
  /\ UNCHANGED <<current, backup, live, staged, artifact, source>>

(* The download is written to the staging file, created for it, or there   *)
(* is no update.                                                           *)
Download(p) ==
  /\ step[p] = "stage"
  /\ \/ /\ \E content \in {"good", "bad"} :
             staged' = [staged EXCEPT ![p] = content]
        /\ Goto(p, "verify")
     \/ /\ Goto(p, "idle")
        /\ UNCHANGED staged
  /\ UNCHANGED <<current, backup, live, artifact, source, causes, attempts>>

(* The staging file is read once; the bytes read are checked, and the same *)
(* bytes are written again under a new name, which nobody else knows.      *)
Verify(p) ==
  /\ step[p] = "verify"
  /\ artifact' = [artifact EXCEPT ![p] = staged[p]]
  /\ \/ staged[p] = "good" /\ Goto(p, "drop")
     \/ Goto(p, "idle")
  /\ UNCHANGED <<current, backup, live, staged, source, causes, attempts>>

(* The backup of an earlier update goes first.  A failure here or in the   *)
(* next step ends the update.                                              *)
DropBackup(p) ==
  /\ step[p] = "drop"
  /\ \/ backup' = "none" /\ Goto(p, "aside")
     \/ backup # "none" /\ Goto(p, "idle") /\ UNCHANGED backup
  /\ UNCHANGED <<current, live, staged, artifact, source, causes, attempts>>

(* Mutant: the program is removed to make room.                            *)
MoveAsideRemoves(p) ==
  /\ step[p] = "aside"
  /\ current' = "none"
  /\ Goto(p, "place")
  /\ UNCHANGED <<backup, live, staged, artifact, source, causes, attempts>>

(* The program is moved aside.                                             *)
MoveAside(p) ==
  /\ step[p] = "aside"
  /\ \/ /\ current = "none"
        /\ Goto(p, "place")
        /\ UNCHANGED <<current, backup, source>>
     \/ /\ current # "none"
        /\ backup' = current
        /\ current' = "none"
        /\ Goto(p, "place")
        /\ UNCHANGED source
     \/ /\ current # "none"
        /\ backup' = "torn"
        /\ source' = [source EXCEPT ![p] = current]
        /\ Goto(p, "asiding")
        /\ UNCHANGED current
     \/ /\ current # "none"
        /\ Goto(p, "idle")
        /\ UNCHANGED <<current, backup, source>>
  /\ UNCHANGED <<live, staged, artifact, causes, attempts>>

(* What a copy leaves: the mode of its source, or install's 755.           *)
Copied(file) == {file} \cup (IF file = "plain" THEN {"new"} ELSE {})

(* A copy ends; removing its source is tried but may fail.                 *)
AsideCopied(p) ==
  /\ step[p] = "asiding"
  /\ \/ /\ backup' \in Copied(source[p])
        /\ current' \in {"none", current}
        /\ Goto(p, "place")
     \/ /\ Goto(p, "idle")
        /\ UNCHANGED <<current, backup>>
  /\ UNCHANGED <<live, staged, artifact, source, causes, attempts>>

(* Mutant: the staging file itself is installed once it was checked.       *)
StagedInstead(p) == IF staged[p] = "good" THEN "plain" ELSE "bad"

Verified(p) == IF artifact[p] = "good" THEN "plain" ELSE "bad"

(* The process that replaced its own program exits to be restarted, the    *)
(* command line ends, helper.install goes on as it is.                     *)
Replaced(p) ==
  /\ Goto(p, "idle")
  /\ live' \in {live, live \ {p}}

(* The verified copy takes the program's place.                            *)
Place(p) ==
  /\ step[p] = "place"
  /\ \/ /\ current' = Verified(p)
        /\ Replaced(p)
     \/ /\ current' = "torn"
        /\ Goto(p, "placing")
        /\ UNCHANGED live
     \/ /\ Goto(p, "restore")
        /\ UNCHANGED <<current, live>>
  /\ UNCHANGED <<backup, staged, artifact, source, causes, attempts>>

PlaceCopied(p) ==
  /\ step[p] = "placing"
  /\ \/ /\ current' \in Copied(Verified(p))
        /\ Replaced(p)
     \/ /\ Goto(p, "restore")
        /\ UNCHANGED <<current, live>>
  /\ UNCHANGED <<backup, staged, artifact, source, causes, attempts>>

(* Mutant: the backup is left where it is.                                 *)
RestoreNothing(p) ==
  /\ step[p] = "restore"
  /\ Goto(p, "idle")
  /\ UNCHANGED <<current, backup, live, staged, artifact, source, causes,
                 attempts>>

(* The backup is put back, if there is one.  Nobody hears of a failure.    *)
Restore(p) ==
  /\ step[p] = "restore"
  /\ \/ /\ backup = "none"
        /\ Goto(p, "idle")
        /\ UNCHANGED <<current, backup, source, causes>>
     \/ /\ backup # "none"
        /\ current' = backup
        /\ backup' = "none"
        /\ Goto(p, "idle")
        /\ UNCHANGED <<source, causes>>
     \/ /\ backup # "none"
        /\ current' = "torn"
        /\ source' = [source EXCEPT ![p] = backup]
        /\ Goto(p, "restoring")
        /\ UNCHANGED <<backup, causes>>
     \/ /\ backup # "none"
        /\ causes' = causes \cup {"unrestored"}
        /\ Goto(p, "idle")
        /\ UNCHANGED <<current, backup, source>>
  /\ UNCHANGED <<live, staged, artifact, attempts>>

RestoreCopied(p) ==
  /\ step[p] = "restoring"
  /\ \/ /\ current' \in Copied(source[p])
        /\ backup' \in {"none", backup}
        /\ UNCHANGED causes
     \/ /\ causes' = causes \cup {"unrestored"}
        /\ UNCHANGED <<current, backup>>
  /\ Goto(p, "idle")
  /\ UNCHANGED <<live, staged, artifact, source, attempts>>

ReplaceStep(p) ==
  \/ Download(p) \/ Verify(p) \/ DropBackup(p)
  \/ MoveAside(p) \/ AsideCopied(p)
  \/ Place(p) \/ PlaceCopied(p)
  \/ Restore(p) \/ RestoreCopied(p)

BinaryNext ==
  \E p \in Process : \/ Starts(p) \/ Dies(p) \/ BeginReplace(p) \/ ReplaceStep(p)
                     \/ StagingChanges(p)

BinarySpec == BinaryInit /\ [][BinaryNext]_binaryVars

-------------------------------------------------------------------------------
(* Properties.                                                             *)

Calm == causes \subseteq {"killed"}

Version(file) == IF file = "plain" THEN "new" ELSE file

Available ==
  CASE current \in Complete -> Version(current)
    [] current \notin Complete /\ backup \in Complete -> Version(backup)
    [] OTHER -> "lost"

Promise == INSTANCE AtomicReplace WITH bin <- Available, trouble <- ~Calm

(* Whatever fails and whatever is killed outside the window, the program   *)
(* that can be had is the old one until it is the new, verified one.       *)
RefinesAtomicReplace == Promise!PromiseSpec

(* As long as nothing worse than a kill outside the window has happened,   *)
(* the program is at its place whenever no update is within the window.    *)
ProgramInPlace ==
  (Calm /\ \A p \in Process : step[p] \notin Window) => current \in Complete

(* Whatever happens to the staging file between the check and the install, *)
(* and however updates fail, die and cross, the files at and beside the    *)
(* install path never hold anything complete that was not verified.        *)
OnlyVerified == current # "bad" /\ backup # "bad"

===============================================================================
