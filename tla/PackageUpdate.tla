----------------------------- MODULE PackageUpdate -----------------------------
(***************************************************************************)
(* Updates by installer package on Linux and macOS: the service and the    *)
(* command line's "update" (src/src/agent_update.rs), the staging and the  *)
(* detached install script (src/src/package_update.rs), the failsafe       *)
(* (src/src/service_restart.rs) and the package manager, which stops the   *)
(* service that asked for the install.                                     *)
(*                                                                         *)
(* An update is one call of apply_offer or apply_self_update_task; its     *)
(* number names its staged files, its script and its failsafe.             *)
(*                                                                         *)
(* Windows is left out: what a replaced task and a rewritten batch file do *)
(* while they run is not defined.  A package is staged, verified and       *)
(* hashed again as one step, for nobody else writes the staging names.     *)
(***************************************************************************)
EXTENDS Naturals, Sequences

CONSTANTS
  MaxUpdates    \* bound: updates started by service and command line

ASSUME UpdateBoundAssumption == MaxUpdates \in Nat \ {0}

Helper  == {"desktop", "proxmox"}
Package == Helper \cup {"agent"}
Updater == {"service", "cli"}
Update  == 1..MaxUpdates

VARIABLES
  platform,     \* "linux" or "macos"
  root,         \* is_privileged: the service runs as root
  installed,    \* the version of the agent that is installed
  pm,           \* the update that holds the package manager, or 0
  up,           \* the service process runs
  running,      \* AGENT_VERSION of the service process
  pc,           \* where each updater is in its update
  mine,         \* the number of that update, or 0
  plan,         \* the packages of each update, in order
  byRoot,       \* the updates whose updater is root
  files,        \* staged packages on disk: <<update, package>>
  script,       \* where the detached script of each update is
  todo,         \* what that script has still to install
  failsafe,     \* the delayed start of each update
  outcome,      \* what each update reported to who asked for it
  updates       \* updates started so far

host    == <<platform, root>>
machine == <<installed, pm>>
service == <<up, running>>
updater == <<pc, mine>>
request == <<plan, byRoot>>
scripts == <<script, todo>>
packageVars == <<host, machine, service, updater, request, files, scripts,
                 failsafe, outcome, updates>>

BadlyEnded(u) == script[u] \in {"aborted", "killed"}
Live(u)       == script[u] \in {"wait", "run", "busy"}

PackageTypeOK ==
  /\ platform \in {"linux", "macos"}
  /\ root \in BOOLEAN
  /\ installed \in {"old", "new"}
  /\ pm \in Update \cup {0}
  /\ up \in BOOLEAN
  /\ running \in {"old", "new"}
  /\ pc \in [Updater -> {"idle", "stage", "spawn", "arm", "install",
                         "installing"}]
  /\ mine \in [Updater -> Update \cup {0}]
  /\ plan \in [Update -> Seq(Package)]
  /\ byRoot \subseteq Update
  /\ files \subseteq Update \X Package
  /\ script \in [Update -> {"none", "wait", "run", "busy", "done", "aborted",
                            "killed"}]
  /\ todo \in [Update -> Seq(Package)]
  /\ failsafe \in [Update -> {"none", "armed", "fired"}]
  /\ outcome \in [Update -> {"none", "failed", "applied"}]
  /\ updates \in 0..MaxUpdates
  /\ \A u \in Updater : pc[u] = "idle" <=> mine[u] = 0
  /\ pc["service"] # "idle" => up

PackageInit ==
  /\ platform \in {"linux", "macos"}
  /\ root \in BOOLEAN
  /\ installed = "old"
  /\ pm = 0
  /\ up = TRUE
  /\ running = installed
  /\ pc = [u \in Updater |-> "idle"]
  /\ mine = [u \in Updater |-> 0]
  /\ plan = [n \in Update |-> <<>>]
  /\ byRoot = {}
  /\ files = {}
  /\ script = [n \in Update |-> "none"]
  /\ todo = [n \in Update |-> <<>>]
  /\ failsafe = [n \in Update |-> "none"]
  /\ outcome = [n \in Update |-> "none"]
  /\ updates = 0

-------------------------------------------------------------------------------
(* The service process stops and starts.                                   *)

(* The process is gone with what it was doing; a package manager it was    *)
(* waiting for is its child and goes with it.                              *)
ServiceGone ==
  /\ pc' = [pc EXCEPT !["service"] = "idle"]
  /\ mine' = [mine EXCEPT !["service"] = 0]
  /\ pm' = IF pc["service"] = "installing" THEN 0 ELSE pm

ServiceStarts ==
  /\ up' = TRUE
  /\ running' = installed

(* Who may start the service for update n: a job or a sudo of macOS is     *)
(* root's; on Linux systemctl is asked as whoever ran the update.          *)
MayStart(n) == platform = "macos" \/ n \in byRoot

(* systemctl start is nothing to a service that runs and is refused to a   *)
(* user who is not root; kickstart -k kills the service and starts it.     *)
StartService(n) ==
  \/ /\ ~MayStart(n) \/ (up /\ platform = "linux")
     /\ UNCHANGED <<service, updater, pm>>
  \/ /\ MayStart(n) /\ up /\ platform = "macos"
     /\ ServiceStarts
     /\ ServiceGone
  \/ /\ MayStart(n) /\ ~up
     /\ ServiceStarts
     /\ UNCHANGED <<updater, pm>>

(* The process dies by itself and the supervisor starts it again.          *)
ServiceCrashes ==
  /\ up
  /\ ServiceStarts
  /\ ServiceGone
  /\ UNCHANGED <<host, installed, request, files, scripts, failsafe, outcome,
                 updates>>

-------------------------------------------------------------------------------
(* An update, up to the installer.                                         *)

Active(u) == u = "service" => up

(* What the server may offer: the agent to whom reports an old one, any    *)
(* helper (the version reported of a helper may be a cached one, up to a   *)
(* minute old, so one just installed may be offered again).                *)
Reported(u) == IF u = "service" THEN running ELSE installed

Offers(u) ==
  SUBSET (Helper \cup (IF Reported(u) = "old" THEN {"agent"} ELSE {})) \ {{}}

(* Helpers first: the agent's package stops the service.                   *)
InOrder(offer) ==
  (IF "desktop" \in offer THEN <<"desktop">> ELSE <<>>)
    \o (IF "proxmox" \in offer THEN <<"proxmox">> ELSE <<>>)
    \o (IF "agent" \in offer THEN <<"agent">> ELSE <<>>)

Packages(n) == {plan[n][i] : i \in DOMAIN plan[n]}

(* One helper alone is installed while the updater waits.                  *)
Blocking(n) == Len(plan[n]) = 1 /\ "agent" \notin Packages(n)

Begin(u, packages) ==
  /\ Active(u)
  /\ pc[u] = "idle"
  /\ updates < MaxUpdates
  /\ updates' = updates + 1
  /\ mine' = [mine EXCEPT ![u] = updates + 1]
  /\ plan' = [plan EXCEPT ![updates + 1] = packages]
  /\ byRoot' = IF root \/ u = "cli" THEN byRoot \cup {updates + 1} ELSE byRoot
  /\ pc' = [pc EXCEPT ![u] = "stage"]
  /\ UNCHANGED <<host, machine, service, files, scripts, failsafe, outcome>>

(* agent.update and helper.install, or "update" on the command line.  An   *)
(* offer that is refused, empty or does not verify ends without a trace.   *)
BeginOffer(u) == \E offer \in Offers(u) : Begin(u, InOrder(offer))

(* A SelfUpdate task, for the agent alone.                                 *)
BeginTask == running = "old" /\ Begin("service", <<"agent">>)

StagedBy(n) == {f \in files : f[1] = n}

(* Download and verify the next package of the plan.                       *)
Stage(u) ==
  LET n == mine[u] IN
  /\ Active(u)
  /\ pc[u] = "stage"
  /\ \E i \in DOMAIN plan[n] :
       /\ <<n, plan[n][i]>> \notin files
       /\ \A j \in 1..(i - 1) : <<n, plan[n][j]>> \in files
       /\ files' = files \cup {<<n, plan[n][i]>>}
       /\ pc' = IF i < Len(plan[n]) THEN pc
                ELSE [pc EXCEPT ![u] =
                        IF Blocking(n) THEN "install" ELSE "spawn"]
  /\ UNCHANGED <<host, machine, service, mine, request, scripts, failsafe,
                 outcome, updates>>

(* The updater is through with its update and tells how it ended; a       *)
(* command is answered with that.                                          *)
Report(u, end) ==
  /\ outcome' = [outcome EXCEPT ![mine[u]] = end]
  /\ pc' = [pc EXCEPT ![u] = "idle"]
  /\ mine' = [mine EXCEPT ![u] = 0]

(* It fails and removes what it staged.                                    *)
Fail(u) ==
  /\ files' = files \ StagedBy(mine[u])
  /\ Report(u, "failed")

(* Mutant: only the package it failed on is removed.                       *)
StageFailsKeepsEarlier(u) ==
  /\ Active(u)
  /\ pc[u] = "stage"
  /\ Report(u, "failed")
  /\ UNCHANGED <<host, machine, service, request, files, scripts, failsafe,
                 updates>>

StageFails(u) ==
  /\ Active(u)
  /\ pc[u] = "stage"
  /\ Fail(u)
  /\ UNCHANGED <<host, machine, service, request, scripts, failsafe, updates>>

(* macOS runs the script as a job of one fixed name: a job that has the    *)
(* name is booted out, with the installer it runs.                         *)
BootedOut == {n \in Update : platform = "macos" /\ Live(n)}

BootOut ==
  /\ script' = [n \in Update |->
                  IF n \in BootedOut THEN "killed" ELSE script[n]]
  /\ pm' = IF pm \in BootedOut THEN 0 ELSE pm

(* The detached installer is there; the updater goes on at once.           *)
Spawn(u) ==
  LET n == mine[u] IN
  /\ Active(u)
  /\ pc[u] = "spawn"
  /\ script' = [m \in Update |-> IF m = n THEN "wait"
                                ELSE IF m \in BootedOut THEN "killed" ELSE script[m]]
  /\ pm' = IF pm \in BootedOut THEN 0 ELSE pm
  /\ todo' = [todo EXCEPT ![n] = plan[n]]
  /\ pc' = [pc EXCEPT ![u] = "arm"]
  /\ UNCHANGED <<host, installed, service, mine, request, files, failsafe,
                 outcome, updates>>

(* No directory for the script, no shell, or a job that does not start     *)
(* after the old one was booted out.                                       *)
SpawnFails(u) ==
  /\ Active(u)
  /\ pc[u] = "spawn"
  /\ Fail(u)
  /\ BootOut \/ UNCHANGED <<script, pm>>
  /\ UNCHANGED <<host, installed, service, request, todo, failsafe, updates>>

(* With the agent among the packages a delayed start is scheduled; if that *)
(* cannot be done it is logged, and the update is reported as it is.  The  *)
(* wait for the installer holds nothing back: it has a thread of its own,  *)
(* after a command, and ends after two minutes, after a SelfUpdate task.   *)
ArmFailsafe(u) ==
  LET n == mine[u] IN
  /\ Active(u)
  /\ pc[u] = "arm"
  /\ \/ "agent" \in Packages(n) /\ failsafe' = [failsafe EXCEPT ![n] = "armed"]
     \/ UNCHANGED failsafe
  /\ Report(u, "applied")
  /\ UNCHANGED <<host, machine, service, request, files, scripts, updates>>

-------------------------------------------------------------------------------
(* One helper, installed while the updater waits.                          *)

(* Linux refuses a second package manager, macOS lets it queue.            *)
StartInstall(u) ==
  /\ Active(u)
  /\ pc[u] = "install"
  /\ pm = 0
  /\ pm' = mine[u]
  /\ pc' = [pc EXCEPT ![u] = "installing"]
  /\ UNCHANGED <<host, installed, service, mine, request, files, scripts,
                 failsafe, outcome, updates>>

InstallRefused(u) ==
  /\ Active(u)
  /\ pc[u] = "install"
  /\ pm # 0 => platform = "linux"
  /\ Fail(u)
  /\ UNCHANGED <<host, machine, service, request, scripts, failsafe, updates>>

(* On Linux any failure ends the script (set -e).  On macOS the desktop    *)
(* helper's does not: the agent's package must not wait for it.            *)
Forgives(p) == platform = "macos" /\ p = "desktop"

(* On macOS the script that ran the package manager then restarts the      *)
(* service, if it runs as root: this ends an updating service before it    *)
(* has heard of the end, or any update of the service; the job of a        *)
(* detached script is booted out.                                          *)
Kicks(u, ok) ==
  /\ platform = "macos"
  /\ mine[u] \in byRoot
  /\ ok \/ Forgives(plan[mine[u]][1])

(* The package manager ends.  It may claim a success that left no binary,  *)
(* which the updater, if it is still there, calls a failure.               *)
InstallEnds(u) ==
  LET n == mine[u] IN
  /\ Active(u)
  /\ pc[u] = "installing"
  /\ \E ok \in BOOLEAN : \E binary \in {b \in BOOLEAN : b => ok} :
       /\ IF Kicks(u, ok) THEN ServiceStarts ELSE UNCHANGED service
       /\ script' = [m \in Update |->
                       IF Kicks(u, ok) /\ u = "cli" /\ m \in BootedOut
                       THEN "killed" ELSE script[m]]
       /\ LET gone == {v \in Updater : v = "service" /\ Kicks(u, ok)} IN
          /\ pc' = [v \in Updater |-> IF v \in gone \cup {u} THEN "idle" ELSE pc[v]]
          /\ mine' = [v \in Updater |-> IF v \in gone \cup {u} THEN 0 ELSE mine[v]]
          /\ files' = IF u \in gone THEN files ELSE files \ StagedBy(n)
          /\ outcome' = IF u \in gone THEN outcome
                        ELSE [outcome EXCEPT ![n] =
                                IF binary THEN "applied" ELSE "failed"]
  /\ pm' = 0
  /\ UNCHANGED <<host, installed, request, todo, failsafe, updates>>

-------------------------------------------------------------------------------
(* The detached script.                                                    *)

Move(n, to) == script' = [script EXCEPT ![n] = to]

(* A few seconds' sleep; on Linux no sudo ends the script.                 *)
Awake(n) ==
  /\ script[n] = "wait"
  /\ \/ Move(n, "run")
     \/ platform = "linux" /\ n \notin byRoot /\ Move(n, "aborted")
  /\ UNCHANGED <<host, machine, service, updater, request, files, todo,
                 failsafe, outcome, updates>>

(* Mutant: the stop of the service is undone at once by its supervisor.    *)
InstallNextRaced(n) ==
  /\ script[n] = "run"
  /\ todo[n] # <<>>
  /\ pm = 0
  /\ pm' = n
  /\ Move(n, "busy")
  /\ IF Head(todo[n]) = "agent"
     THEN ServiceStarts /\ pc' = [pc EXCEPT !["service"] = "idle"]
                        /\ mine' = [mine EXCEPT !["service"] = 0]
     ELSE UNCHANGED <<service, updater>>
  /\ UNCHANGED <<host, installed, request, files, todo, failsafe, outcome,
                 updates>>

(* Mutant: the updater in the service survives the stop.                   *)
InstallNextSpares(n) ==
  /\ script[n] = "run"
  /\ todo[n] # <<>>
  /\ pm = 0
  /\ pm' = n
  /\ Move(n, "busy")
  /\ up' = (up /\ Head(todo[n]) # "agent")
  /\ UNCHANGED <<host, installed, running, updater, request, files, todo,
                 failsafe, outcome, updates>>

(* The next package goes to the package manager; the agent's stops the     *)
(* service, and with it an updater that waits for another script.          *)
InstallNext(n) ==
  /\ script[n] = "run"
  /\ todo[n] # <<>>
  /\ pm = 0
  /\ pm' = n
  /\ Move(n, "busy")
  /\ IF Head(todo[n]) = "agent"
     THEN /\ up' = FALSE
          /\ pc' = [pc EXCEPT !["service"] = "idle"]
          /\ mine' = [mine EXCEPT !["service"] = 0]
     ELSE UNCHANGED <<up, updater>>
  /\ UNCHANGED <<host, installed, running, request, files, todo, failsafe,
                 outcome, updates>>

GiveUpPackage(n) ==
  IF Forgives(Head(todo[n]))
  THEN Move(n, "run") /\ todo' = [todo EXCEPT ![n] = Tail(@)]
  ELSE Move(n, "aborted") /\ UNCHANGED todo

PackageRefused(n) ==
  /\ script[n] = "run"
  /\ todo[n] # <<>>
  /\ pm # 0 => platform = "linux"
  /\ GiveUpPackage(n)
  /\ UNCHANGED <<host, machine, service, updater, request, files, failsafe,
                 outcome, updates>>

PackageFails(n) ==
  /\ script[n] = "busy"
  /\ GiveUpPackage(n)
  /\ pm' = 0
  /\ UNCHANGED <<host, installed, service, updater, request, files, failsafe,
                 outcome, updates>>

(* Mutant: the script ends with the package of the agent.                  *)
PackageDoneEnds(n) ==
  /\ script[n] = "busy"
  /\ installed' = IF Head(todo[n]) = "agent" THEN "new" ELSE installed
  /\ pm' = 0
  /\ Move(n, IF Head(todo[n]) = "agent" THEN "done" ELSE "run")
  /\ todo' = [todo EXCEPT ![n] = Tail(@)]
  /\ UNCHANGED <<host, service, updater, request, files, failsafe, outcome,
                 updates>>

(* The maintainer scripts of the agent's package may start the service or  *)
(* leave that to the install script.                                       *)
PackageDone(n) ==
  LET p == Head(todo[n]) IN
  /\ script[n] = "busy"
  /\ installed' = IF p = "agent" THEN "new" ELSE installed
  /\ \/ UNCHANGED service
     \/ p = "agent" /\ ~up /\ up' = TRUE /\ running' = "new"
  /\ pm' = 0
  /\ Move(n, "run")
  /\ todo' = [todo EXCEPT ![n] = Tail(@)]
  /\ UNCHANGED <<host, updater, request, files, failsafe, outcome, updates>>

(* Mutant: the script leaves the start to the packages.                    *)
StartAfterForgets(n) ==
  /\ script[n] = "run"
  /\ todo[n] = <<>>
  /\ files' = files \ StagedBy(n)
  /\ Move(n, "done")
  /\ UNCHANGED <<host, machine, service, updater, request, todo, failsafe,
                 outcome, updates>>

(* All packages tried: start the service, remove the packages.  On macOS   *)
(* the job boots itself out between the two, which may end it there.       *)
StartAfter(n) ==
  /\ script[n] = "run"
  /\ todo[n] = <<>>
  /\ StartService(n)
  /\ files' = files \ StagedBy(n) \/ (platform = "macos" /\ UNCHANGED files)
  /\ Move(n, "done")
  /\ UNCHANGED <<host, installed, request, todo, failsafe, outcome, updates>>

(* The delayed start: once, a minute and a half after the script began.    *)
FailsafeFires(n) ==
  /\ failsafe[n] = "armed"
  /\ script[n] # "wait"
  /\ failsafe' = [failsafe EXCEPT ![n] = "fired"]
  /\ StartService(n)
  /\ UNCHANGED <<host, installed, request, files, scripts, outcome, updates>>

-------------------------------------------------------------------------------

UpdaterStep(u) ==
  \/ Stage(u) \/ StageFails(u)
  \/ Spawn(u) \/ SpawnFails(u) \/ ArmFailsafe(u)
  \/ StartInstall(u) \/ InstallRefused(u) \/ InstallEnds(u)

ScriptStep(n) ==
  \/ Awake(n) \/ InstallNext(n) \/ PackageRefused(n) \/ PackageFails(n)
  \/ PackageDone(n) \/ StartAfter(n)

(* What goes on by itself: programs, scripts and delayed starts.           *)
GoOn ==
  \/ \E u \in Updater : UpdaterStep(u)
  \/ \E n \in Update : ScriptStep(n) \/ FailsafeFires(n)

PackageNext ==
  \/ BeginTask
  \/ \E u \in Updater : BeginOffer(u)
  \/ GoOn
  \/ ServiceCrashes

(* Whatever goes on by itself does so; an update is over in finitely many  *)
(* steps, so none of them waits for ever on the others.  Nobody has to     *)
(* begin an update, and the process need not die.                          *)
PackageFairness == WF_packageVars(GoOn)

PackageSpec == PackageInit /\ [][PackageNext]_packageVars /\ PackageFairness

-------------------------------------------------------------------------------
(* Properties.                                                             *)

InstallsAgent(n) == "agent" \in Packages(n)

(* The install of the agent that may leave the service down for good: it   *)
(* failed once its delayed start was spent (or was never scheduled), or it *)
(* asked systemctl for the start without being root.                       *)
LeftDown(n) ==
  /\ InstallsAgent(n)
  /\ BadlyEnded(n) \/ ~MayStart(n)
  /\ failsafe[n] # "armed"

(* The service is never down without an installer at work, a delayed start *)
(* to come or one of these installs to blame.                              *)
DownJustified ==
  ~up => \E n \in Update : Live(n) \/ failsafe[n] = "armed" \/ LeftDown(n)

(* A service that still runs the old version once the new one is installed *)
(* and every script is over was started in the middle of the install, by a *)
(* delayed start or by the script of another update.                       *)
OldVersionExplained ==
  (/\ up /\ running = "old" /\ installed = "new"
   /\ \A n \in Update : ~Live(n))
    => \E n \in Update : /\ InstallsAgent(n)
                        /\ \/ failsafe[n] = "fired"
                           \/ \E m \in Update \ {n} : script[m] = "done"

(* An update that was reported as failed before anything was installed     *)
(* leaves none of its packages behind, whichever of them it failed on.     *)
FailureLeavesNoPackage ==
  \A n \in Update : outcome[n] = "failed" => StagedBy(n) = {}

(* A stopped service comes back unless one of these installs is to blame:  *)
(* no order of two updates, helpers, delayed starts and restarts keeps it  *)
(* down otherwise.                                                         *)
ServiceReturns == ~up ~> (up \/ \E n \in Update : LeftDown(n))

(* The delayed start is said to bring the previous binary back whenever    *)
(* the installer fails or does not start the service.  Here that is asked  *)
(* only for one that was scheduled, by root, who may ask systemctl.        *)
FailsafeRestores ==
  \A n \in Update : (root /\ ~up /\ failsafe[n] # "none") ~> up

===============================================================================
