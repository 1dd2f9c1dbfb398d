---------------------------- MODULE SelfUpdate_proofs ----------------------------
(***************************************************************************)
(* The safety of updates, for every number of updates, attempts and        *)
(* processes.  By binary: the program is never lost and never anything but *)
(* a verified version.  By package: the service is never down without      *)
(* cause, an old version that runs on is explained, and a failed update    *)
(* leaves no package.  That the service comes back is left to the model    *)
(* checker.                                                                *)
(***************************************************************************)
EXTENDS SelfUpdate, TLAPS

-------------------------------------------------------------------------------
(* Updates by binary.                                                      *)

(* Nothing that was not verified is ever at or beside the install path.    *)
GenuineInv ==
  current # "bad" /\ backup # "bad" /\ \A p \in Process : source[p] # "bad"

(* As long as it is calm, only one process updates.                        *)
AloneInv ==
  Calm => \A p, q \in Process : step[p] # "idle" /\ step[q] # "idle" => p = q

(* Outside the window the program is in its place; inside, the backup is   *)
(* whole, and the program gone, torn or of the same version.               *)
PlaceInv ==
  Calm => \/ current \in Complete /\ \A p \in Process : step[p] \notin Window
          \/ /\ backup \in Complete
             /\ current \in {"none", "torn"} \/ Version(current) = Version(backup)
             /\ \E p \in Process : step[p] \in Window

(* What a process copies is what it began to copy.                         *)
CopyInv ==
  Calm => \A p \in Process :
    /\ step[p] = "asiding" => source[p] = current
    /\ step[p] = "restoring" => source[p] = backup /\ current = "torn"
    /\ step[p] = "placing" => current = "torn"

BinaryInv ==
  BinaryTypeOK /\ GenuineInv /\ AloneInv /\ PlaceInv /\ CopyInv

LEMMA BinaryInvInit == BinaryInit => BinaryInv
  <1> SUFFICES ASSUME BinaryInit PROVE BinaryInv
    OBVIOUS
  <1> USE DEF BinaryInit
  <1>1. BinaryTypeOK
    BY AttemptBoundAssumption DEF BinaryTypeOK, File, Complete, Cause, Trusting, Window
  <1>2. GenuineInv
    BY DEF GenuineInv
  <1>3. AloneInv /\ PlaceInv /\ CopyInv
    BY DEF AloneInv, PlaceInv, CopyInv, Complete, Window
  <1> QED
    BY <1>1, <1>2, <1>3 DEF BinaryInv

(* No step leaves the types, and only what was verified gets near the      *)
(* program.                                                                *)
LEMMA BinaryTypeStep == BinaryInv /\ BinaryNext => BinaryTypeOK'
  <1> SUFFICES ASSUME BinaryTypeOK, NEW p \in Process,
                      \/ Starts(p) \/ Dies(p) \/ BeginReplace(p) \/ ReplaceStep(p)
                      \/ StagingChanges(p)
               PROVE  BinaryTypeOK'
    BY DEF BinaryInv, BinaryNext
  <1> USE AttemptBoundAssumption DEF BinaryTypeOK, Goto
  <1>1. CASE Starts(p)
    BY <1>1 DEF Starts
  <1>2. CASE Dies(p)
    BY <1>2 DEF Dies, Cause, Trusting, Window
  <1>3. CASE BeginReplace(p)
    BY <1>3 DEF BeginReplace, Cause, Trusting, Window
  <1>4. CASE Download(p)
    BY <1>4 DEF Download, Trusting, Window
  <1>5. CASE Verify(p)
    BY <1>5 DEF Verify, Trusting, Window
  <1>6. CASE DropBackup(p)
    BY <1>6 DEF DropBackup, File, Trusting, Window
  <1>7. CASE MoveAside(p)
    <2>1. current' \in File /\ backup' \in File /\ source' \in [Process -> File]
      BY <1>7 DEF MoveAside, File
    <2>2. \E to \in {"place", "asiding", "idle"} : step' = [step EXCEPT ![p] = to]
      BY <1>7 DEF MoveAside
    <2>3. step[p] = "aside"
      BY <1>7 DEF MoveAside
    <2>4. UNCHANGED <<live, staged, artifact, causes, attempts>>
      BY <1>7 DEF MoveAside
    <2> QED
      BY <2>1, <2>2, <2>3, <2>4 DEF Trusting, Window
  <1>8. CASE AsideCopied(p)
    BY <1>8 DEF AsideCopied, Copied, File, Complete, Trusting, Window
  <1>9. CASE Place(p)
    BY <1>9 DEF Place, Replaced, Verified, File, Complete, Trusting, Window
  <1>10. CASE PlaceCopied(p)
    BY <1>10 DEF PlaceCopied, Copied, Replaced, Verified, File, Complete, Trusting, Window
  <1>11. CASE Restore(p)
    <2>1. current' \in File /\ backup' \in File /\ source' \in [Process -> File]
      BY <1>11 DEF Restore, File
    <2>2. \E to \in {"restoring", "idle"} : step' = [step EXCEPT ![p] = to]
      BY <1>11 DEF Restore
    <2>3. step[p] = "restore" /\ causes' \subseteq Cause
      BY <1>11 DEF Restore, Cause
    <2>4. UNCHANGED <<live, staged, artifact, attempts>>
      BY <1>11 DEF Restore
    <2> QED
      BY <2>1, <2>2, <2>3, <2>4 DEF Trusting, Window
  <1>12. CASE RestoreCopied(p)
    BY <1>12 DEF RestoreCopied, Copied, File, Complete, Cause, Trusting, Window
  <1>13. CASE StagingChanges(p)
    BY <1>13 DEF StagingChanges, Trusting, Window
  <1> QED
    BY <1>1, <1>2, <1>3, <1>4, <1>5, <1>6, <1>7, <1>8, <1>9, <1>10, <1>11, <1>12,
       <1>13 DEF ReplaceStep

LEMMA GenuineStep == BinaryInv /\ BinaryNext => GenuineInv'
  <1> SUFFICES ASSUME BinaryTypeOK, GenuineInv, NEW p \in Process,
                      \/ Starts(p) \/ Dies(p) \/ BeginReplace(p) \/ ReplaceStep(p)
                      \/ StagingChanges(p)
               PROVE  GenuineInv'
    BY DEF BinaryInv, BinaryNext
  <1> USE DEF BinaryTypeOK, GenuineInv, Goto, Copied
  <1>1. CASE Starts(p) \/ BeginReplace(p) \/ StagingChanges(p)
    BY <1>1 DEF Starts, BeginReplace, StagingChanges
  <1>2. CASE Dies(p)
    BY <1>2 DEF Dies
  <1>3. CASE Download(p) \/ Verify(p)
    BY <1>3 DEF Download, Verify
  <1>4. CASE DropBackup(p)
    BY <1>4 DEF DropBackup
  <1>5. CASE MoveAside(p) \/ AsideCopied(p)
    BY <1>5 DEF MoveAside, AsideCopied
  <1>6. CASE Place(p)
    BY <1>6 DEF Place, Verified, Trusting, Window
  <1>7. CASE PlaceCopied(p)
    BY <1>7 DEF PlaceCopied, Verified, Trusting, Window
  <1>8. CASE Restore(p) \/ RestoreCopied(p)
    BY <1>8 DEF Restore, RestoreCopied
  <1> QED
    BY <1>1, <1>2, <1>3, <1>4, <1>5, <1>6, <1>7, <1>8 DEF ReplaceStep

LEMMA AloneStep == BinaryInv /\ BinaryNext => AloneInv'
  <1> SUFFICES ASSUME BinaryTypeOK, AloneInv, Calm', NEW p \in Process,
                      \/ Starts(p) \/ Dies(p) \/ BeginReplace(p) \/ ReplaceStep(p)
                      \/ StagingChanges(p)
               PROVE  \A q, r \in Process :
                        step'[q] # "idle" /\ step'[r] # "idle" => q = r
    BY DEF BinaryInv, BinaryNext, AloneInv
  <1>1. Calm
    BY DEF Calm, Starts, Dies, BeginReplace, StagingChanges, ReplaceStep, Download, Verify,
       DropBackup, MoveAside, AsideCopied, Place, PlaceCopied, Restore, RestoreCopied
  <1>2. CASE BeginReplace(p)
    <2>1. Updating = {}
      BY <1>2 DEF BeginReplace, Calm
    <2> QED
      BY <1>2, <2>1 DEF BeginReplace, Goto, Updating, BinaryTypeOK
  <1>3. CASE Starts(p) \/ StagingChanges(p)
    BY <1>1, <1>3 DEF Starts, StagingChanges, AloneInv
  <1>4. CASE Dies(p)
    BY <1>1, <1>4 DEF Dies, Goto, AloneInv, BinaryTypeOK
  <1>5. CASE ReplaceStep(p)
    <2>1. step[p] # "idle"
      BY <1>5 DEF ReplaceStep, Download, Verify, DropBackup, MoveAside, AsideCopied,
         Place, PlaceCopied, Restore, RestoreCopied
    <2>2. \E to : step' = [step EXCEPT ![p] = to]
      BY <1>5 DEF ReplaceStep, Download, Verify, DropBackup, MoveAside, AsideCopied,
         Place, PlaceCopied, Restore, RestoreCopied, Replaced, Goto
    <2> QED
      BY <1>1, <2>1, <2>2 DEF AloneInv, BinaryTypeOK
  <1> QED
    BY <1>2, <1>3, <1>4, <1>5

(* While it is calm the program is in its place or can be put back.        *)
LEMMA PlaceStep == BinaryInv /\ BinaryNext => PlaceInv' /\ CopyInv'
  <1> SUFFICES ASSUME BinaryInv, Calm', NEW p \in Process,
                      \/ Starts(p) \/ Dies(p) \/ BeginReplace(p) \/ ReplaceStep(p)
                      \/ StagingChanges(p)
               PROVE  PlaceInv' /\ CopyInv'
    BY DEF BinaryNext, PlaceInv, CopyInv
  <1>1. Calm
    BY DEF Calm, Starts, Dies, BeginReplace, StagingChanges, ReplaceStep, Download, Verify,
       DropBackup, MoveAside, AsideCopied, Place, PlaceCopied, Restore, RestoreCopied
  <1>2. ASSUME NEW q \in Process, step[q] # "idle", step[p] # "idle" PROVE q = p
    BY <1>1, <1>2 DEF BinaryInv, AloneInv
  <1>3. BinaryTypeOK /\ GenuineInv
    BY DEF BinaryInv
  <1>4. \/ current \in Complete /\ \A q \in Process : step[q] \notin Window
        \/ /\ backup \in Complete
           /\ current \in {"none", "torn"} \/ Version(current) = Version(backup)
           /\ \E q \in Process : step[q] \in Window
    BY <1>1 DEF BinaryInv, PlaceInv
  <1>5. \A q \in Process :
          /\ step[q] = "asiding" => source[q] = current
          /\ step[q] = "restoring" => source[q] = backup /\ current = "torn"
          /\ step[q] = "placing" => current = "torn"
    BY <1>1 DEF BinaryInv, CopyInv
  <1> USE DEF PlaceInv, CopyInv, Goto, BinaryTypeOK, Window, Complete
  <1>6. CASE Starts(p) \/ StagingChanges(p)
    BY <1>4, <1>5, <1>6 DEF Starts, StagingChanges
  <1>7. CASE Dies(p)
    <2>1. step[p] \notin Window
      BY <1>7 DEF Dies, Calm
    <2> QED
      BY <1>3, <1>4, <1>5, <1>7, <2>1 DEF Dies
  <1>8. CASE BeginReplace(p)
    BY <1>3, <1>4, <1>5, <1>8 DEF BeginReplace
  <1>9. CASE Download(p) \/ Verify(p) \/ DropBackup(p)
    BY <1>2, <1>3, <1>4, <1>5, <1>9 DEF Download, Verify, DropBackup
  <1>10. CASE MoveAside(p)
    BY <1>2, <1>3, <1>4, <1>5, <1>10 DEF MoveAside
  <1>11. CASE AsideCopied(p)
    BY <1>2, <1>3, <1>4, <1>5, <1>11 DEF AsideCopied, Copied, Version
  <1>12. CASE Place(p)
    BY <1>2, <1>3, <1>4, <1>5, <1>12 DEF Place, Replaced, Verified, Trusting
  <1>13. CASE PlaceCopied(p)
    BY <1>2, <1>3, <1>4, <1>5, <1>13 DEF PlaceCopied, Replaced, Copied, Verified, Trusting
  <1>14. CASE Restore(p)
    BY <1>2, <1>3, <1>4, <1>5, <1>14 DEF Restore, Calm
  <1>15. CASE RestoreCopied(p)
    BY <1>2, <1>3, <1>4, <1>5, <1>15 DEF RestoreCopied, Copied, Calm
  <1> QED
    BY <1>6, <1>7, <1>8, <1>9, <1>10, <1>11, <1>12, <1>13, <1>14, <1>15 DEF ReplaceStep

LEMMA BinaryStep == BinaryInv /\ BinaryNext => BinaryInv'
  BY BinaryTypeStep, GenuineStep, AloneStep, PlaceStep DEF BinaryInv

(* The program that can be had while it is calm, in the terms of the       *)
(* promise.                                                                *)
LEMMA AvailableWhenCalm ==
  BinaryInv /\ Calm =>
    /\ current \in Complete => Available = Version(current)
    /\ backup \in Complete => Available = Version(backup) \/ current \in Complete
    /\ (\E p \in Process : step[p] \in Window) => Available = Version(backup)
    /\ (\A p \in Process : step[p] \notin Window) => current \in Complete
  BY DEF BinaryInv, PlaceInv, Available, Version, Complete

(* Every step of an update is a step of the promise, or none.              *)
LEMMA PromiseStep == BinaryInv /\ BinaryNext => [Promise!PromiseNext]_(Promise!promise)
  <1> SUFFICES ASSUME BinaryInv, NEW p \in Process,
                      \/ Starts(p) \/ Dies(p) \/ BeginReplace(p) \/ ReplaceStep(p)
                      \/ StagingChanges(p)
               PROVE  [Promise!PromiseNext]_(Promise!promise)
    BY DEF BinaryNext
  <1>1. BinaryInv'
    BY BinaryStep DEF BinaryNext
  <1>2. Available' \in {"old", "new", "lost"}
    BY <1>1 DEF BinaryInv, BinaryTypeOK, GenuineInv, File, Complete, Available, Version
  <1>3. Calm' => Calm
    BY DEF Calm, Starts, Dies, BeginReplace, StagingChanges, ReplaceStep, Download, Verify,
       DropBackup, MoveAside, AsideCopied, Place, PlaceCopied, Restore, RestoreCopied
  <1>4. CASE ~Calm
    BY <1>2, <1>3, <1>4 DEF Promise!PromiseNext, Promise!Unprotected
  <1>5. CASE Calm /\ ~Calm'
    <2>1. UNCHANGED <<current, backup>>
      BY <1>5 DEF Calm, Starts, Dies, BeginReplace, StagingChanges, ReplaceStep, Download, Verify,
         DropBackup, MoveAside, AsideCopied, Place, PlaceCopied, Restore, RestoreCopied
    <2>2. Available' = Available
      BY <2>1 DEF Available, Complete
    <2> QED
      BY <1>5, <2>2 DEF Promise!PromiseNext, Promise!Trouble
  <1>6. CASE Calm /\ Calm'
    <2>1. Available' = Available \/ Available' = "new"
      <3>1. CASE UNCHANGED <<current, backup>>
        BY <3>1 DEF Available, Complete
      <3>2. CASE DropBackup(p) \/ MoveAside(p) \/ AsideCopied(p)
        BY <1>1, <1>6, <3>2, AvailableWhenCalm
           DEF DropBackup, MoveAside, AsideCopied, Copied, Available, Version,
               Complete, BinaryInv, PlaceInv, CopyInv, AloneInv, Window
      <3>3. CASE Place(p) \/ PlaceCopied(p)
        BY <1>6, <3>3
           DEF Place, PlaceCopied, Replaced, Verified, Copied, Available, Version,
               Complete, BinaryInv, BinaryTypeOK, PlaceInv, Trusting, Window
      <3>4. CASE Restore(p) \/ RestoreCopied(p)
        BY <1>6, <3>4
           DEF Restore, RestoreCopied, Copied, Available, Version,
               Complete, BinaryInv, PlaceInv, CopyInv, Window
      <3> QED
        BY <3>1, <3>2, <3>3, <3>4 DEF Starts, Dies, BeginReplace, StagingChanges,
           ReplaceStep, Download, Verify
    <2> QED
      BY <1>6, <2>1 DEF Promise!PromiseNext, Promise!Replace, Promise!promise
  <1> QED
    BY <1>4, <1>5, <1>6

-------------------------------------------------------------------------------
(* Updates by package.                                                     *)

(* Updates are numbered as they begin, and every updater has its own.      *)
NumberInv ==
  /\ \A u \in Updater : mine[u] <= updates
  /\ \A u, v \in Updater : mine[u] = mine[v] /\ mine[u] # 0 => u = v
  /\ \A n \in Update : n > updates =>
       plan[n] = <<>> /\ script[n] = "none" /\ failsafe[n] = "none" /\ outcome[n] = "none"

(* An update at work was not yet reported, has no delayed start yet, and   *)
(* before it has spawned its script there is none.                         *)
FreshInv ==
  \A u \in Updater : mine[u] # 0 =>
    /\ outcome[mine[u]] = "none" /\ failsafe[mine[u]] = "none"
    /\ pc[u] # "arm" => script[mine[u]] = "none"

(* A script installs packages of its update, and is at one of them.        *)
TodoInv ==
  \A n \in Update :
    /\ script[n] = "none" => todo[n] = <<>>
    /\ script[n] = "busy" => todo[n] # <<>>
    /\ \A i \in DOMAIN todo[n] : todo[n][i] \in Packages(n)

(* Whoever is installing holds the package manager.                        *)
ManagerInv ==
  /\ \A n \in Update : script[n] = "busy" => pm = n
  /\ \A u \in Updater : pc[u] = "installing" => pm = mine[u]

(* A delayed start is only ever scheduled for an install of the agent.     *)
ArmedInv == \A n \in Update : failsafe[n] # "none" => InstallsAgent(n)

(* The new version runs only where it is installed.                        *)
VersionInv == running = "new" => installed = "new"

(* A service that is down was stopped by the script of an install of the   *)
(* agent that goes on, ended badly or may not start it.                    *)
DownInv ==
  ~up => \E n \in Update :
           /\ InstallsAgent(n) /\ script[n] \notin {"none", "wait"}
           /\ Live(n) \/ BadlyEnded(n) \/ ~MayStart(n)

InMiddle == \E n \in Update : script[n] = "busy" /\ Head(todo[n]) = "agent"

Explained ==
  \E n \in Update : /\ InstallsAgent(n)
                    /\ \/ failsafe[n] = "fired"
                       \/ \E m \in Update \ {n} : script[m] = "done"

(* The old version runs behind or in the middle of an install of the new   *)
(* one only if it was started by another.                                  *)
ExplainedInv ==
  up /\ running = "old" /\ (installed = "new" \/ InMiddle) => Explained

PackageInv ==
  /\ PackageTypeOK /\ NumberInv /\ FreshInv /\ TodoInv /\ ManagerInv
  /\ ArmedInv /\ VersionInv /\ DownInv /\ ExplainedInv /\ FailureLeavesNoPackage

LEMMA PackageInvInit == PackageInit => PackageInv
  <1> SUFFICES ASSUME PackageInit PROVE PackageInv
    OBVIOUS
  <1> USE DEF PackageInit
  <1>1. PackageTypeOK
    <2>1. /\ plan \in [Update -> Seq(Package)] /\ todo \in [Update -> Seq(Package)]
          /\ byRoot \subseteq Update /\ files \subseteq Update \X Package
      OBVIOUS
    <2>2. /\ script \in [Update -> {"none", "wait", "run", "busy", "done", "aborted",
                                   "killed"}]
          /\ failsafe \in [Update -> {"none", "armed", "fired"}]
          /\ outcome \in [Update -> {"none", "failed", "applied"}]
      OBVIOUS
    <2>3. updates \in 0..MaxUpdates
      BY UpdateBoundAssumption
    <2> QED
      BY <2>1, <2>2, <2>3 DEF PackageTypeOK
  <1>2. NumberInv /\ FreshInv
    BY DEF NumberInv, FreshInv, Updater
  <1>3. TodoInv /\ ManagerInv /\ ArmedInv
    BY DEF TodoInv, ManagerInv, ArmedInv
  <1>4. VersionInv /\ DownInv /\ ExplainedInv /\ FailureLeavesNoPackage
    BY DEF VersionInv, DownInv, ExplainedInv, InMiddle, FailureLeavesNoPackage
  <1> QED
    BY <1>1, <1>2, <1>3, <1>4 DEF PackageInv

(* What is left of a list of packages when its first is done with.         *)
LEMMA HeadAndTail ==
  ASSUME NEW s \in Seq(Package), s # <<>>, NEW P, \A i \in DOMAIN s : s[i] \in P
  PROVE  /\ Head(s) \in P
         /\ Tail(s) \in Seq(Package)
         /\ \A i \in DOMAIN Tail(s) : Tail(s)[i] \in P
  <1>1. Len(s) \in Nat \ {0} /\ DOMAIN s = 1..Len(s)
    OBVIOUS
  <1>2. Head(s) = s[1] /\ Tail(s) \in Seq(Package)
    BY <1>1
  <1>3. DOMAIN Tail(s) = 1..(Len(s) - 1) /\ \A i \in 1..(Len(s) - 1) : Tail(s)[i] = s[i + 1]
    BY <1>1
  <1> QED
    BY <1>1, <1>2, <1>3

(* The packages of an offer are in order and none but packages.            *)
LEMMA OffersArePackages ==
  ASSUME NEW offer \in SUBSET Package PROVE InOrder(offer) \in Seq(Package)
  <1>1. /\ <<"desktop">> \in Seq(Package) /\ <<"proxmox">> \in Seq(Package)
        /\ <<"agent">> \in Seq(Package) /\ <<>> \in Seq(Package)
    BY DEF Package, Helper
  <1>2. \A a, b, c \in Seq(Package) : a \o b \o c \in Seq(Package)
    OBVIOUS
  <1> QED
    BY <1>1, <1>2 DEF InOrder

(* An updater, a script or the service makes a step.                       *)
PackageMove ==
  \/ \E u \in Updater, list \in Seq(Package) : Begin(u, list)
  \/ \E u \in Updater : UpdaterStep(u)
  \/ \E n \in Update : ScriptStep(n) \/ FailsafeFires(n)
  \/ ServiceCrashes

LEMMA EachMove == PackageNext => PackageMove
  <1> SUFFICES ASSUME PackageNext PROVE PackageMove
    OBVIOUS
  <1>1. CASE BeginTask
    <2>1. "service" \in Updater /\ <<"agent">> \in Seq(Package)
      BY DEF Updater, Package
    <2> QED
      BY <1>1, <2>1 DEF BeginTask, PackageMove
  <1>2. ASSUME NEW u \in Updater, BeginOffer(u) PROVE PackageMove
    <2>1. PICK offer \in Offers(u) : Begin(u, InOrder(offer))
      BY <1>2 DEF BeginOffer
    <2>2. offer \in SUBSET Package
      BY DEF Offers, Package
    <2> QED
      BY <2>1, <2>2, OffersArePackages DEF PackageMove
  <1> QED
    BY <1>1, <1>2 DEF PackageNext, GoOn, PackageMove

(* The types of what several actions have in common.                       *)
LEMMA GoneTypes ==
  ASSUME PackageTypeOK, ServiceGone
  PROVE  /\ pc' \in [Updater -> {"idle", "stage", "spawn", "arm", "install",
                                "installing"}]
         /\ mine' \in [Updater -> Update \cup {0}]
         /\ pm' \in Update \cup {0}
         /\ \A u \in Updater : pc'[u] = "idle" <=> mine'[u] = 0
         /\ pc'["service"] = "idle"
  BY DEF ServiceGone, PackageTypeOK, Updater

LEMMA StartTypes ==
  ASSUME PackageTypeOK, NEW n \in Update, StartService(n)
  PROVE  /\ up' \in BOOLEAN /\ running' \in {"old", "new"}
         /\ pc' \in [Updater -> {"idle", "stage", "spawn", "arm", "install",
                                "installing"}]
         /\ mine' \in [Updater -> Update \cup {0}]
         /\ pm' \in Update \cup {0}
         /\ \A u \in Updater : pc'[u] = "idle" <=> mine'[u] = 0
         /\ pc'["service"] # "idle" => up'
  <1>1. CASE UNCHANGED <<service, updater, pm>>
    BY <1>1 DEF service, updater, PackageTypeOK
  <1>2. CASE ServiceStarts /\ ServiceGone
    BY <1>2, GoneTypes DEF ServiceStarts, PackageTypeOK
  <1>3. CASE ServiceStarts /\ UNCHANGED <<updater, pm>>
    BY <1>3 DEF ServiceStarts, updater, PackageTypeOK
  <1> QED
    BY <1>1, <1>2, <1>3 DEF StartService

LEMMA GiveUpTypes ==
  ASSUME PackageTypeOK, NEW n \in Update, todo[n] # <<>>, GiveUpPackage(n)
  PROVE  /\ script' \in [Update -> {"none", "wait", "run", "busy", "done", "aborted",
                                   "killed"}]
         /\ todo' \in [Update -> Seq(Package)]
  <1>1. todo[n] \in Seq(Package)
    BY DEF PackageTypeOK
  <1>2. Tail(todo[n]) \in Seq(Package)
    BY <1>1
  <1> QED
    BY <1>2 DEF GiveUpPackage, Move, PackageTypeOK

LEMMA PackageTypeStep == PackageInv /\ PackageMove => PackageTypeOK'
  <1> SUFFICES ASSUME PackageTypeOK, TodoInv, PackageMove PROVE PackageTypeOK'
    BY DEF PackageInv
  <1> USE UpdateBoundAssumption
      DEF PackageTypeOK, host, machine, service, updater, request, scripts,
          Active, Report, Fail, Move
  <1>1. ASSUME NEW u \in Updater, NEW list \in Seq(Package), Begin(u, list)
        PROVE  PackageTypeOK'
    BY <1>1 DEF Begin, Update
  <1>2. ASSUME NEW u \in Updater, Stage(u) PROVE PackageTypeOK'
    BY <1>2 DEF Stage
  <1>3. ASSUME NEW u \in Updater, StageFails(u) PROVE PackageTypeOK'
    BY <1>3 DEF StageFails
  <1>4. ASSUME NEW u \in Updater, Spawn(u) PROVE PackageTypeOK'
    BY <1>4 DEF Spawn
  <1>5. ASSUME NEW u \in Updater, SpawnFails(u) PROVE PackageTypeOK'
    BY <1>5 DEF SpawnFails, BootOut
  <1>6. ASSUME NEW u \in Updater, ArmFailsafe(u) PROVE PackageTypeOK'
    BY <1>6 DEF ArmFailsafe
  <1>7. ASSUME NEW u \in Updater, StartInstall(u) PROVE PackageTypeOK'
    BY <1>7 DEF StartInstall
  <1>8. ASSUME NEW u \in Updater, InstallRefused(u) PROVE PackageTypeOK'
    BY <1>8 DEF InstallRefused
  <1>9. ASSUME NEW u \in Updater, InstallEnds(u) PROVE PackageTypeOK'
    <2>1. up' \in BOOLEAN /\ running' \in {"old", "new"} /\ (up => up')
      BY <1>9 DEF InstallEnds, ServiceStarts
    <2>2. script' \in [Update -> {"none", "wait", "run", "busy", "done", "aborted",
                                 "killed"}]
      BY <1>9 DEF InstallEnds
    <2>3. PICK gone \in SUBSET Updater :
            /\ pc' = [v \in Updater |-> IF v \in gone THEN "idle" ELSE pc[v]]
            /\ mine' = [v \in Updater |-> IF v \in gone THEN 0 ELSE mine[v]]
      <3> DEFINE kicked(ok) == {v \in Updater : v = "service" /\ Kicks(u, ok)} \cup {u}
      <3>1. PICK ok \in BOOLEAN :
              /\ pc' = [v \in Updater |-> IF v \in kicked(ok) THEN "idle" ELSE pc[v]]
              /\ mine' = [v \in Updater |-> IF v \in kicked(ok) THEN 0 ELSE mine[v]]
        BY <1>9 DEF InstallEnds
      <3> QED
        BY <3>1
    <2>4. files' \subseteq Update \X Package
      BY <1>9 DEF InstallEnds
    <2>5. outcome' \in [Update -> {"none", "failed", "applied"}]
      BY <1>9 DEF InstallEnds
    <2>6. pm' = 0 /\ UNCHANGED <<host, installed, request, todo, failsafe, updates>>
      BY <1>9 DEF InstallEnds
    <2>7. /\ pc' \in [Updater -> {"idle", "stage", "spawn", "arm", "install",
                                 "installing"}]
          /\ mine' \in [Updater -> Update \cup {0}]
          /\ \A v \in Updater : pc'[v] = "idle" <=> mine'[v] = 0
      BY <2>3
    <2>8. pc'["service"] # "idle" => up'
      BY <2>1, <2>3 DEF Updater
    <2> QED
      BY <2>1, <2>2, <2>4, <2>5, <2>6, <2>7, <2>8
  <1>10. ASSUME NEW n \in Update, Awake(n) PROVE PackageTypeOK'
    BY <1>10 DEF Awake
  <1>11. ASSUME NEW n \in Update, InstallNext(n) PROVE PackageTypeOK'
    <2>1. \/ UNCHANGED <<up, pc, mine>>
          \/ /\ up' = FALSE /\ pc' = [pc EXCEPT !["service"] = "idle"]
             /\ mine' = [mine EXCEPT !["service"] = 0]
      BY <1>11 DEF InstallNext
    <2>2. /\ up' \in BOOLEAN
          /\ pc' \in [Updater -> {"idle", "stage", "spawn", "arm", "install",
                                 "installing"}]
          /\ mine' \in [Updater -> Update \cup {0}]
          /\ \A u \in Updater : pc'[u] = "idle" <=> mine'[u] = 0
          /\ pc'["service"] # "idle" => up'
      <3>1. CASE UNCHANGED <<up, pc, mine>>
        BY <3>1
      <3>2. CASE /\ up' = FALSE /\ pc' = [pc EXCEPT !["service"] = "idle"]
                 /\ mine' = [mine EXCEPT !["service"] = 0]
        BY <3>2 DEF Updater
      <3> QED
        BY <2>1, <3>1, <3>2
    <2> QED
      BY <1>11, <2>2 DEF InstallNext
  <1>12. ASSUME NEW n \in Update, PackageRefused(n) PROVE PackageTypeOK'
    BY <1>12, GiveUpTypes DEF PackageRefused
  <1>13. ASSUME NEW n \in Update, PackageFails(n) PROVE PackageTypeOK'
    BY <1>13, GiveUpTypes DEF PackageFails, TodoInv
  <1>14. ASSUME NEW n \in Update, PackageDone(n) PROVE PackageTypeOK'
    BY <1>14, HeadAndTail DEF PackageDone, TodoInv
  <1>15. ASSUME NEW n \in Update, StartAfter(n) PROVE PackageTypeOK'
    BY <1>15, StartTypes DEF StartAfter
  <1>16. ASSUME NEW n \in Update, FailsafeFires(n) PROVE PackageTypeOK'
    BY <1>16, StartTypes DEF FailsafeFires
  <1>17. CASE ServiceCrashes
    BY <1>17 DEF ServiceCrashes, ServiceStarts, ServiceGone, Updater
  <1> QED
    BY <1>1, <1>2, <1>3, <1>4, <1>5, <1>6, <1>7, <1>8, <1>9, <1>10, <1>11, <1>12,
       <1>13, <1>14, <1>15, <1>16, <1>17 DEF PackageMove, UpdaterStep, ScriptStep

(* What a step other than the beginning of an update may do to the updates *)
(* that are known.                                                         *)
GoingMove ==
  \/ \E u \in Updater : UpdaterStep(u)
  \/ \E n \in Update : ScriptStep(n) \/ FailsafeFires(n)
  \/ ServiceCrashes

RequestsKept == updates' = updates /\ plan' = plan /\ byRoot' = byRoot

UpdatersGoOn ==
  \A u \in Updater :
    mine'[u] # 0 => mine'[u] = mine[u] /\ (pc[u] = "arm" => pc'[u] = "arm")

ScriptsGoOn ==
  \A n \in Update :
    \/ script'[n] = script[n]
    \/ script[n] # "none" /\ script'[n] # "none"
    \/ \E u \in Updater : pc[u] = "spawn" /\ mine[u] = n /\ pc'[u] = "arm"

OutcomesGoOn ==
  \A n \in Update :
    outcome'[n] = outcome[n] \/ \E u \in Updater : mine[u] = n /\ mine'[u] = 0

FailsafesGoOn ==
  \A n \in Update :
    \/ failsafe'[n] = failsafe[n]
    \/ failsafe[n] # "none" /\ failsafe'[n] = "fired"
    \/ InstallsAgent(n) /\ \E u \in Updater : mine[u] = n /\ mine'[u] = 0

LEMMA KeepsRequests == PackageTypeOK /\ GoingMove => RequestsKept
  <1> SUFFICES ASSUME PackageTypeOK, GoingMove PROVE RequestsKept
    OBVIOUS
  <1> USE DEF RequestsKept, request
  <1>1. ASSUME NEW u \in Updater, Stage(u) \/ StageFails(u) PROVE RequestsKept
    BY <1>1 DEF Stage, StageFails
  <1>2. ASSUME NEW u \in Updater, Spawn(u) PROVE RequestsKept
    BY <1>2 DEF Spawn
  <1>3. ASSUME NEW u \in Updater, SpawnFails(u) PROVE RequestsKept
    BY <1>3 DEF SpawnFails, BootOut
  <1>4. ASSUME NEW u \in Updater, ArmFailsafe(u) PROVE RequestsKept
    BY <1>4 DEF ArmFailsafe
  <1>5. ASSUME NEW u \in Updater, StartInstall(u) \/ InstallRefused(u)
        PROVE  RequestsKept
    BY <1>5 DEF StartInstall, InstallRefused
  <1>6. ASSUME NEW u \in Updater, InstallEnds(u) PROVE RequestsKept
    BY <1>6 DEF InstallEnds, ServiceStarts
  <1>7. ASSUME NEW n \in Update, Awake(n) PROVE RequestsKept
    BY <1>7 DEF Awake
  <1>8. ASSUME NEW n \in Update, InstallNext(n) PROVE RequestsKept
    BY <1>8 DEF InstallNext
  <1>9. ASSUME NEW n \in Update, PackageRefused(n) \/ PackageFails(n)
        PROVE  RequestsKept
    BY <1>9 DEF PackageRefused, PackageFails, GiveUpPackage
  <1>10. ASSUME NEW n \in Update, PackageDone(n) PROVE RequestsKept
    BY <1>10 DEF PackageDone
  <1>11. ASSUME NEW n \in Update, StartAfter(n) PROVE RequestsKept
    BY <1>11 DEF StartAfter, StartService, ServiceStarts, ServiceGone
  <1>12. ASSUME NEW n \in Update, FailsafeFires(n) PROVE RequestsKept
    BY <1>12 DEF FailsafeFires, StartService, ServiceStarts, ServiceGone
  <1>13. CASE ServiceCrashes
    BY <1>13 DEF ServiceCrashes, ServiceStarts, ServiceGone
  <1> QED
    BY <1>1, <1>2, <1>3, <1>4, <1>5, <1>6, <1>7, <1>8, <1>9, <1>10, <1>11, <1>12, <1>13
       DEF GoingMove, UpdaterStep, ScriptStep

LEMMA UpdaterEffect == PackageTypeOK /\ GoingMove => UpdatersGoOn
  <1> SUFFICES ASSUME PackageTypeOK, GoingMove PROVE UpdatersGoOn
    OBVIOUS
  <1> USE DEF host, machine, service, updater, request, scripts,
          Report, Fail, Move, UpdatersGoOn, PackageTypeOK
  <1>1. ASSUME NEW u \in Updater, Stage(u) \/ StageFails(u) PROVE UpdatersGoOn
    BY <1>1 DEF Stage, StageFails
  <1>2. ASSUME NEW u \in Updater, Spawn(u) PROVE UpdatersGoOn
    BY <1>2 DEF Spawn
  <1>3. ASSUME NEW u \in Updater, SpawnFails(u) PROVE UpdatersGoOn
    BY <1>3 DEF SpawnFails, BootOut
  <1>4. ASSUME NEW u \in Updater, ArmFailsafe(u) PROVE UpdatersGoOn
    BY <1>4 DEF ArmFailsafe
  <1>5. ASSUME NEW u \in Updater, StartInstall(u) \/ InstallRefused(u)
        PROVE  UpdatersGoOn
    BY <1>5 DEF StartInstall, InstallRefused
  <1>6. ASSUME NEW u \in Updater, InstallEnds(u) PROVE UpdatersGoOn
    BY <1>6 DEF InstallEnds, ServiceStarts
  <1>7. ASSUME NEW n \in Update, Awake(n) PROVE UpdatersGoOn
    BY <1>7 DEF Awake
  <1>8. ASSUME NEW n \in Update, InstallNext(n) PROVE UpdatersGoOn
    BY <1>8 DEF InstallNext
  <1>9. ASSUME NEW n \in Update, PackageRefused(n) \/ PackageFails(n)
        PROVE  UpdatersGoOn
    BY <1>9 DEF PackageRefused, PackageFails, GiveUpPackage
  <1>10. ASSUME NEW n \in Update, PackageDone(n) PROVE UpdatersGoOn
    BY <1>10 DEF PackageDone
  <1>11. ASSUME NEW n \in Update, StartAfter(n) PROVE UpdatersGoOn
    BY <1>11 DEF StartAfter, StartService, ServiceStarts, ServiceGone
  <1>12. ASSUME NEW n \in Update, FailsafeFires(n) PROVE UpdatersGoOn
    BY <1>12 DEF FailsafeFires, StartService, ServiceStarts, ServiceGone
  <1>13. CASE ServiceCrashes
    BY <1>13 DEF ServiceCrashes, ServiceStarts, ServiceGone
  <1> QED
    BY <1>1, <1>2, <1>3, <1>4, <1>5, <1>6, <1>7, <1>8, <1>9, <1>10, <1>11, <1>12, <1>13
       DEF GoingMove, UpdaterStep, ScriptStep

LEMMA ScriptEffect == PackageTypeOK /\ GoingMove => ScriptsGoOn
  <1> SUFFICES ASSUME PackageTypeOK, GoingMove PROVE ScriptsGoOn
    OBVIOUS
  <1> USE DEF host, machine, service, updater, request, scripts,
          Report, Fail, Move, ScriptsGoOn, PackageTypeOK,
          BootedOut, Live
  <1>1. ASSUME NEW u \in Updater, Stage(u) \/ StageFails(u) PROVE ScriptsGoOn
    BY <1>1 DEF Stage, StageFails
  <1>2. ASSUME NEW u \in Updater, Spawn(u) PROVE ScriptsGoOn
    BY <1>2 DEF Spawn
  <1>3. ASSUME NEW u \in Updater, SpawnFails(u) PROVE ScriptsGoOn
    <2>1. BootOut \/ script' = script
      BY <1>3 DEF SpawnFails
    <2>2. ASSUME BootOut, NEW m \in Update
          PROVE  script'[m] = script[m] \/ (script[m] # "none" /\ script'[m] # "none")
      <3>1. script'[m] = IF m \in BootedOut THEN "killed" ELSE script[m]
        BY <2>2 DEF BootOut
      <3>2. m \in BootedOut => script[m] # "none"
        BY DEF BootedOut, Live
      <3> QED
        BY <3>1, <3>2
    <2> QED
      BY <2>1, <2>2
  <1>4. ASSUME NEW u \in Updater, ArmFailsafe(u) PROVE ScriptsGoOn
    BY <1>4 DEF ArmFailsafe
  <1>5. ASSUME NEW u \in Updater, StartInstall(u) \/ InstallRefused(u)
        PROVE  ScriptsGoOn
    BY <1>5 DEF StartInstall, InstallRefused
  <1>6. ASSUME NEW u \in Updater, InstallEnds(u) PROVE ScriptsGoOn
    BY <1>6 DEF InstallEnds, ServiceStarts
  <1>7. ASSUME NEW n \in Update, Awake(n) PROVE ScriptsGoOn
    BY <1>7 DEF Awake
  <1>8. ASSUME NEW n \in Update, InstallNext(n) PROVE ScriptsGoOn
    BY <1>8 DEF InstallNext
  <1>9. ASSUME NEW n \in Update, PackageRefused(n) \/ PackageFails(n)
        PROVE  ScriptsGoOn
    BY <1>9 DEF PackageRefused, PackageFails, GiveUpPackage
  <1>10. ASSUME NEW n \in Update, PackageDone(n) PROVE ScriptsGoOn
    BY <1>10 DEF PackageDone
  <1>11. ASSUME NEW n \in Update, StartAfter(n) PROVE ScriptsGoOn
    BY <1>11 DEF StartAfter, StartService, ServiceStarts, ServiceGone
  <1>12. ASSUME NEW n \in Update, FailsafeFires(n) PROVE ScriptsGoOn
    BY <1>12 DEF FailsafeFires, StartService, ServiceStarts, ServiceGone
  <1>13. CASE ServiceCrashes
    BY <1>13 DEF ServiceCrashes, ServiceStarts, ServiceGone
  <1> QED
    BY <1>1, <1>2, <1>3, <1>4, <1>5, <1>6, <1>7, <1>8, <1>9, <1>10, <1>11, <1>12, <1>13
       DEF GoingMove, UpdaterStep, ScriptStep

LEMMA OutcomeEffect == PackageTypeOK /\ GoingMove => OutcomesGoOn
  <1> SUFFICES ASSUME PackageTypeOK, GoingMove PROVE OutcomesGoOn
    OBVIOUS
  <1> USE DEF host, machine, service, updater, request, scripts,
          Report, Fail, Move, OutcomesGoOn, PackageTypeOK
  <1>1. ASSUME NEW u \in Updater, Stage(u) \/ StageFails(u) PROVE OutcomesGoOn
    BY <1>1 DEF Stage, StageFails
  <1>2. ASSUME NEW u \in Updater, Spawn(u) PROVE OutcomesGoOn
    BY <1>2 DEF Spawn
  <1>3. ASSUME NEW u \in Updater, SpawnFails(u) PROVE OutcomesGoOn
    BY <1>3 DEF SpawnFails, BootOut
  <1>4. ASSUME NEW u \in Updater, ArmFailsafe(u) PROVE OutcomesGoOn
    BY <1>4 DEF ArmFailsafe
  <1>5. ASSUME NEW u \in Updater, StartInstall(u) \/ InstallRefused(u)
        PROVE  OutcomesGoOn
    BY <1>5 DEF StartInstall, InstallRefused
  <1>6. ASSUME NEW u \in Updater, InstallEnds(u) PROVE OutcomesGoOn
    BY <1>6 DEF InstallEnds, ServiceStarts
  <1>7. ASSUME NEW n \in Update, Awake(n) PROVE OutcomesGoOn
    BY <1>7 DEF Awake
  <1>8. ASSUME NEW n \in Update, InstallNext(n) PROVE OutcomesGoOn
    BY <1>8 DEF InstallNext
  <1>9. ASSUME NEW n \in Update, PackageRefused(n) \/ PackageFails(n)
        PROVE  OutcomesGoOn
    BY <1>9 DEF PackageRefused, PackageFails, GiveUpPackage
  <1>10. ASSUME NEW n \in Update, PackageDone(n) PROVE OutcomesGoOn
    BY <1>10 DEF PackageDone
  <1>11. ASSUME NEW n \in Update, StartAfter(n) PROVE OutcomesGoOn
    BY <1>11 DEF StartAfter, StartService, ServiceStarts, ServiceGone
  <1>12. ASSUME NEW n \in Update, FailsafeFires(n) PROVE OutcomesGoOn
    BY <1>12 DEF FailsafeFires, StartService, ServiceStarts, ServiceGone
  <1>13. CASE ServiceCrashes
    BY <1>13 DEF ServiceCrashes, ServiceStarts, ServiceGone
  <1> QED
    BY <1>1, <1>2, <1>3, <1>4, <1>5, <1>6, <1>7, <1>8, <1>9, <1>10, <1>11, <1>12, <1>13
       DEF GoingMove, UpdaterStep, ScriptStep

LEMMA FailsafeEffect == PackageTypeOK /\ GoingMove => FailsafesGoOn
  <1> SUFFICES ASSUME PackageTypeOK, GoingMove PROVE FailsafesGoOn
    OBVIOUS
  <1> USE DEF FailsafesGoOn, PackageTypeOK, InstallsAgent
  <1>1. ASSUME NEW u \in Updater, Stage(u) \/ StageFails(u) PROVE FailsafesGoOn
    BY <1>1 DEF Stage, StageFails
  <1>2. ASSUME NEW u \in Updater, Spawn(u) PROVE FailsafesGoOn
    BY <1>2 DEF Spawn
  <1>3. ASSUME NEW u \in Updater, SpawnFails(u) PROVE FailsafesGoOn
    BY <1>3 DEF SpawnFails, BootOut
  <1>4. ASSUME NEW u \in Updater, ArmFailsafe(u) PROVE FailsafesGoOn
    <2>1. mine'[u] = 0
      BY <1>4 DEF ArmFailsafe, Report
    <2> QED
      BY <1>4, <2>1 DEF ArmFailsafe
  <1>5. ASSUME NEW u \in Updater, StartInstall(u) \/ InstallRefused(u)
        PROVE  FailsafesGoOn
    BY <1>5 DEF StartInstall, InstallRefused
  <1>6. ASSUME NEW u \in Updater, InstallEnds(u) PROVE FailsafesGoOn
    BY <1>6 DEF InstallEnds, ServiceStarts
  <1>7. ASSUME NEW n \in Update, Awake(n) PROVE FailsafesGoOn
    BY <1>7 DEF Awake
  <1>8. ASSUME NEW n \in Update, InstallNext(n) PROVE FailsafesGoOn
    BY <1>8 DEF InstallNext
  <1>9. ASSUME NEW n \in Update, PackageRefused(n) \/ PackageFails(n)
        PROVE  FailsafesGoOn
    BY <1>9 DEF PackageRefused, PackageFails, GiveUpPackage
  <1>10. ASSUME NEW n \in Update, PackageDone(n) PROVE FailsafesGoOn
    BY <1>10 DEF PackageDone
  <1>11. ASSUME NEW n \in Update, StartAfter(n) PROVE FailsafesGoOn
    BY <1>11 DEF StartAfter, StartService, ServiceStarts, ServiceGone
  <1>12. ASSUME NEW n \in Update, FailsafeFires(n) PROVE FailsafesGoOn
    BY <1>12 DEF FailsafeFires, StartService, ServiceStarts, ServiceGone
  <1>13. CASE ServiceCrashes
    BY <1>13 DEF ServiceCrashes, ServiceStarts, ServiceGone
  <1> QED
    BY <1>1, <1>2, <1>3, <1>4, <1>5, <1>6, <1>7, <1>8, <1>9, <1>10, <1>11, <1>12, <1>13
       DEF GoingMove, UpdaterStep, ScriptStep

(* Numbers are used once and each by one updater.                          *)
LEMMA NumberStep == PackageInv /\ PackageMove => NumberInv'
  <1> SUFFICES ASSUME PackageInv, PackageMove PROVE NumberInv'
    OBVIOUS
  <1>1. PackageTypeOK /\ NumberInv
    BY DEF PackageInv
  <1>2. ASSUME NEW u \in Updater, NEW list \in Seq(Package), Begin(u, list)
        PROVE  NumberInv'
    <2>1. updates \in Nat /\ updates' = updates + 1
      BY <1>1, <1>2, UpdateBoundAssumption DEF PackageTypeOK, Begin
    <2>2. mine' = [mine EXCEPT ![u] = updates + 1] /\ plan' = [plan EXCEPT ![updates + 1] = list]
      BY <1>2 DEF Begin
    <2>3. UNCHANGED <<script, failsafe, outcome>>
      BY <1>2 DEF Begin, scripts
    <2>4. \A v \in Updater : mine[v] \in Nat
      BY <1>1 DEF PackageTypeOK, Update
    <2>5. \A v \in Updater : mine'[v] = IF v = u THEN updates + 1 ELSE mine[v]
      BY <1>1, <2>2 DEF PackageTypeOK
    <2>6. \A n \in Update : n > updates' => n > updates /\ plan'[n] = plan[n]
      BY <1>1, <2>1, <2>2 DEF PackageTypeOK, Update
    <2>7. \A v \in Updater : mine'[v] <= updates'
      BY <1>1, <2>1, <2>4, <2>5 DEF NumberInv
    <2>8. \A v, w \in Updater : mine'[v] = mine'[w] /\ mine'[v] # 0 => v = w
      BY <1>1, <2>1, <2>4, <2>5 DEF NumberInv
    <2> QED
      BY <1>1, <2>3, <2>6, <2>7, <2>8 DEF NumberInv
  <1>3. CASE GoingMove
    <2>1. RequestsKept /\ UpdatersGoOn /\ ScriptsGoOn /\ OutcomesGoOn /\ FailsafesGoOn
      BY <1>1, <1>3, KeepsRequests, UpdaterEffect, ScriptEffect, OutcomeEffect, FailsafeEffect
    <2>2. updates \in Nat /\ \A v \in Updater : mine[v] \in Nat
      BY <1>1, UpdateBoundAssumption DEF PackageTypeOK, Update
    <2>3. \A v \in Updater : mine'[v] # 0 => mine'[v] = mine[v]
      BY <2>1 DEF UpdatersGoOn
    <2>4. \A n \in Update, v \in Updater : n > updates => mine[v] # n
      BY <1>1, <2>2 DEF NumberInv, Update
    <2>5. \A n \in Update : n > updates =>
            /\ plan'[n] = plan[n] /\ script'[n] = script[n]
            /\ failsafe'[n] = failsafe[n] /\ outcome'[n] = outcome[n]
      BY <1>1, <2>1, <2>4 DEF RequestsKept, ScriptsGoOn, OutcomesGoOn, FailsafesGoOn, NumberInv
    <2> QED
      BY <1>1, <2>1, <2>2, <2>3, <2>5 DEF NumberInv, RequestsKept
  <1> QED
    BY <1>2, <1>3 DEF PackageMove, GoingMove

(* A reported update is over, and its script is its own.                    *)
LEMMA FreshStep == PackageInv /\ PackageMove => FreshInv'
  <1> SUFFICES ASSUME PackageInv, PackageMove, NEW v \in Updater, mine'[v] # 0
               PROVE  /\ outcome'[mine'[v]] = "none" /\ failsafe'[mine'[v]] = "none"
                      /\ pc'[v] # "arm" => script'[mine'[v]] = "none"
    BY DEF FreshInv
  <1>1. PackageTypeOK /\ NumberInv /\ FreshInv
    BY DEF PackageInv
  <1>2. ASSUME NEW u \in Updater, NEW list \in Seq(Package), Begin(u, list)
        PROVE  /\ outcome'[mine'[v]] = "none" /\ failsafe'[mine'[v]] = "none"
               /\ pc'[v] # "arm" => script'[mine'[v]] = "none"
    <2>1. UNCHANGED <<script, outcome, failsafe>>
      BY <1>2 DEF Begin, scripts
    <2>2. CASE v = u
      <3>1. mine'[v] = updates + 1 /\ updates + 1 \in Update /\ updates + 1 > updates
        BY <1>1, <1>2, <2>2, UpdateBoundAssumption DEF Begin, PackageTypeOK, Update
      <3> QED
        BY <1>1, <2>1, <3>1 DEF NumberInv
    <2>3. CASE v # u
      BY <1>1, <1>2, <2>1, <2>3 DEF Begin, PackageTypeOK, FreshInv
    <2> QED
      BY <2>2, <2>3
  <1>3. CASE GoingMove
    <2>1. UpdatersGoOn /\ ScriptsGoOn /\ OutcomesGoOn /\ FailsafesGoOn
      BY <1>1, <1>3, UpdaterEffect, ScriptEffect, OutcomeEffect, FailsafeEffect
    <2>2. mine'[v] = mine[v] /\ mine[v] \in Update /\ (pc[v] = "arm" => pc'[v] = "arm")
      BY <1>1, <2>1 DEF UpdatersGoOn, PackageTypeOK
    <2>3. \A u \in Updater : mine[u] = mine[v] => u = v
      BY <1>1, <2>2 DEF NumberInv
    <2>4. outcome'[mine[v]] = outcome[mine[v]]
      BY <2>1, <2>2, <2>3 DEF OutcomesGoOn
    <2>5. /\ outcome[mine[v]] = "none" /\ failsafe[mine[v]] = "none"
          /\ (pc[v] # "arm" => script[mine[v]] = "none")
      BY <1>1, <2>2 DEF FreshInv
    <2>6. ASSUME pc'[v] # "arm" PROVE script'[mine[v]] = "none"
      BY <2>1, <2>2, <2>3, <2>5, <2>6 DEF ScriptsGoOn
    <2>7. failsafe'[mine[v]] = "none"
      BY <2>1, <2>2, <2>3, <2>5 DEF FailsafesGoOn
    <2> QED
      BY <2>2, <2>4, <2>5, <2>6, <2>7
  <1> QED
    BY <1>2, <1>3 DEF PackageMove, GoingMove

(* A delayed start belongs to an install of the agent.                     *)
LEMMA ArmedStep == PackageInv /\ PackageMove => ArmedInv'
  <1> SUFFICES ASSUME PackageInv, PackageMove PROVE ArmedInv'
    OBVIOUS
  <1>1. PackageTypeOK /\ NumberInv /\ ArmedInv
    BY DEF PackageInv
  <1>2. ASSUME NEW u \in Updater, NEW list \in Seq(Package), Begin(u, list)
        PROVE  ArmedInv'
    <2>1. failsafe' = failsafe /\ plan' = [plan EXCEPT ![updates + 1] = list]
      BY <1>2 DEF Begin
    <2>2. updates \in Nat
      BY <1>1, UpdateBoundAssumption DEF PackageTypeOK
    <2>3. \A n \in Update : failsafe[n] # "none" => plan'[n] = plan[n]
      BY <1>1, <2>1, <2>2 DEF NumberInv, PackageTypeOK, Update
    <2> QED
      BY <1>1, <2>1, <2>3 DEF ArmedInv, InstallsAgent, Packages
  <1>3. CASE GoingMove
    <2>1. RequestsKept /\ FailsafesGoOn
      BY <1>1, <1>3, KeepsRequests, FailsafeEffect
    <2> QED
      BY <1>1, <2>1 DEF ArmedInv, RequestsKept, FailsafesGoOn, InstallsAgent, Packages
  <1> QED
    BY <1>2, <1>3 DEF PackageMove, GoingMove

TodosGoOn ==
  \A n \in Update :
    \/ todo'[n] = todo[n] /\ script'[n] = script[n]
    \/ /\ todo'[n] = todo[n] /\ script[n] # "none" /\ script'[n] # "none"
       /\ script'[n] = "busy" => todo[n] # <<>>
    \/ todo'[n] = plan[n] /\ script'[n] = "wait"
    \/ todo[n] # <<>> /\ todo'[n] = Tail(todo[n]) /\ script'[n] = "run"

LEMMA TodoEffect == PackageTypeOK /\ TodoInv /\ GoingMove => TodosGoOn
  <1> SUFFICES ASSUME PackageTypeOK, TodoInv, GoingMove PROVE TodosGoOn
    OBVIOUS
  <1> USE DEF scripts, Report, Fail, Move, TodosGoOn, PackageTypeOK, TodoInv
  <1>1. ASSUME NEW u \in Updater, Stage(u) \/ StageFails(u) PROVE TodosGoOn
    BY <1>1 DEF Stage, StageFails
  <1>2. ASSUME NEW u \in Updater, Spawn(u) PROVE TodosGoOn
    <2>1. ASSUME NEW m \in Update
          PROVE  \/ m = mine[u] /\ script'[m] = "wait" /\ todo'[m] = plan[m]
                 \/ m # mine[u] /\ script'[m] = script[m] /\ todo'[m] = todo[m]
                 \/ /\ m # mine[u] /\ script[m] # "none"
                    /\ script'[m] = "killed" /\ todo'[m] = todo[m]
      <3>1. script'[m] = IF m = mine[u] THEN "wait"
                         ELSE IF m \in BootedOut THEN "killed" ELSE script[m]
        BY <1>2 DEF Spawn
      <3>2. todo' = [todo EXCEPT ![mine[u]] = plan[mine[u]]]
        BY <1>2 DEF Spawn
      <3>3. m \in BootedOut => script[m] # "none"
        BY DEF BootedOut, Live
      <3> QED
        BY <3>1, <3>2, <3>3
    <2> QED
      BY <2>1
  <1>3. ASSUME NEW u \in Updater, SpawnFails(u) PROVE TodosGoOn
    <2>1. (BootOut \/ script' = script) /\ todo' = todo
      BY <1>3 DEF SpawnFails
    <2>2. ASSUME BootOut, NEW m \in Update
          PROVE  script'[m] = script[m] \/ (script[m] # "none" /\ script'[m] = "killed")
      <3>1. script'[m] = IF m \in BootedOut THEN "killed" ELSE script[m]
        BY <2>2 DEF BootOut
      <3>2. m \in BootedOut => script[m] # "none"
        BY DEF BootedOut, Live
      <3> QED
        BY <3>1, <3>2
    <2> QED
      BY <2>1, <2>2
  <1>4. ASSUME NEW u \in Updater, ArmFailsafe(u) PROVE TodosGoOn
    BY <1>4 DEF ArmFailsafe
  <1>5. ASSUME NEW u \in Updater, StartInstall(u) \/ InstallRefused(u)
        PROVE  TodosGoOn
    BY <1>5 DEF StartInstall, InstallRefused
  <1>6. ASSUME NEW u \in Updater, InstallEnds(u) PROVE TodosGoOn
    <2>1. todo' = todo
      BY <1>6 DEF InstallEnds
    <2>2. ASSUME NEW m \in Update
          PROVE  script'[m] = script[m] \/ (script[m] # "none" /\ script'[m] = "killed")
      BY <1>6 DEF InstallEnds, BootedOut, Live
    <2> QED
      BY <2>1, <2>2
  <1>7. ASSUME NEW n \in Update, Awake(n) PROVE TodosGoOn
    BY <1>7 DEF Awake
  <1>8. ASSUME NEW n \in Update, InstallNext(n) PROVE TodosGoOn
    BY <1>8 DEF InstallNext
  <1>9. ASSUME NEW n \in Update, PackageRefused(n) \/ PackageFails(n)
        PROVE  TodosGoOn
    <2>1. todo[n] # <<>> /\ GiveUpPackage(n) /\ script[n] # "none"
      BY <1>9 DEF PackageRefused, PackageFails
    <2>2. CASE Forgives(Head(todo[n]))
      BY <2>1, <2>2 DEF GiveUpPackage
    <2>3. CASE ~Forgives(Head(todo[n]))
      BY <2>1, <2>3 DEF GiveUpPackage
    <2> QED
      BY <2>2, <2>3
  <1>10. ASSUME NEW n \in Update, PackageDone(n) PROVE TodosGoOn
    BY <1>10 DEF PackageDone
  <1>11. ASSUME NEW n \in Update, StartAfter(n) PROVE TodosGoOn
    BY <1>11 DEF StartAfter, StartService, ServiceStarts, ServiceGone
  <1>12. ASSUME NEW n \in Update, FailsafeFires(n) PROVE TodosGoOn
    BY <1>12 DEF FailsafeFires, StartService, ServiceStarts, ServiceGone
  <1>13. CASE ServiceCrashes
    BY <1>13 DEF ServiceCrashes, ServiceStarts, ServiceGone
  <1> QED
    BY <1>1, <1>2, <1>3, <1>4, <1>5, <1>6, <1>7, <1>8, <1>9, <1>10, <1>11, <1>12, <1>13
       DEF GoingMove, UpdaterStep, ScriptStep

(* A script installs only packages of its update.                          *)
LEMMA TodoStep == PackageInv /\ PackageMove => TodoInv'
  <1> SUFFICES ASSUME PackageInv, PackageMove PROVE TodoInv'
    OBVIOUS
  <1>1. PackageTypeOK /\ NumberInv /\ TodoInv
    BY DEF PackageInv
  <1>2. ASSUME NEW u \in Updater, NEW list \in Seq(Package), Begin(u, list)
        PROVE  TodoInv'
    <2>1. UNCHANGED <<script, todo>> /\ plan' = [plan EXCEPT ![updates + 1] = list]
      BY <1>2 DEF Begin, scripts
    <2>2. updates \in Nat
      BY <1>1, UpdateBoundAssumption DEF PackageTypeOK
    <2>3. ASSUME NEW n \in Update, n <= updates PROVE Packages(n)' = Packages(n)
      BY <1>1, <2>1, <2>2, <2>3 DEF Packages, PackageTypeOK, Update
    <2>4. ASSUME NEW n \in Update, n > updates PROVE todo[n] = <<>>
      BY <1>1, <2>4 DEF NumberInv, TodoInv
    <2> QED
      BY <1>1, <2>1, <2>2, <2>3, <2>4 DEF TodoInv, Update
  <1>3. CASE GoingMove
    <2>1. \A n \in Update : Packages(n)' = Packages(n)
      BY <1>1, <1>3, KeepsRequests DEF RequestsKept, Packages
    <2>2. SUFFICES ASSUME NEW m \in Update
                   PROVE  /\ script'[m] = "none" => todo'[m] = <<>>
                          /\ script'[m] = "busy" => todo'[m] # <<>>
                          /\ \A i \in DOMAIN todo'[m] : todo'[m][i] \in Packages(m)
      BY <2>1 DEF TodoInv
    <2>3. /\ script[m] = "none" => todo[m] = <<>>
          /\ script[m] = "busy" => todo[m] # <<>>
          /\ \A i \in DOMAIN todo[m] : todo[m][i] \in Packages(m)
          /\ todo[m] \in Seq(Package)
      BY <1>1 DEF TodoInv, PackageTypeOK
    <2>4. todo[m] # <<>> =>
            \A i \in DOMAIN Tail(todo[m]) : Tail(todo[m])[i] \in Packages(m)
      BY <2>3, HeadAndTail
    <2>5. \A i \in DOMAIN plan[m] : plan[m][i] \in Packages(m)
      BY DEF Packages
    <2> QED
      BY <1>1, <1>3, <2>3, <2>4, <2>5, TodoEffect DEF TodosGoOn
  <1> QED
    BY <1>2, <1>3 DEF PackageMove, GoingMove

(* Two installers never hold the package manager at the same time.         *)
LEMMA ManagerGoesOn == PackageInv /\ GoingMove => ManagerInv'
  <1> SUFFICES ASSUME PackageInv, GoingMove PROVE ManagerInv'
    OBVIOUS
  <1>a. /\ script \in [Update -> {"none", "wait", "run", "busy", "done", "aborted",
                                  "killed"}]
        /\ pc \in [Updater -> {"idle", "stage", "spawn", "arm", "install",
                               "installing"}]
        /\ mine \in [Updater -> Update \cup {0}]
        /\ \A u \in Updater : pc[u] = "idle" <=> mine[u] = 0
        /\ 0 \notin Update
    BY DEF PackageInv, PackageTypeOK, Update
  <1>b. /\ \A n \in Update : script[n] = "busy" => pm = n
        /\ \A u \in Updater : pc[u] = "installing" => pm = mine[u]
        /\ \A u \in Updater : mine[u] # 0 /\ pc[u] # "arm" => script[mine[u]] = "none"
        /\ \A u, v \in Updater : mine[u] = mine[v] /\ mine[u] # 0 => u = v
    BY DEF PackageInv, ManagerInv, FreshInv, NumberInv
  <1>c. ASSUME ServiceGone
        PROVE  /\ \A n \in Update : script[n] = "busy" => pm' = n
               /\ \A u \in Updater : pc'[u] = "installing" => pm' = mine'[u]
    <2>1. pc' = [pc EXCEPT !["service"] = "idle"] /\ mine' = [mine EXCEPT !["service"] = 0]
      BY <1>c DEF ServiceGone
    <2>2. pm' = IF pc["service"] = "installing" THEN 0 ELSE pm
      BY <1>c DEF ServiceGone
    <2>3. ASSUME NEW n \in Update, script[n] = "busy" PROVE pm' = n
      BY <1>a, <1>b, <2>2, <2>3 DEF Updater
    <2>4. ASSUME NEW u \in Updater, pc'[u] = "installing" PROVE pm' = mine'[u]
      <3>1. u # "service" /\ pc[u] = "installing" /\ mine'[u] = mine[u]
        BY <1>a, <2>1, <2>4
      <3>2. pc["service"] # "installing"
        BY <1>a, <1>b, <3>1 DEF Updater
      <3> QED
        BY <1>b, <2>2, <3>1, <3>2
    <2> QED
      BY <2>3, <2>4
  <1>d. ASSUME NEW n \in Update, StartService(n)
        PROVE  /\ \A m \in Update : script[m] = "busy" => pm' = m
               /\ \A u \in Updater : pc'[u] = "installing" => pm' = mine'[u]
    BY <1>b, <1>c, <1>d DEF StartService, updater
  <1> USE DEF ManagerInv, machine, updater, scripts, Report, Fail, Move
  <1>1. ASSUME NEW u \in Updater, Stage(u) \/ StageFails(u) PROVE ManagerInv'
    BY <1>1, <1>a, <1>b DEF Stage, StageFails
  <1>2. ASSUME NEW u \in Updater, Spawn(u) PROVE ManagerInv'
    BY <1>2, <1>a, <1>b DEF Spawn, BootedOut, Live
  <1>3. ASSUME NEW u \in Updater, SpawnFails(u) PROVE ManagerInv'
    BY <1>3, <1>a, <1>b DEF SpawnFails, BootOut, BootedOut, Live
  <1>4. ASSUME NEW u \in Updater, ArmFailsafe(u) PROVE ManagerInv'
    BY <1>4, <1>a, <1>b DEF ArmFailsafe
  <1>5. ASSUME NEW u \in Updater, StartInstall(u) \/ InstallRefused(u)
        PROVE  ManagerInv'
    BY <1>5, <1>a, <1>b DEF StartInstall, InstallRefused
  <1>6. ASSUME NEW u \in Updater, InstallEnds(u) PROVE ManagerInv'
    BY <1>6, <1>a, <1>b DEF InstallEnds, ServiceStarts
  <1>7. ASSUME NEW n \in Update, Awake(n) PROVE ManagerInv'
    BY <1>7, <1>a, <1>b DEF Awake
  <1>8. ASSUME NEW n \in Update, InstallNext(n) PROVE ManagerInv'
    BY <1>8, <1>a, <1>b DEF InstallNext
  <1>9. ASSUME NEW n \in Update, PackageRefused(n) \/ PackageFails(n)
        PROVE  ManagerInv'
    BY <1>9, <1>a, <1>b DEF PackageRefused, PackageFails, GiveUpPackage
  <1>10. ASSUME NEW n \in Update, PackageDone(n) PROVE ManagerInv'
    BY <1>10, <1>a, <1>b DEF PackageDone
  <1>11. ASSUME NEW n \in Update, StartAfter(n) PROVE ManagerInv'
    BY <1>11, <1>a, <1>d DEF StartAfter
  <1>12. ASSUME NEW n \in Update, FailsafeFires(n) PROVE ManagerInv'
    BY <1>12, <1>d DEF FailsafeFires
  <1>13. CASE ServiceCrashes
    BY <1>13, <1>c DEF ServiceCrashes
  <1> QED
    BY <1>1, <1>2, <1>3, <1>4, <1>5, <1>6, <1>7, <1>8, <1>9, <1>10, <1>11, <1>12, <1>13
       DEF GoingMove, UpdaterStep, ScriptStep

(* Nothing but the package of the agent brings a new version.              *)
LEMMA VersionGoesOn == PackageInv /\ GoingMove => VersionInv'
  <1> SUFFICES ASSUME PackageTypeOK, VersionInv, GoingMove PROVE VersionInv'
    BY DEF PackageInv
  <1> USE DEF machine, service, VersionInv, PackageTypeOK
  <1>1. ASSUME NEW u \in Updater, Stage(u) \/ StageFails(u) PROVE VersionInv'
    BY <1>1 DEF Stage, StageFails
  <1>2. ASSUME NEW u \in Updater, Spawn(u) PROVE VersionInv'
    BY <1>2 DEF Spawn
  <1>3. ASSUME NEW u \in Updater, SpawnFails(u) PROVE VersionInv'
    BY <1>3 DEF SpawnFails, BootOut
  <1>4. ASSUME NEW u \in Updater, ArmFailsafe(u) PROVE VersionInv'
    BY <1>4 DEF ArmFailsafe
  <1>5. ASSUME NEW u \in Updater, StartInstall(u) \/ InstallRefused(u)
        PROVE  VersionInv'
    BY <1>5 DEF StartInstall, InstallRefused
  <1>6. ASSUME NEW u \in Updater, InstallEnds(u) PROVE VersionInv'
    BY <1>6 DEF InstallEnds, ServiceStarts
  <1>7. ASSUME NEW n \in Update, Awake(n) PROVE VersionInv'
    BY <1>7 DEF Awake
  <1>8. ASSUME NEW n \in Update, InstallNext(n) PROVE VersionInv'
    BY <1>8 DEF InstallNext
  <1>9. ASSUME NEW n \in Update, PackageRefused(n) \/ PackageFails(n)
        PROVE  VersionInv'
    BY <1>9 DEF PackageRefused, PackageFails, GiveUpPackage
  <1>10. ASSUME NEW n \in Update, PackageDone(n) PROVE VersionInv'
    BY <1>10 DEF PackageDone
  <1>11. ASSUME NEW n \in Update, StartAfter(n) PROVE VersionInv'
    BY <1>11 DEF StartAfter, StartService, ServiceStarts, ServiceGone
  <1>12. ASSUME NEW n \in Update, FailsafeFires(n) PROVE VersionInv'
    BY <1>12 DEF FailsafeFires, StartService, ServiceStarts, ServiceGone
  <1>13. CASE ServiceCrashes
    BY <1>13 DEF ServiceCrashes, ServiceStarts, ServiceGone
  <1> QED
    BY <1>1, <1>2, <1>3, <1>4, <1>5, <1>6, <1>7, <1>8, <1>9, <1>10, <1>11, <1>12, <1>13
       DEF GoingMove, UpdaterStep, ScriptStep

(* A script that has begun ends by installing all it can and starting the  *)
(* service, or badly; and the service is stopped only for the agent.       *)
ScriptsEnd ==
  \A n \in Update : script[n] \notin {"none", "wait"} =>
    /\ script'[n] \notin {"none", "wait"}
    /\ \/ script'[n] \in {script[n], "run", "busy", "aborted", "killed"}
       \/ up' \/ ~MayStart(n)

StopsForAgent ==
  up /\ ~up' =>
    \E n \in Update :
      script'[n] = "busy" /\ todo[n] # <<>> /\ Head(todo[n]) = "agent"

HostKept == UNCHANGED host

LEMMA ScriptsEndWell == PackageInv /\ GoingMove => ScriptsEnd
  <1> SUFFICES ASSUME PackageInv, GoingMove PROVE ScriptsEnd
    OBVIOUS
  <1>a. script \in [Update -> {"none", "wait", "run", "busy", "done", "aborted",
                               "killed"}]
    BY DEF PackageInv, PackageTypeOK
  <1>b. \A u \in Updater : pc[u] \notin {"idle", "arm"} => script[mine[u]] = "none"
    BY DEF PackageInv, PackageTypeOK, FreshInv
  <1> USE DEF ScriptsEnd, scripts, Fail, Report, Move
  <1>1. ASSUME NEW u \in Updater, Stage(u) \/ StageFails(u) PROVE ScriptsEnd
    BY <1>1, <1>a, <1>b DEF Stage, StageFails
  <1>2. ASSUME NEW u \in Updater, Spawn(u) PROVE ScriptsEnd
    BY <1>2, <1>a, <1>b DEF Spawn, BootedOut, Live
  <1>3. ASSUME NEW u \in Updater, SpawnFails(u) PROVE ScriptsEnd
    BY <1>3, <1>a, <1>b DEF SpawnFails, BootOut, BootedOut, Live
  <1>4. ASSUME NEW u \in Updater, ArmFailsafe(u) PROVE ScriptsEnd
    BY <1>4, <1>a, <1>b DEF ArmFailsafe
  <1>5. ASSUME NEW u \in Updater, StartInstall(u) \/ InstallRefused(u)
        PROVE  ScriptsEnd
    BY <1>5, <1>a, <1>b DEF StartInstall, InstallRefused
  <1>6. ASSUME NEW u \in Updater, InstallEnds(u) PROVE ScriptsEnd
    BY <1>6, <1>a, <1>b DEF InstallEnds, ServiceStarts, BootedOut, Live
  <1>7. ASSUME NEW n \in Update, Awake(n) PROVE ScriptsEnd
    BY <1>7, <1>a, <1>b DEF Awake
  <1>8. ASSUME NEW n \in Update, InstallNext(n) PROVE ScriptsEnd
    BY <1>8, <1>a, <1>b DEF InstallNext
  <1>9. ASSUME NEW n \in Update, PackageRefused(n) \/ PackageFails(n)
        PROVE  ScriptsEnd
    BY <1>9, <1>a, <1>b DEF PackageRefused, PackageFails, GiveUpPackage
  <1>10. ASSUME NEW n \in Update, PackageDone(n) PROVE ScriptsEnd
    BY <1>10, <1>a, <1>b DEF PackageDone
  <1>11. ASSUME NEW n \in Update, StartAfter(n) PROVE ScriptsEnd
    BY <1>11, <1>a, <1>b DEF StartAfter, StartService, ServiceStarts, service
  <1>12. ASSUME NEW n \in Update, FailsafeFires(n) PROVE ScriptsEnd
    BY <1>12, <1>a, <1>b DEF FailsafeFires, StartService, ServiceStarts, ServiceGone
  <1>13. CASE ServiceCrashes
    BY <1>13, <1>a, <1>b DEF ServiceCrashes, ServiceStarts, ServiceGone
  <1> QED
    BY <1>1, <1>2, <1>3, <1>4, <1>5, <1>6, <1>7, <1>8, <1>9, <1>10, <1>11, <1>12, <1>13
       DEF GoingMove, UpdaterStep, ScriptStep

LEMMA ServiceStopsForAgent == PackageInv /\ GoingMove => StopsForAgent
  <1> SUFFICES ASSUME PackageTypeOK, GoingMove PROVE StopsForAgent
    BY DEF PackageInv
  <1> USE DEF StopsForAgent, service, Move, PackageTypeOK
  <1>1. ASSUME NEW u \in Updater, Stage(u) \/ StageFails(u) PROVE StopsForAgent
    BY <1>1 DEF Stage, StageFails
  <1>2. ASSUME NEW u \in Updater, Spawn(u) PROVE StopsForAgent
    BY <1>2 DEF Spawn
  <1>3. ASSUME NEW u \in Updater, SpawnFails(u) PROVE StopsForAgent
    BY <1>3 DEF SpawnFails, BootOut
  <1>4. ASSUME NEW u \in Updater, ArmFailsafe(u) PROVE StopsForAgent
    BY <1>4 DEF ArmFailsafe
  <1>5. ASSUME NEW u \in Updater, StartInstall(u) \/ InstallRefused(u)
        PROVE  StopsForAgent
    BY <1>5 DEF StartInstall, InstallRefused
  <1>6. ASSUME NEW u \in Updater, InstallEnds(u) PROVE StopsForAgent
    BY <1>6 DEF InstallEnds, ServiceStarts
  <1>7. ASSUME NEW n \in Update, Awake(n) PROVE StopsForAgent
    BY <1>7 DEF Awake
  <1>8. ASSUME NEW n \in Update, InstallNext(n) PROVE StopsForAgent
    BY <1>8 DEF InstallNext
  <1>9. ASSUME NEW n \in Update, PackageRefused(n) \/ PackageFails(n)
        PROVE  StopsForAgent
    BY <1>9 DEF PackageRefused, PackageFails, GiveUpPackage
  <1>10. ASSUME NEW n \in Update, PackageDone(n) PROVE StopsForAgent
    BY <1>10 DEF PackageDone
  <1>11. ASSUME NEW n \in Update, StartAfter(n) PROVE StopsForAgent
    BY <1>11 DEF StartAfter, StartService, ServiceStarts, ServiceGone
  <1>12. ASSUME NEW n \in Update, FailsafeFires(n) PROVE StopsForAgent
    BY <1>12 DEF FailsafeFires, StartService, ServiceStarts, ServiceGone
  <1>13. CASE ServiceCrashes
    BY <1>13 DEF ServiceCrashes, ServiceStarts, ServiceGone
  <1> QED
    BY <1>1, <1>2, <1>3, <1>4, <1>5, <1>6, <1>7, <1>8, <1>9, <1>10, <1>11, <1>12, <1>13
       DEF GoingMove, UpdaterStep, ScriptStep

LEMMA KeepsHost == PackageInv /\ GoingMove => HostKept
  <1> SUFFICES ASSUME PackageTypeOK, GoingMove PROVE HostKept
    BY DEF PackageInv
  <1> USE DEF HostKept
  <1>1. ASSUME NEW u \in Updater, Stage(u) \/ StageFails(u) PROVE HostKept
    BY <1>1 DEF Stage, StageFails
  <1>2. ASSUME NEW u \in Updater, Spawn(u) PROVE HostKept
    BY <1>2 DEF Spawn
  <1>3. ASSUME NEW u \in Updater, SpawnFails(u) PROVE HostKept
    BY <1>3 DEF SpawnFails, BootOut
  <1>4. ASSUME NEW u \in Updater, ArmFailsafe(u) PROVE HostKept
    BY <1>4 DEF ArmFailsafe
  <1>5. ASSUME NEW u \in Updater, StartInstall(u) \/ InstallRefused(u)
        PROVE  HostKept
    BY <1>5 DEF StartInstall, InstallRefused
  <1>6. ASSUME NEW u \in Updater, InstallEnds(u) PROVE HostKept
    BY <1>6 DEF InstallEnds, ServiceStarts
  <1>7. ASSUME NEW n \in Update, Awake(n) PROVE HostKept
    BY <1>7 DEF Awake
  <1>8. ASSUME NEW n \in Update, InstallNext(n) PROVE HostKept
    BY <1>8 DEF InstallNext
  <1>9. ASSUME NEW n \in Update, PackageRefused(n) \/ PackageFails(n)
        PROVE  HostKept
    BY <1>9 DEF PackageRefused, PackageFails, GiveUpPackage
  <1>10. ASSUME NEW n \in Update, PackageDone(n) PROVE HostKept
    BY <1>10 DEF PackageDone
  <1>11. ASSUME NEW n \in Update, StartAfter(n) PROVE HostKept
    BY <1>11 DEF StartAfter, StartService, ServiceStarts, ServiceGone
  <1>12. ASSUME NEW n \in Update, FailsafeFires(n) PROVE HostKept
    BY <1>12 DEF FailsafeFires, StartService, ServiceStarts, ServiceGone
  <1>13. CASE ServiceCrashes
    BY <1>13 DEF ServiceCrashes, ServiceStarts, ServiceGone
  <1> QED
    BY <1>1, <1>2, <1>3, <1>4, <1>5, <1>6, <1>7, <1>8, <1>9, <1>10, <1>11, <1>12, <1>13
       DEF GoingMove, UpdaterStep, ScriptStep

(* An install of the agent that is to blame for a service that is down     *)
(* stays so until the service is up.                                       *)
LEMMA DownStep == PackageInv /\ PackageMove => DownInv'
  <1> SUFFICES ASSUME PackageInv, PackageMove, ~up' PROVE DownInv'
    BY DEF DownInv
  <1>1. PackageTypeOK /\ NumberInv /\ TodoInv /\ DownInv
    BY DEF PackageInv
  <1>2. ASSUME NEW u \in Updater, NEW list \in Seq(Package), Begin(u, list)
        PROVE  DownInv'
    <2>1. UNCHANGED <<up, script, host>> /\ plan' = [plan EXCEPT ![updates + 1] = list]
      BY <1>2 DEF Begin, service, scripts
    <2>2. updates \in Nat
      BY <1>1, UpdateBoundAssumption DEF PackageTypeOK
    <2>3. PICK n \in Update : /\ InstallsAgent(n) /\ script[n] \notin {"none", "wait"}
                              /\ Live(n) \/ BadlyEnded(n) \/ ~MayStart(n)
      BY <1>1, <2>1 DEF DownInv
    <2>4. n # updates + 1
      BY <1>1, <2>2, <2>3 DEF NumberInv, Update
    <2>5. InstallsAgent(n)'
      BY <1>1, <2>1, <2>3, <2>4 DEF InstallsAgent, Packages, PackageTypeOK
    <2>6. MayStart(n)' = MayStart(n)
      <3>1. byRoot' \in {byRoot, byRoot \cup {updates + 1}} /\ platform' = platform
        BY <1>2 DEF Begin, host
      <3> QED
        BY <2>4, <3>1 DEF MayStart
    <2>7. script'[n] = script[n]
      BY <2>1
    <2> QED
      BY <2>3, <2>5, <2>6, <2>7 DEF DownInv, Live, BadlyEnded
  <1>3. CASE GoingMove
    <2>1. RequestsKept /\ HostKept /\ ScriptsEnd /\ StopsForAgent
      BY <1>1, <1>3, KeepsRequests, KeepsHost, ScriptsEndWell, ServiceStopsForAgent
    <2>2. \A n \in Update : (InstallsAgent(n)' <=> InstallsAgent(n))
                            /\ (MayStart(n)' <=> MayStart(n))
      BY <2>1 DEF RequestsKept, HostKept, host, InstallsAgent, Packages, MayStart
    <2>3. CASE ~up
      <3>1. PICK n \in Update : /\ InstallsAgent(n) /\ script[n] \notin {"none", "wait"}
                                /\ Live(n) \/ BadlyEnded(n) \/ ~MayStart(n)
        BY <1>1, <2>3 DEF DownInv
      <3>2. script'[n] \notin {"none", "wait"}
        BY <2>1, <3>1 DEF ScriptsEnd
      <3>3. \/ script'[n] \in {script[n], "run", "busy", "aborted", "killed"}
            \/ ~MayStart(n)
        BY <2>1, <3>1 DEF ScriptsEnd
      <3> QED
        BY <2>2, <3>1, <3>2, <3>3 DEF DownInv, Live, BadlyEnded
    <2>4. CASE up
      <3>1. PICK n \in Update :
              script'[n] = "busy" /\ todo[n] # <<>> /\ Head(todo[n]) = "agent"
        BY <2>1, <2>4 DEF StopsForAgent
      <3>2. InstallsAgent(n)
        <4>1. todo[n] \in Seq(Package) /\ \A i \in DOMAIN todo[n] : todo[n][i] \in Packages(n)
          BY <1>1 DEF PackageTypeOK, TodoInv
        <4> QED
          BY <3>1, <4>1, HeadAndTail DEF InstallsAgent
      <3> QED
        BY <2>2, <3>1, <3>2 DEF DownInv, Live
    <2> QED
      BY <1>1, <2>3, <2>4 DEF PackageTypeOK
  <1> QED
    BY <1>2, <1>3 DEF PackageMove, GoingMove

FilesGoOn ==
  \A n \in Update :
    /\ \A p : <<n, p>> \in files' \ files => \E u \in Updater : mine[u] = n /\ pc[u] = "stage"
    /\ outcome'[n] = "failed" => outcome[n] = "failed" \/ StagedBy(n)' = {}

LEMMA FileEffect == PackageTypeOK /\ GoingMove => FilesGoOn
  <1> SUFFICES ASSUME PackageTypeOK, GoingMove PROVE FilesGoOn
    OBVIOUS
  <1> USE DEF FilesGoOn, Report, Fail, StagedBy, PackageTypeOK
  <1>1. ASSUME NEW u \in Updater, Stage(u) \/ StageFails(u) PROVE FilesGoOn
    <2>1. CASE Stage(u)
      <3>1. \E p : files' = files \cup {<<mine[u], p>>}
        BY <2>1 DEF Stage
      <3>2. pc[u] = "stage" /\ outcome' = outcome
        BY <2>1 DEF Stage
      <3> QED
        BY <3>1, <3>2
    <2>2. CASE StageFails(u)
      BY <2>2 DEF StageFails
    <2> QED
      BY <1>1, <2>1, <2>2
  <1>2. ASSUME NEW u \in Updater, Spawn(u) PROVE FilesGoOn
    BY <1>2 DEF Spawn
  <1>3. ASSUME NEW u \in Updater, SpawnFails(u) PROVE FilesGoOn
    BY <1>3 DEF SpawnFails, BootOut
  <1>4. ASSUME NEW u \in Updater, ArmFailsafe(u) PROVE FilesGoOn
    BY <1>4 DEF ArmFailsafe
  <1>5. ASSUME NEW u \in Updater, StartInstall(u) \/ InstallRefused(u)
        PROVE  FilesGoOn
    BY <1>5 DEF StartInstall, InstallRefused
  <1>6. ASSUME NEW u \in Updater, InstallEnds(u) PROVE FilesGoOn
    BY <1>6 DEF InstallEnds, ServiceStarts
  <1>7. ASSUME NEW n \in Update, Awake(n) PROVE FilesGoOn
    BY <1>7 DEF Awake
  <1>8. ASSUME NEW n \in Update, InstallNext(n) PROVE FilesGoOn
    BY <1>8 DEF InstallNext
  <1>9. ASSUME NEW n \in Update, PackageRefused(n) \/ PackageFails(n)
        PROVE  FilesGoOn
    BY <1>9 DEF PackageRefused, PackageFails, GiveUpPackage
  <1>10. ASSUME NEW n \in Update, PackageDone(n) PROVE FilesGoOn
    BY <1>10 DEF PackageDone
  <1>11. ASSUME NEW n \in Update, StartAfter(n) PROVE FilesGoOn
    BY <1>11 DEF StartAfter, StartService, ServiceStarts, ServiceGone
  <1>12. ASSUME NEW n \in Update, FailsafeFires(n) PROVE FilesGoOn
    BY <1>12 DEF FailsafeFires, StartService, ServiceStarts, ServiceGone
  <1>13. CASE ServiceCrashes
    BY <1>13 DEF ServiceCrashes, ServiceStarts, ServiceGone
  <1> QED
    BY <1>1, <1>2, <1>3, <1>4, <1>5, <1>6, <1>7, <1>8, <1>9, <1>10, <1>11, <1>12, <1>13
       DEF GoingMove, UpdaterStep, ScriptStep

(* A failed update removed what it staged, and nobody stages for it again. *)
LEMMA NoPackageStep == PackageInv /\ PackageMove => FailureLeavesNoPackage'
  <1> SUFFICES ASSUME PackageInv, PackageMove PROVE FailureLeavesNoPackage'
    OBVIOUS
  <1>1. PackageTypeOK /\ FreshInv /\ FailureLeavesNoPackage
    BY DEF PackageInv
  <1>2. ASSUME NEW u \in Updater, NEW list \in Seq(Package), Begin(u, list)
        PROVE  FailureLeavesNoPackage'
    BY <1>1, <1>2 DEF Begin, FailureLeavesNoPackage, StagedBy
  <1>3. CASE GoingMove
    <2>1. FilesGoOn
      BY <1>1, <1>3, FileEffect
    <2>2. SUFFICES ASSUME NEW n \in Update, outcome'[n] = "failed", outcome[n] = "failed"
                   PROVE  StagedBy(n)' = {}
      BY <2>1 DEF FailureLeavesNoPackage, FilesGoOn
    <2>3. \A u \in Updater : mine[u] # n
      BY <1>1, <2>2, UpdateBoundAssumption DEF FreshInv, Update
    <2>4. files' \subseteq Update \X Package
      BY <1>3, PackageTypeStep DEF PackageMove, GoingMove, PackageTypeOK
    <2>5. ASSUME NEW f \in files', f[1] = n PROVE FALSE
      <3>1. f = <<n, f[2]>>
        BY <2>4, <2>5
      <3>2. f \notin files
        BY <1>1, <2>2, <2>5 DEF FailureLeavesNoPackage, StagedBy
      <3> QED
        BY <2>1, <2>3, <3>1, <3>2 DEF FilesGoOn
    <2> QED
      BY <2>5 DEF StagedBy
  <1> QED
    BY <1>2, <1>3 DEF PackageMove, GoingMove

(* Where an old version that runs comes from, and where a package of the   *)
(* agent that is being installed.                                          *)
BusyGoesOn ==
  \A n \in Update : script'[n] = "busy" =>
    /\ todo'[n] = todo[n]
    /\ script[n] = "busy" \/ (Head(todo[n]) = "agent" => ~up')

OldGoesOn ==
  up' /\ running' = "old" =>
    \/ up /\ running = "old" /\ (installed' = installed \/ InMiddle)
    \/ /\ installed' = "old"
       /\ \/ \A n \in Update : script[n] # "busy"
          \/ \E n \in Update : \/ failsafe[n] # "none" /\ failsafe'[n] = "fired"
                               \/ script[n] = "run" /\ script'[n] = "done"

DoneStays == \A n \in Update : script[n] = "done" => script'[n] = "done"

LEMMA DoneForGood == PackageInv /\ GoingMove => DoneStays
  <1> SUFFICES ASSUME PackageInv, GoingMove PROVE DoneStays
    OBVIOUS
  <1>a. script \in [Update -> {"none", "wait", "run", "busy", "done", "aborted",
                               "killed"}]
    BY DEF PackageInv, PackageTypeOK
  <1>b. \A u \in Updater : pc[u] \notin {"idle", "arm"} => script[mine[u]] = "none"
    BY DEF PackageInv, PackageTypeOK, FreshInv
  <1> USE DEF DoneStays, scripts, Fail, Report, Move
  <1>1. ASSUME NEW u \in Updater, Stage(u) \/ StageFails(u) PROVE DoneStays
    BY <1>1, <1>a, <1>b DEF Stage, StageFails
  <1>2. ASSUME NEW u \in Updater, Spawn(u) PROVE DoneStays
    BY <1>2, <1>a, <1>b DEF Spawn, BootedOut, Live
  <1>3. ASSUME NEW u \in Updater, SpawnFails(u) PROVE DoneStays
    BY <1>3, <1>a, <1>b DEF SpawnFails, BootOut, BootedOut, Live
  <1>4. ASSUME NEW u \in Updater, ArmFailsafe(u) PROVE DoneStays
    BY <1>4, <1>a, <1>b DEF ArmFailsafe
  <1>5. ASSUME NEW u \in Updater, StartInstall(u) \/ InstallRefused(u)
        PROVE  DoneStays
    BY <1>5, <1>a, <1>b DEF StartInstall, InstallRefused
  <1>6. ASSUME NEW u \in Updater, InstallEnds(u) PROVE DoneStays
    BY <1>6, <1>a, <1>b DEF InstallEnds, ServiceStarts, BootedOut, Live
  <1>7. ASSUME NEW n \in Update, Awake(n) PROVE DoneStays
    BY <1>7, <1>a, <1>b DEF Awake
  <1>8. ASSUME NEW n \in Update, InstallNext(n) PROVE DoneStays
    BY <1>8, <1>a, <1>b DEF InstallNext
  <1>9. ASSUME NEW n \in Update, PackageRefused(n) \/ PackageFails(n)
        PROVE  DoneStays
    BY <1>9, <1>a, <1>b DEF PackageRefused, PackageFails, GiveUpPackage
  <1>10. ASSUME NEW n \in Update, PackageDone(n) PROVE DoneStays
    BY <1>10, <1>a, <1>b DEF PackageDone
  <1>11. ASSUME NEW n \in Update, StartAfter(n) PROVE DoneStays
    BY <1>11, <1>a, <1>b DEF StartAfter, StartService, ServiceStarts, ServiceGone
  <1>12. ASSUME NEW n \in Update, FailsafeFires(n) PROVE DoneStays
    BY <1>12, <1>a, <1>b DEF FailsafeFires, StartService, ServiceStarts, ServiceGone
  <1>13. CASE ServiceCrashes
    BY <1>13, <1>a, <1>b DEF ServiceCrashes, ServiceStarts, ServiceGone
  <1> QED
    BY <1>1, <1>2, <1>3, <1>4, <1>5, <1>6, <1>7, <1>8, <1>9, <1>10, <1>11, <1>12, <1>13
       DEF GoingMove, UpdaterStep, ScriptStep

LEMMA BusyEffect == PackageInv /\ GoingMove => BusyGoesOn
  <1> SUFFICES ASSUME PackageInv, GoingMove PROVE BusyGoesOn
    OBVIOUS
  <1>a. /\ script \in [Update -> {"none", "wait", "run", "busy", "done", "aborted",
                                  "killed"}]
        /\ todo \in [Update -> Seq(Package)]
    BY DEF PackageInv, PackageTypeOK
  <1> USE DEF BusyGoesOn, scripts, Fail, Report, Move
  <1>1. ASSUME NEW u \in Updater, Stage(u) \/ StageFails(u) PROVE BusyGoesOn
    BY <1>1, <1>a DEF Stage, StageFails
  <1>2. ASSUME NEW u \in Updater, Spawn(u) PROVE BusyGoesOn
    BY <1>2, <1>a DEF Spawn, BootedOut, Live
  <1>3. ASSUME NEW u \in Updater, SpawnFails(u) PROVE BusyGoesOn
    BY <1>3, <1>a DEF SpawnFails, BootOut, BootedOut, Live
  <1>4. ASSUME NEW u \in Updater, ArmFailsafe(u) PROVE BusyGoesOn
    BY <1>4, <1>a DEF ArmFailsafe
  <1>5. ASSUME NEW u \in Updater, StartInstall(u) \/ InstallRefused(u)
        PROVE  BusyGoesOn
    BY <1>5, <1>a DEF StartInstall, InstallRefused
  <1>6. ASSUME NEW u \in Updater, InstallEnds(u) PROVE BusyGoesOn
    BY <1>6, <1>a DEF InstallEnds, ServiceStarts, BootedOut, Live
  <1>7. ASSUME NEW n \in Update, Awake(n) PROVE BusyGoesOn
    BY <1>7, <1>a DEF Awake
  <1>8. ASSUME NEW n \in Update, InstallNext(n) PROVE BusyGoesOn
    BY <1>8, <1>a DEF InstallNext
  <1>9. ASSUME NEW n \in Update, PackageRefused(n) \/ PackageFails(n)
        PROVE  BusyGoesOn
    BY <1>9, <1>a DEF PackageRefused, PackageFails, GiveUpPackage
  <1>10. ASSUME NEW n \in Update, PackageDone(n) PROVE BusyGoesOn
    BY <1>10, <1>a DEF PackageDone
  <1>11. ASSUME NEW n \in Update, StartAfter(n) PROVE BusyGoesOn
    BY <1>11, <1>a DEF StartAfter, StartService, ServiceStarts, ServiceGone
  <1>12. ASSUME NEW n \in Update, FailsafeFires(n) PROVE BusyGoesOn
    BY <1>12, <1>a DEF FailsafeFires, StartService, ServiceStarts, ServiceGone
  <1>13. CASE ServiceCrashes
    BY <1>13, <1>a DEF ServiceCrashes, ServiceStarts, ServiceGone
  <1> QED
    BY <1>1, <1>2, <1>3, <1>4, <1>5, <1>6, <1>7, <1>8, <1>9, <1>10, <1>11, <1>12, <1>13
       DEF GoingMove, UpdaterStep, ScriptStep

LEMMA OldEffect == PackageInv /\ GoingMove => OldGoesOn
  <1> SUFFICES ASSUME PackageInv, GoingMove PROVE OldGoesOn
    OBVIOUS
  <1>a. /\ script \in [Update -> {"none", "wait", "run", "busy", "done", "aborted",
                                  "killed"}]
        /\ failsafe \in [Update -> {"none", "armed", "fired"}]
        /\ installed \in {"old", "new"} /\ running \in {"old", "new"}
        /\ running = "new" => installed = "new"
    BY DEF PackageInv, PackageTypeOK, VersionInv
  <1>b. \A u \in Updater : pc[u] = "installing" => \A n \in Update : script[n] # "busy"
    <2> SUFFICES ASSUME NEW u \in Updater, pc[u] = "installing",
                        NEW n \in Update, script[n] = "busy" PROVE FALSE
      OBVIOUS
    <2>1. mine[u] # 0
      BY DEF PackageInv, PackageTypeOK
    <2>2. script[mine[u]] = "none"
      BY <2>1 DEF PackageInv, FreshInv
    <2>3. n = mine[u]
      BY DEF PackageInv, ManagerInv
    <2> QED
      BY <2>2, <2>3
  <1> USE DEF OldGoesOn, machine, service, scripts, Fail, Report, Move
  <1>1. ASSUME NEW u \in Updater, Stage(u) \/ StageFails(u) PROVE OldGoesOn
    BY <1>1, <1>a, <1>b DEF Stage, StageFails
  <1>2. ASSUME NEW u \in Updater, Spawn(u) PROVE OldGoesOn
    BY <1>2, <1>a, <1>b DEF Spawn
  <1>3. ASSUME NEW u \in Updater, SpawnFails(u) PROVE OldGoesOn
    BY <1>3, <1>a, <1>b DEF SpawnFails, BootOut
  <1>4. ASSUME NEW u \in Updater, ArmFailsafe(u) PROVE OldGoesOn
    BY <1>4, <1>a, <1>b DEF ArmFailsafe
  <1>5. ASSUME NEW u \in Updater, StartInstall(u) \/ InstallRefused(u)
        PROVE  OldGoesOn
    BY <1>5, <1>a, <1>b DEF StartInstall, InstallRefused
  <1>6. ASSUME NEW u \in Updater, InstallEnds(u) PROVE OldGoesOn
    BY <1>6, <1>a, <1>b DEF InstallEnds, ServiceStarts
  <1>7. ASSUME NEW n \in Update, Awake(n) PROVE OldGoesOn
    BY <1>7, <1>a, <1>b DEF Awake
  <1>8. ASSUME NEW n \in Update, InstallNext(n) PROVE OldGoesOn
    BY <1>8, <1>a, <1>b DEF InstallNext
  <1>9. ASSUME NEW n \in Update, PackageRefused(n) \/ PackageFails(n)
        PROVE  OldGoesOn
    BY <1>9, <1>a, <1>b DEF PackageRefused, PackageFails, GiveUpPackage
  <1>10. ASSUME NEW n \in Update, PackageDone(n) PROVE OldGoesOn
    BY <1>10, <1>a, <1>b DEF PackageDone, InMiddle
  <1>11. ASSUME NEW n \in Update, StartAfter(n) PROVE OldGoesOn
    BY <1>11, <1>a, <1>b DEF StartAfter, StartService, ServiceStarts, ServiceGone
  <1>12. ASSUME NEW n \in Update, FailsafeFires(n) PROVE OldGoesOn
    BY <1>12, <1>a, <1>b DEF FailsafeFires, StartService, ServiceStarts, ServiceGone
  <1>13. CASE ServiceCrashes
    BY <1>13, <1>a, <1>b DEF ServiceCrashes, ServiceStarts, ServiceGone
  <1> QED
    BY <1>1, <1>2, <1>3, <1>4, <1>5, <1>6, <1>7, <1>8, <1>9, <1>10, <1>11, <1>12, <1>13
       DEF GoingMove, UpdaterStep, ScriptStep

LEMMA ManagerStep == PackageInv /\ PackageMove => ManagerInv'
  <1> SUFFICES ASSUME PackageInv, NEW u \in Updater, NEW list \in Seq(Package),
                      Begin(u, list)
               PROVE  ManagerInv'
    BY ManagerGoesOn DEF PackageMove, GoingMove
  <1> QED
    BY DEF PackageInv, PackageTypeOK, ManagerInv, Begin, machine, scripts

LEMMA VersionStep == PackageInv /\ PackageMove => VersionInv'
  <1> SUFFICES ASSUME PackageInv, NEW u \in Updater, NEW list \in Seq(Package),
                      Begin(u, list)
               PROVE  VersionInv'
    BY VersionGoesOn DEF PackageMove, GoingMove
  <1> QED
    BY DEF PackageInv, VersionInv, Begin, machine, service

(* What explains an old version stays.                                     *)
LEMMA StillExplained == PackageInv /\ PackageMove /\ Explained => Explained'
  <1> SUFFICES ASSUME PackageInv, PackageMove, Explained PROVE Explained'
    OBVIOUS
  <1>1. PackageTypeOK /\ NumberInv /\ FreshInv
    BY DEF PackageInv
  <1>2. PICK n \in Update : /\ InstallsAgent(n)
                            /\ \/ failsafe[n] = "fired"
                               \/ \E m \in Update \ {n} : script[m] = "done"
    BY DEF Explained
  <1>3. ASSUME NEW u \in Updater, NEW list \in Seq(Package), Begin(u, list)
        PROVE  Explained'
    <2>1. /\ UNCHANGED <<failsafe, script>>
          /\ plan' = [plan EXCEPT ![updates + 1] = list]
      BY <1>3 DEF Begin, scripts
    <2>2. updates \in Nat
      BY <1>1, UpdateBoundAssumption DEF PackageTypeOK
    <2>3. plan[n] # <<>>
      BY <1>2 DEF InstallsAgent, Packages
    <2>4. n # updates + 1
      BY <1>1, <2>2, <2>3 DEF NumberInv, Update
    <2>5. InstallsAgent(n)'
      BY <1>1, <1>2, <2>1, <2>4 DEF InstallsAgent, Packages, PackageTypeOK
    <2> QED
      BY <1>2, <2>1, <2>5 DEF Explained
  <1>4. CASE GoingMove
    <2>1. RequestsKept /\ FailsafesGoOn /\ DoneStays
      BY <1>1, <1>4, KeepsRequests, FailsafeEffect, DoneForGood
    <2>2. InstallsAgent(n)'
      BY <1>2, <2>1 DEF RequestsKept, InstallsAgent, Packages
    <2>3. ASSUME failsafe[n] = "fired" PROVE failsafe'[n] = "fired"
      <3>1. \A u \in Updater : mine[u] # n
        BY <1>1, <2>3, UpdateBoundAssumption DEF FreshInv, Update
      <3> QED
        BY <2>1, <2>3, <3>1 DEF FailsafesGoOn
    <2> QED
      BY <1>2, <2>1, <2>2, <2>3 DEF Explained, DoneStays
  <1> QED
    BY <1>3, <1>4 DEF PackageMove, GoingMove

(* An old version runs on only if another started it in the middle.        *)
LEMMA ExplainedStep == PackageInv /\ PackageMove => ExplainedInv'
  <1> SUFFICES ASSUME PackageInv, PackageMove, up', running' = "old",
                      installed' = "new" \/ InMiddle'
               PROVE  Explained'
    BY DEF ExplainedInv
  <1>1. PackageTypeOK /\ TodoInv /\ ArmedInv /\ ExplainedInv
    BY DEF PackageInv
  <1>2. ASSUME NEW u \in Updater, NEW list \in Seq(Package), Begin(u, list)
        PROVE  Explained'
    <2>1. UNCHANGED <<up, running, installed, script, todo>>
      BY <1>2 DEF Begin, machine, service, scripts
    <2>2. Explained
      BY <1>1, <2>1 DEF ExplainedInv, InMiddle
    <2> QED
      BY <2>2, StillExplained
  <1>3. CASE GoingMove
    <2>1. RequestsKept /\ BusyGoesOn /\ OldGoesOn
      BY <1>1, <1>3, KeepsRequests, BusyEffect, OldEffect
    <2>2. InMiddle' =>
            \E n \in Update : script[n] = "busy" /\ Head(todo[n]) = "agent"
      BY <2>1 DEF BusyGoesOn, InMiddle
    <2>3. CASE up /\ running = "old" /\ (installed' = installed \/ InMiddle)
      <3>1. Explained
        BY <1>1, <2>2, <2>3 DEF ExplainedInv, InMiddle
      <3> QED
        BY <3>1, StillExplained
    <2>4. CASE /\ installed' = "old"
               /\ \/ \A n \in Update : script[n] # "busy"
                  \/ \E n \in Update :
                       \/ failsafe[n] # "none" /\ failsafe'[n] = "fired"
                       \/ script[n] = "run" /\ script'[n] = "done"
      <3>1. PICK n \in Update : script[n] = "busy" /\ Head(todo[n]) = "agent"
        BY <2>2, <2>4
      <3>2. InstallsAgent(n)
        <4>1. todo[n] \in Seq(Package) /\ todo[n] # <<>>
          BY <1>1, <3>1 DEF PackageTypeOK, TodoInv
        <4>2. \A i \in DOMAIN todo[n] : todo[n][i] \in Packages(n)
          BY <1>1 DEF TodoInv
        <4> QED
          BY <3>1, <4>1, <4>2, HeadAndTail DEF InstallsAgent
      <3>3. \A m \in Update : InstallsAgent(m)' <=> InstallsAgent(m)
        BY <2>1 DEF RequestsKept, InstallsAgent, Packages
      <3>4. ASSUME NEW m \in Update, failsafe[m] # "none", failsafe'[m] = "fired"
            PROVE  Explained'
        BY <1>1, <3>3, <3>4 DEF ArmedInv, Explained
      <3>5. ASSUME NEW m \in Update, script[m] = "run", script'[m] = "done"
            PROVE  Explained'
        <4>1. m # n
          BY <3>1, <3>5
        <4> QED
          BY <3>2, <3>3, <3>5, <4>1 DEF Explained
      <3> QED
        BY <2>4, <3>1, <3>4, <3>5
    <2> QED
      BY <2>1, <2>3, <2>4 DEF OldGoesOn
  <1> QED
    BY <1>2, <1>3 DEF PackageMove, GoingMove

LEMMA PackageStep == PackageInv /\ PackageNext => PackageInv'
  BY EachMove, PackageTypeStep, NumberStep, FreshStep, TodoStep, ManagerStep,
     ArmedStep, VersionStep, DownStep, ExplainedStep, NoPackageStep
     DEF PackageInv

-------------------------------------------------------------------------------
(* Both together.                                                          *)

LEMMA BinaryStays == BinaryInv /\ UNCHANGED binaryVars => BinaryInv'
  <1> SUFFICES ASSUME BinaryInv, UNCHANGED binaryVars PROVE BinaryInv'
    OBVIOUS
  <1> USE DEF binaryVars
  <1>1. BinaryTypeOK' /\ GenuineInv'
    BY DEF BinaryInv, BinaryTypeOK, GenuineInv
  <1>2. AloneInv' /\ PlaceInv' /\ CopyInv'
    BY DEF BinaryInv, AloneInv, PlaceInv, CopyInv, Calm, Version
  <1> QED
    BY <1>1, <1>2 DEF BinaryInv

LEMMA PackageStays == PackageInv /\ UNCHANGED packageVars => PackageInv'
  <1> SUFFICES ASSUME PackageInv, UNCHANGED packageVars PROVE PackageInv'
    OBVIOUS
  <1> USE DEF packageVars, host, machine, service, updater, request, scripts
  <1>1. PackageTypeOK'
    BY DEF PackageInv, PackageTypeOK
  <1>2. NumberInv' /\ FreshInv' /\ ManagerInv' /\ VersionInv'
    BY DEF PackageInv, NumberInv, FreshInv, ManagerInv, VersionInv
  <1>3. TodoInv' /\ ArmedInv'
    BY DEF PackageInv, TodoInv, ArmedInv, InstallsAgent, Packages
  <1>4. DownInv'
    BY DEF PackageInv, DownInv, InstallsAgent, Packages, Live, BadlyEnded, MayStart
  <1>5. ExplainedInv' /\ FailureLeavesNoPackage'
    BY DEF PackageInv, ExplainedInv, Explained, InMiddle, InstallsAgent, Packages,
       FailureLeavesNoPackage, StagedBy
  <1> QED
    BY <1>1, <1>2, <1>3, <1>4, <1>5 DEF PackageInv

SelfUpdateInv == packages \in BOOLEAN /\ PackageInv /\ BinaryInv

LEMMA SelfUpdateInvInit == SelfUpdateInit => SelfUpdateInv
  BY PackageInvInit, BinaryInvInit DEF SelfUpdateInit, SelfUpdateInv

LEMMA SelfUpdateInvStep ==
  SelfUpdateInv /\ [SelfUpdateNext]_selfUpdateVars => SelfUpdateInv'
  <1> SUFFICES ASSUME SelfUpdateInv, [SelfUpdateNext]_selfUpdateVars
               PROVE  SelfUpdateInv'
    OBVIOUS
  <1>1. packages' = packages
    BY DEF SelfUpdateNext, selfUpdateVars
  <1>2. PackageInv'
    BY PackageStep, PackageStays DEF SelfUpdateInv, SelfUpdateNext, selfUpdateVars
  <1>3. BinaryInv'
    BY BinaryStep, BinaryStays DEF SelfUpdateInv, SelfUpdateNext, selfUpdateVars
  <1> QED
    BY <1>1, <1>2, <1>3 DEF SelfUpdateInv

LEMMA SelfUpdateInvariant == SelfUpdateSpec => []SelfUpdateInv
  BY SelfUpdateInvInit, SelfUpdateInvStep, PTL DEF SelfUpdateSpec

(* Every variable has its type in every update: an updating service runs   *)
(* (agent_update.rs applies in the service process), an updater at work    *)
(* has an update, and the steps of the binary updater have their files.    *)
THEOREM TypeCorrect == SelfUpdateSpec => []SelfUpdateTypeOK
  <1>1. SelfUpdateInv => SelfUpdateTypeOK
    BY DEF SelfUpdateInv, SelfUpdateTypeOK, PackageInv, BinaryInv
  <1> QED
    BY <1>1, SelfUpdateInvariant, PTL

(* As long as nothing worse than a kill outside the window has happened,   *)
(* the program is at its place whenever no update is between moving it     *)
(* aside and putting one back (replace_binary of updater.rs).              *)
THEOREM PlaceCorrect == SelfUpdateSpec => []ProgramInPlace
  <1>1. SelfUpdateInv => ProgramInPlace
    BY DEF SelfUpdateInv, BinaryInv, PlaceInv, ProgramInPlace
  <1> QED
    BY <1>1, SelfUpdateInvariant, PTL

(* However updates by binary fail, die and cross, and whatever becomes of  *)
(* a staging file once it was checked, nothing complete at or beside the   *)
(* install path was not verified: what is installed is the bytes that      *)
(* apply of updater.rs read once and checked.                              *)
THEOREM OnlyVerifiedCorrect == SelfUpdateSpec => []OnlyVerified
  <1>1. SelfUpdateInv => OnlyVerified
    BY DEF SelfUpdateInv, BinaryInv, GenuineInv, OnlyVerified
  <1> QED
    BY <1>1, SelfUpdateInvariant, PTL

(* The update by binary, with its copies across file systems, backups and  *)
(* put-backs (updater.rs), implements one atomic replacement of the        *)
(* program by a verified one, up to the first trouble.                     *)
THEOREM ReplaceRefinement == SelfUpdateSpec => RefinesAtomicReplace
  <1>1. SelfUpdateInit => Promise!PromiseInit
    BY DEF SelfUpdateInit, BinaryInit, Promise!PromiseInit, Available, Version,
       Complete, Calm
  <1>2. SelfUpdateInv /\ [SelfUpdateNext]_selfUpdateVars
          => [Promise!PromiseNext]_(Promise!promise)
    <2> SUFFICES ASSUME SelfUpdateInv, [SelfUpdateNext]_selfUpdateVars
                 PROVE  [Promise!PromiseNext]_(Promise!promise)
      OBVIOUS
    <2>1. CASE UNCHANGED binaryVars
      BY <2>1 DEF binaryVars, Promise!promise, Available, Version, Calm
    <2>2. CASE BinaryNext
      BY <2>2, PromiseStep DEF SelfUpdateInv
    <2> QED
      BY <2>1, <2>2 DEF SelfUpdateNext, selfUpdateVars
  <1> QED
    BY <1>1, <1>2, SelfUpdateInvariant, PTL
       DEF SelfUpdateSpec, RefinesAtomicReplace, Promise!PromiseSpec

(* The service is never down without an installer at work, a delayed start *)
(* to come or an install of the agent to blame, whatever updates, scripts  *)
(* and delayed starts of service_restart.rs cross each other.              *)
THEOREM DownCorrect == SelfUpdateSpec => []DownJustified
  <1>1. SelfUpdateInv => DownJustified
    BY DEF SelfUpdateInv, PackageInv, DownInv, DownJustified, LeftDown
  <1> QED
    BY <1>1, SelfUpdateInvariant, PTL

(* An old version that runs on once the new one is installed and every     *)
(* script of package_update.rs is over was started in the middle of the    *)
(* install by a delayed start or by the script of another update.          *)
THEOREM OldVersionCorrect == SelfUpdateSpec => []OldVersionExplained
  <1>1. SelfUpdateInv => OldVersionExplained
    BY DEF SelfUpdateInv, PackageInv, ExplainedInv, Explained, OldVersionExplained
  <1> QED
    BY <1>1, SelfUpdateInvariant, PTL

(* An update that agent_update.rs reports as failed before anything was    *)
(* installed leaves none of its packages behind.                           *)
THEOREM NoPackageCorrect == SelfUpdateSpec => []FailureLeavesNoPackage
  <1>1. SelfUpdateInv => FailureLeavesNoPackage
    BY DEF SelfUpdateInv, PackageInv
  <1> QED
    BY <1>1, SelfUpdateInvariant, PTL

-------------------------------------------------------------------------------
(* Updates wind down: the safety half of ServiceReturns.                   *)

(* An updater's steps to the end of its update from each of its places, the *)
(* packages it has still to stage given; at "spawn" these include the eight *)
(* of a script with three packages.                                         *)
UpdaterSteps(phase, missing) ==
  CASE phase = "stage"                -> 11 + missing
    [] phase = "spawn"                -> 11
    [] phase = "install"              -> 3
    [] phase \in {"installing", "arm"} -> 2
    [] OTHER                          -> 0

(* A script's: it takes up each package it has to do and is done with it.  *)
ScriptSteps(phase, packagesLeft) ==
  CASE phase = "wait" -> 2 * packagesLeft + 2
    [] phase = "run"  -> 2 * packagesLeft + 1
    [] phase = "busy" -> 2 * packagesLeft
    [] OTHER          -> 0

Missing(n, p) == IF p \in Packages(n) /\ <<n, p>> \notin files THEN 1 ELSE 0

ToStage(n) == Missing(n, "desktop") + Missing(n, "proxmox") + Missing(n, "agent")

UpdaterLeft(n, u) ==
  IF mine[u] = n THEN UpdaterSteps(pc[u], ToStage(n)) ELSE 0

ScriptLeft(n) == ScriptSteps(script[n], Len(todo[n]))

DelayedLeft(n) == IF failsafe[n] = "armed" THEN 1 ELSE 0

(* What goes on by itself for update n and has not ended yet.              *)
WorkLeft(n) ==
  UpdaterLeft(n, "service") + UpdaterLeft(n, "cli") + ScriptLeft(n) + DelayedLeft(n)

WorkBounded == \A n \in Update : WorkLeft(n) \in 0..14

(* No step adds to what is left of an update that has begun, and each step *)
(* that nobody had to ask for takes something off one of them.             *)
UpdatesWindDown ==
  [][/\ \A n \in 1..updates : WorkLeft(n)' <= WorkLeft(n)
     /\ packages /\ GoOn => \E n \in 1..updates : WorkLeft(n)' < WorkLeft(n)]_selfUpdateVars

(* No update has more packages than there are, nor has its script.         *)
PlanInv == \A n \in Update : Len(plan[n]) <= 3 /\ Len(todo[n]) <= 3

LEMMA SumsOfFew ==
  ASSUME NEW x, NEW y, x \in 0..1 \/ x \in 0..2, y \in 0..1
  PROVE  /\ x \in 0..1 => x + y \in 0..2
         /\ x + y <= 3
  OBVIOUS

LEMMA ThreeShort ==
  ASSUME NEW a \in Seq(Package), NEW b \in Seq(Package), NEW c \in Seq(Package),
         Len(a) \in 0..1, Len(b) \in 0..1, Len(c) \in 0..1
  PROVE  Len((a \o b) \o c) <= 3
  <1>1. a \o b \in Seq(Package) /\ Len(a \o b) = Len(a) + Len(b)
    OBVIOUS
  <1>2. Len(a) + Len(b) \in 0..2
    BY SumsOfFew
  <1>3. Len((a \o b) \o c) = Len(a \o b) + Len(c)
    BY <1>1
  <1>4. (Len(a) + Len(b)) + Len(c) <= 3
    BY <1>2, SumsOfFew
  <1> QED
    BY <1>1, <1>3, <1>4, Zenon

LEMMA InOrderShort ==
  ASSUME NEW offer PROVE Len(InOrder(offer)) <= 3
  <1> DEFINE part(p) == IF p \in offer THEN <<p>> ELSE <<>>
  <1>1. ASSUME NEW p \in Package PROVE part(p) \in Seq(Package) /\ Len(part(p)) \in 0..1
    <2>1. CASE p \in offer
      <3>1. <<p>> \in Seq(Package) /\ Len(<<p>>) = 1
        OBVIOUS
      <3> QED
        BY <2>1, <3>1
    <2>2. CASE p \notin offer
      <3>1. <<>> \in Seq(Package) /\ Len(<<>>) = 0
        OBVIOUS
      <3> QED
        BY <2>2, <3>1
    <2> QED
      BY <2>1, <2>2
  <1>2. "desktop" \in Package /\ "proxmox" \in Package /\ "agent" \in Package
    BY DEF Package, Helper
  <1>3. InOrder(offer) = (part("desktop") \o part("proxmox")) \o part("agent")
    BY DEF InOrder
  <1> HIDE DEF part
  <1> QED
    BY <1>1, <1>2, <1>3, ThreeShort

LEMMA PlanStep == PackageInv /\ PlanInv /\ PackageNext => PlanInv'
  <1> SUFFICES ASSUME PackageInv, PlanInv, PackageNext PROVE PlanInv'
    OBVIOUS
  <1>1. PackageTypeOK /\ TodoInv
    BY DEF PackageInv
  <1>2. ASSUME NEW u \in Updater, NEW list, Len(list) <= 3, Begin(u, list) PROVE PlanInv'
    BY <1>1, <1>2 DEF Begin, scripts, PlanInv, PackageTypeOK
  <1>3. CASE BeginTask
    <2>1. "service" \in Updater /\ Len(<<"agent">>) <= 3
      BY DEF Updater
    <2> QED
      BY <1>2, <1>3, <2>1 DEF BeginTask
  <1>4. ASSUME NEW u \in Updater, BeginOffer(u) PROVE PlanInv'
    BY <1>2, <1>4, InOrderShort DEF BeginOffer
  <1>5. CASE GoingMove
    <2>1. plan' = plan /\ TodosGoOn
      BY <1>1, <1>5, KeepsRequests, TodoEffect DEF RequestsKept
    <2>2. \A n \in Update : todo[n] # <<>> => Len(Tail(todo[n])) <= Len(todo[n])
      BY <1>1 DEF PackageTypeOK
    <2>3. \A n \in Update : Len(todo[n]) \in Nat
      BY <1>1 DEF PackageTypeOK
    <2>4. ASSUME NEW n \in Update PROVE Len(todo'[n]) <= 3
      <3>1. CASE todo'[n] = todo[n] \/ todo'[n] = plan[n]
        BY <3>1 DEF PlanInv
      <3>2. CASE todo[n] # <<>> /\ todo'[n] = Tail(todo[n])
        <4>1. Len(todo'[n]) = Len(todo[n]) - 1
          BY <1>1, <3>2 DEF PackageTypeOK
        <4> QED
          BY <2>3, <4>1 DEF PlanInv
      <3> QED
        BY <2>1, <3>1, <3>2 DEF TodosGoOn
    <2> QED
      BY <2>1, <2>4 DEF PlanInv
  <1> QED
    BY <1>3, <1>4, <1>5 DEF PackageNext, GoOn, GoingMove

(* The values of the measures.                                             *)
LEMMA StepsEach ==
  ASSUME NEW k
  PROVE  /\ UpdaterSteps("stage", k) = 11 + k
         /\ UpdaterSteps("spawn", k) = 11
         /\ UpdaterSteps("install", k) = 3
         /\ UpdaterSteps("installing", k) = 2
         /\ UpdaterSteps("arm", k) = 2
         /\ UpdaterSteps("idle", k) = 0
  BY DEF UpdaterSteps

LEMMA ScriptStepsEach ==
  ASSUME NEW k
  PROVE  /\ ScriptSteps("wait", k) = 2 * k + 2
         /\ ScriptSteps("run", k) = 2 * k + 1
         /\ ScriptSteps("busy", k) = 2 * k
         /\ \A ended \in {"none", "done", "aborted", "killed"} : ScriptSteps(ended, k) = 0
  BY DEF ScriptSteps

(* An updater ends its update, waits with what it has staged or goes on.   *)
FilesStay(n) == \A p \in Package : <<n, p>> \in files => <<n, p>> \in files'

Ends(u) == mine'[u] = 0

Waits(u) ==
  /\ mine'[u] = mine[u] /\ pc'[u] = pc[u]
  /\ pc[u] = "stage" => FilesStay(mine[u])

Stages(u) ==
  /\ pc[u] = "stage" /\ pc'[u] \in {"stage", "spawn", "install"}
  /\ FilesStay(mine[u])
  /\ \E p \in Packages(mine[u]) : <<mine[u], p>> \in files' \ files

Advances(u) ==
  /\ mine'[u] = mine[u]
  /\ \/ Stages(u)
     \/ pc[u] = "spawn" /\ pc'[u] = "arm"
     \/ pc[u] = "install" /\ pc'[u] = "installing"

LEMMA UpdaterAdvances ==
  ASSUME PackageTypeOK, NEW u \in Updater, UpdaterStep(u)
  PROVE  mine[u] # 0 /\ (Ends(u) \/ Advances(u))
  <1>1. /\ mine \in [Updater -> Update \cup {0}]
        /\ pc[u] # "idle" => mine[u] # 0
        /\ pc \in [Updater -> {"idle", "stage", "spawn", "arm", "install", "installing"}]
    BY DEF PackageTypeOK
  <1>2. CASE Stage(u)
    <2>1. pc[u] = "stage" /\ mine' = mine
      BY <1>2 DEF Stage
    <2>2. \E i \in DOMAIN plan[mine[u]] :
             /\ <<mine[u], plan[mine[u]][i]>> \notin files
             /\ files' = files \cup {<<mine[u], plan[mine[u]][i]>>}
      BY <1>2 DEF Stage
    <2>3. pc'[u] \in {"stage", "spawn", "install"}
      BY <1>1, <1>2, <2>1 DEF Stage
    <2>4. FilesStay(mine[u]) /\ \E p \in Packages(mine[u]) : <<mine[u], p>> \in files' \ files
      BY <2>2 DEF FilesStay, Packages
    <2> QED
      BY <1>1, <2>1, <2>3, <2>4 DEF Advances, Stages
  <1>3. CASE Spawn(u)
    BY <1>1, <1>3 DEF Spawn, Advances
  <1>4. CASE StartInstall(u)
    BY <1>1, <1>4 DEF StartInstall, Advances
  <1>5. CASE StageFails(u) \/ SpawnFails(u) \/ InstallRefused(u) \/ ArmFailsafe(u)
    <2>1. mine' = [mine EXCEPT ![u] = 0] /\ pc[u] # "idle"
      BY <1>5 DEF StageFails, SpawnFails, InstallRefused, ArmFailsafe, Fail, Report
    <2> QED
      BY <1>1, <2>1 DEF Ends
  <1>6. CASE InstallEnds(u)
    <2>1. pc[u] # "idle" /\ mine'[u] = 0
      BY <1>6 DEF InstallEnds
    <2> QED
      BY <1>1, <2>1 DEF Ends
  <1> QED
    BY <1>2, <1>3, <1>4, <1>5, <1>6 DEF UpdaterStep

(* No step takes from an updater the packages it is staging.               *)
PackagesStay == \A u \in Updater : pc[u] = "stage" => Ends(u) \/ FilesStay(mine[u])

LEMMA FilesEffect == PackageInv /\ GoingMove => PackagesStay
  <1> SUFFICES ASSUME PackageInv, GoingMove, NEW v \in Updater, pc[v] = "stage"
               PROVE  Ends(v) \/ FilesStay(mine[v])
    BY DEF PackagesStay
  <1>a. mine \in [Updater -> Update \cup {0}] /\ mine[v] # 0
    BY DEF PackageInv, PackageTypeOK
  <1>b. \A u \in Updater : mine[u] = mine[v] => u = v
    BY <1>a DEF PackageInv, NumberInv
  <1>c. script[mine[v]] = "none"
    BY <1>a DEF PackageInv, FreshInv
  <1>d. \A m : m # mine[v] /\ files' = files \ StagedBy(m) => FilesStay(mine[v])
    BY DEF FilesStay, StagedBy
  <1>e. files' = files => FilesStay(mine[v])
    BY DEF FilesStay
  <1>1. ASSUME NEW u \in Updater, UpdaterStep(u) PROVE Ends(v) \/ FilesStay(mine[v])
    <2>1. CASE Stage(u)
      <3>1. \E f : files' = files \cup {f}
        BY <2>1 DEF Stage
      <3> QED
        BY <3>1 DEF FilesStay
    <2>2. CASE files' = files
      BY <1>e, <2>2
    <2>3. CASE files' = files \ StagedBy(mine[u]) /\ mine'[u] = 0
      BY <1>b, <1>d, <2>3 DEF Ends
    <2>4. StageFails(u) \/ SpawnFails(u) \/ InstallRefused(u)
            => files' = files \ StagedBy(mine[u]) /\ mine'[u] = 0
      BY <1>a DEF StageFails, SpawnFails, InstallRefused, Fail, Report
    <2>5. InstallEnds(u)
            => files' = files \/ (files' = files \ StagedBy(mine[u]) /\ mine'[u] = 0)
      BY DEF InstallEnds
    <2>6. Spawn(u) \/ ArmFailsafe(u) \/ StartInstall(u) => files' = files
      BY DEF Spawn, ArmFailsafe, StartInstall
    <2> QED
      BY <1>1, <2>1, <2>2, <2>3, <2>4, <2>5, <2>6 DEF UpdaterStep
  <1>2. ASSUME NEW n \in Update, ScriptStep(n) PROVE FilesStay(mine[v])
    <2>1. CASE StartAfter(n)
      <3>1. n # mine[v]
        BY <1>c, <2>1 DEF StartAfter
      <3>2. files' = files \/ files' = files \ StagedBy(n)
        BY <2>1 DEF StartAfter
      <3> QED
        BY <1>d, <1>e, <3>1, <3>2
    <2>2. CASE ~StartAfter(n)
      <3>1. files' = files
        BY <1>2, <2>2 DEF ScriptStep, Awake, InstallNext, PackageRefused, PackageFails,
           PackageDone
      <3> QED
        BY <1>e, <3>1
    <2> QED
      BY <2>1, <2>2
  <1>3. (\E n \in Update : FailsafeFires(n)) \/ ServiceCrashes => FilesStay(mine[v])
    BY <1>e DEF FailsafeFires, ServiceCrashes
  <1> QED
    BY <1>1, <1>2, <1>3 DEF GoingMove

(* And no step of another takes an updater on.                             *)
Stands(u) == Ends(u) \/ (mine'[u] = mine[u] /\ pc'[u] = pc[u])

LEMMA OthersStand ==
  ASSUME PackageTypeOK, NEW u \in Updater, UpdaterStep(u), NEW v \in Updater, v # u
  PROVE  Stands(v)
  <1>1. /\ mine \in [Updater -> Update \cup {0}]
        /\ pc \in [Updater -> {"idle", "stage", "spawn", "arm", "install", "installing"}]
    BY DEF PackageTypeOK
  <1>2. CASE Stage(u)
    BY <1>1, <1>2 DEF Stage, Stands
  <1>3. CASE Spawn(u) \/ StartInstall(u)
    BY <1>1, <1>3 DEF Spawn, StartInstall, Stands
  <1>4. CASE StageFails(u) \/ SpawnFails(u) \/ InstallRefused(u) \/ ArmFailsafe(u)
    <2>1. mine' = [mine EXCEPT ![u] = 0] /\ pc' = [pc EXCEPT ![u] = "idle"]
      BY <1>4 DEF StageFails, SpawnFails, InstallRefused, ArmFailsafe, Fail, Report
    <2> QED
      BY <1>1, <2>1 DEF Stands
  <1>5. CASE InstallEnds(u)
    BY <1>1, <1>5 DEF InstallEnds, Stands, Ends
  <1> QED
    BY <1>2, <1>3, <1>4, <1>5 DEF UpdaterStep

LEMMA AllStand ==
  ASSUME PackageTypeOK, NEW v \in Updater,
         ServiceCrashes \/ \E n \in Update : ScriptStep(n) \/ FailsafeFires(n)
  PROVE  Stands(v)
  <1>1. /\ mine \in [Updater -> Update \cup {0}]
        /\ pc \in [Updater -> {"idle", "stage", "spawn", "arm", "install", "installing"}]
    BY DEF PackageTypeOK
  <1>2. CASE UNCHANGED updater
    BY <1>2 DEF updater, Stands
  <1>3. CASE ServiceGone
    BY <1>1, <1>3 DEF ServiceGone, Stands, Ends
  <1>4. ASSUME NEW n \in Update, StartService(n) PROVE Stands(v)
    BY <1>2, <1>3, <1>4 DEF StartService
  <1>5. ASSUME NEW n \in Update, InstallNext(n) PROVE Stands(v)
    BY <1>1, <1>2, <1>5 DEF InstallNext, Stands, Ends, updater
  <1>6. ASSUME NEW n \in Update,
               Awake(n) \/ PackageRefused(n) \/ PackageFails(n) \/ PackageDone(n)
        PROVE  Stands(v)
    BY <1>2, <1>6 DEF Awake, PackageRefused, PackageFails, PackageDone
  <1>7. ASSUME NEW n \in Update, StartAfter(n) \/ FailsafeFires(n) PROVE Stands(v)
    BY <1>4, <1>7 DEF StartAfter, FailsafeFires
  <1>8. CASE ServiceCrashes
    BY <1>3, <1>8 DEF ServiceCrashes
  <1> QED
    BY <1>5, <1>6, <1>7, <1>8 DEF ScriptStep

LEMMA UpdatersMove ==
  ASSUME PackageInv, GoingMove, NEW v \in Updater
  PROVE  Ends(v) \/ Waits(v) \/ Advances(v)
  <1>1. PackageTypeOK
    BY DEF PackageInv
  <1>2. Stands(v) => Ends(v) \/ Waits(v)
    BY FilesEffect DEF Stands, Waits, PackagesStay
  <1>3. ASSUME NEW u \in Updater, UpdaterStep(u) PROVE Ends(v) \/ Waits(v) \/ Advances(v)
    BY <1>1, <1>2, <1>3, UpdaterAdvances, OthersStand
  <1> QED
    BY <1>1, <1>2, <1>3, AllStand DEF GoingMove

(* A script is spawned by its updater, stays, ends or goes on.             *)
Spawned(n) ==
  /\ script[n] = "none" /\ script'[n] = "wait" /\ todo'[n] = plan[n]
  /\ \E u \in Updater : /\ mine[u] = n /\ mine'[u] = n
                        /\ pc[u] = "spawn" /\ pc'[u] = "arm"

Rests(n) == script'[n] = script[n] /\ todo'[n] = todo[n]

Over(n) == Live(n) /\ script'[n] \in {"done", "aborted", "killed"}

Proceeds(n) ==
  \/ /\ todo'[n] = todo[n]
     /\ <<script[n], script'[n]>> \in {<<"wait", "run">>, <<"run", "busy">>}
  \/ /\ todo[n] # <<>> /\ todo'[n] = Tail(todo[n])
     /\ script[n] \in {"run", "busy"} /\ script'[n] = "run"

LEMMA ScriptProceeds ==
  ASSUME PackageTypeOK, TodoInv, NEW n \in Update, ScriptStep(n)
  PROVE  Over(n) \/ Proceeds(n)
  <1>1. /\ script \in [Update -> {"none", "wait", "run", "busy", "done", "aborted", "killed"}]
        /\ todo \in [Update -> Seq(Package)]
        /\ script[n] = "busy" => todo[n] # <<>>
    BY DEF PackageTypeOK, TodoInv
  <1>2. CASE Awake(n)
    BY <1>1, <1>2 DEF Awake, Move, Over, Live, Proceeds
  <1>3. CASE InstallNext(n)
    BY <1>1, <1>3 DEF InstallNext, Move, Proceeds
  <1>4. CASE PackageRefused(n) \/ PackageFails(n)
    BY <1>1, <1>4 DEF PackageRefused, PackageFails, GiveUpPackage, Move, Over, Live, Proceeds
  <1>5. CASE PackageDone(n)
    BY <1>1, <1>5 DEF PackageDone, Move, Proceeds
  <1>6. CASE StartAfter(n)
    BY <1>1, <1>6 DEF StartAfter, Move, Over, Live
  <1> QED
    BY <1>2, <1>3, <1>4, <1>5, <1>6 DEF ScriptStep

LEMMA OtherScripts ==
  ASSUME PackageTypeOK, NEW m \in Update, ScriptStep(m), NEW n \in Update, n # m
  PROVE  Rests(n)
  <1>1. /\ script \in [Update -> {"none", "wait", "run", "busy", "done", "aborted", "killed"}]
        /\ todo \in [Update -> Seq(Package)]
    BY DEF PackageTypeOK
  <1>2. CASE Awake(m) \/ InstallNext(m) \/ StartAfter(m)
    BY <1>1, <1>2 DEF Awake, InstallNext, StartAfter, Move, Rests
  <1>3. CASE PackageRefused(m) \/ PackageFails(m)
    BY <1>1, <1>3 DEF PackageRefused, PackageFails, GiveUpPackage, Move, Rests
  <1>4. CASE PackageDone(m)
    BY <1>1, <1>4 DEF PackageDone, Move, Rests
  <1> QED
    BY <1>2, <1>3, <1>4 DEF ScriptStep

LEMMA ScriptsOfUpdaters ==
  ASSUME PackageInv, NEW u \in Updater, UpdaterStep(u), NEW n \in Update
  PROVE  Spawned(n) \/ Rests(n) \/ Over(n)
  <1>1. /\ script \in [Update -> {"none", "wait", "run", "busy", "done", "aborted", "killed"}]
        /\ todo \in [Update -> Seq(Package)]
        /\ mine \in [Updater -> Update \cup {0}]
        /\ pc \in [Updater -> {"idle", "stage", "spawn", "arm", "install", "installing"}]
    BY DEF PackageInv, PackageTypeOK
  <1>2. CASE UNCHANGED scripts
    BY <1>2 DEF scripts, Rests
  <1>3. CASE Stage(u) \/ StageFails(u) \/ ArmFailsafe(u) \/ StartInstall(u) \/ InstallRefused(u)
    BY <1>2, <1>3 DEF Stage, StageFails, ArmFailsafe, StartInstall, InstallRefused
  <1>4. CASE Spawn(u)
    <2>1. /\ script'[n] = IF n = mine[u] THEN "wait"
                          ELSE IF n \in BootedOut THEN "killed" ELSE script[n]
          /\ todo' = [todo EXCEPT ![mine[u]] = plan[mine[u]]]
          /\ pc[u] = "spawn" /\ pc'[u] = "arm" /\ mine' = mine
      BY <1>1, <1>4 DEF Spawn
    <2>2. CASE n = mine[u]
      <3>1. script[n] = "none"
        BY <2>1, <2>2, UpdateBoundAssumption DEF PackageInv, FreshInv, Update
      <3>2. script'[n] = "wait" /\ todo'[n] = plan[n]
        BY <1>1, <2>1, <2>2
      <3> QED
        BY <2>1, <2>2, <3>1, <3>2 DEF Spawned
    <2>3. CASE n # mine[u]
      BY <1>1, <2>1, <2>3 DEF Rests, Over, BootedOut
    <2> QED
      BY <2>2, <2>3
  <1>5. CASE SpawnFails(u)
    <2>1. todo' = todo /\ (BootOut \/ script' = script)
      BY <1>5 DEF SpawnFails
    <2> QED
      BY <2>1 DEF BootOut, BootedOut, Rests, Over
  <1>6. CASE InstallEnds(u)
    BY <1>6 DEF InstallEnds, BootedOut, Rests, Over
  <1> QED
    BY <1>3, <1>4, <1>5, <1>6 DEF UpdaterStep

LEMMA ScriptsMove ==
  ASSUME PackageInv, GoingMove, NEW n \in Update
  PROVE  Spawned(n) \/ Rests(n) \/ Over(n) \/ Proceeds(n)
  <1>1. PackageTypeOK /\ TodoInv
    BY DEF PackageInv
  <1>2. ASSUME NEW m \in Update, ScriptStep(m) PROVE Rests(n) \/ Over(n) \/ Proceeds(n)
    BY <1>1, <1>2, ScriptProceeds, OtherScripts
  <1>3. (\E m \in Update : FailsafeFires(m)) \/ ServiceCrashes => Rests(n)
    BY DEF FailsafeFires, ServiceCrashes, scripts, Rests
  <1> QED
    BY <1>2, <1>3, ScriptsOfUpdaters DEF GoingMove

(* What is left of each part of an update, before and after a step.        *)
LEMMA ToStageNat == ASSUME NEW n PROVE ToStage(n) \in 0..3
  <1>1. ASSUME NEW p PROVE Missing(n, p) \in 0..1
    BY DEF Missing
  <1> HIDE DEF Missing
  <1> QED
    BY <1>1 DEF ToStage

LEMMA SumsShrink ==
  ASSUME NEW a \in 0..1, NEW b \in 0..1, NEW c \in 0..1,
         NEW x \in 0..1, NEW y \in 0..1, NEW z \in 0..1, x <= a, y <= b, z <= c
  PROVE  /\ a + b + c \in 0..3 /\ x + y + z \in 0..3
         /\ x + y + z <= a + b + c
         /\ x < a \/ y < b \/ z < c => x + y + z < a + b + c
  OBVIOUS

LEMMA ToStageShrinks ==
  ASSUME NEW n \in Update, plan \in [Update -> Seq(Package)], plan' = plan, FilesStay(n)
  PROVE  /\ ToStage(n) \in 0..3 /\ ToStage(n)' \in 0..3
         /\ ToStage(n)' <= ToStage(n)
         /\ (\E p \in Packages(n) : <<n, p>> \in files' \ files) => ToStage(n)' < ToStage(n)
  <1>1. Packages(n)' = Packages(n) /\ Packages(n) \subseteq Package
    BY DEF Packages
  <1>2. ASSUME NEW p \in Package
        PROVE  /\ Missing(n, p) \in 0..1 /\ Missing(n, p)' \in 0..1
               /\ Missing(n, p)' <= Missing(n, p)
               /\ p \in Packages(n) /\ <<n, p>> \in files' \ files
                    => Missing(n, p)' < Missing(n, p)
    BY <1>1 DEF Missing, FilesStay
  <1>3. Package = {"desktop", "proxmox", "agent"}
    BY DEF Package, Helper
  <1>4. /\ ToStage(n) = Missing(n, "desktop") + Missing(n, "proxmox") + Missing(n, "agent")
        /\ ToStage(n)' = Missing(n, "desktop")' + Missing(n, "proxmox")' + Missing(n, "agent")'
    BY DEF ToStage
  <1> DEFINE new(p) == p \in Packages(n) /\ <<n, p>> \in files' \ files
  <1>5. (\E p \in Packages(n) : <<n, p>> \in files' \ files)
          => new("desktop") \/ new("proxmox") \/ new("agent")
    BY <1>1, <1>3
  <1>6. \A p \in Package : new(p) => Missing(n, p)' < Missing(n, p)
    BY <1>2
  <1> HIDE DEF new
  <1> DEFINE a == Missing(n, "desktop")
             b == Missing(n, "proxmox")
             c == Missing(n, "agent")
             x == Missing(n, "desktop")'
             y == Missing(n, "proxmox")'
             z == Missing(n, "agent")'
  <1>7. /\ a \in 0..1 /\ b \in 0..1 /\ c \in 0..1 /\ x \in 0..1 /\ y \in 0..1 /\ z \in 0..1
        /\ x <= a /\ y <= b /\ z <= c
        /\ (\E p \in Packages(n) : <<n, p>> \in files' \ files) => x < a \/ y < b \/ z < c
    BY <1>2, <1>3, <1>5, <1>6
  <1>8. ToStage(n) = a + b + c /\ ToStage(n)' = x + y + z
    BY <1>4
  <1> HIDE DEF a, b, c, x, y, z
  <1>9. /\ a + b + c \in 0..3 /\ x + y + z \in 0..3 /\ x + y + z <= a + b + c
        /\ x < a \/ y < b \/ z < c => x + y + z < a + b + c
    BY <1>7, SumsShrink
  <1> QED
    BY <1>7, <1>8, <1>9

LEMMA UpdaterWindsDown ==
  ASSUME PackageInv, GoingMove, NEW n \in Update, NEW u \in Updater
  PROVE  /\ UpdaterLeft(n, u) \in Nat /\ UpdaterLeft(n, u)' \in Nat
         /\ UpdaterLeft(n, u)' <= UpdaterLeft(n, u)
         /\ mine[u] = n /\ Ends(u) => UpdaterLeft(n, u)' + 2 <= UpdaterLeft(n, u)
         /\ mine[u] = n /\ Advances(u) => UpdaterLeft(n, u)' < UpdaterLeft(n, u)
         /\ mine[u] = n /\ mine'[u] = n /\ pc[u] = "spawn" /\ pc'[u] = "arm"
              => UpdaterLeft(n, u)' + 9 = UpdaterLeft(n, u)
  <1>1. /\ mine \in [Updater -> Update \cup {0}] /\ plan \in [Update -> Seq(Package)]
        /\ pc \in [Updater -> {"idle", "stage", "spawn", "arm", "install", "installing"}]
        /\ \A v \in Updater : pc[v] = "idle" <=> mine[v] = 0
    BY DEF PackageInv, PackageTypeOK
  <1>2. n # 0
    BY UpdateBoundAssumption DEF Update
  <1>3. PackageTypeOK
    BY DEF PackageInv
  <1>4. plan' = plan
    BY <1>3, KeepsRequests DEF RequestsKept
  <1>5. /\ mine[u] # n => UpdaterLeft(n, u) = 0
        /\ mine[u] = n => UpdaterLeft(n, u) = UpdaterSteps(pc[u], ToStage(n))
    BY DEF UpdaterLeft
  <1>6. /\ mine'[u] # n => UpdaterLeft(n, u)' = 0
        /\ mine'[u] = n => UpdaterLeft(n, u)' = UpdaterSteps(pc'[u], ToStage(n)')
    BY DEF UpdaterLeft
  <1>7. ToStage(n) \in 0..3
    BY ToStageNat
  <1>8. CASE mine[u] # n
    <2>1. mine'[u] # n
      BY <1>2, <1>3, <1>8, UpdaterEffect DEF UpdatersGoOn
    <2> QED
      BY <1>5, <1>6, <1>8, <2>1
  <1>9. CASE mine[u] = n
    <2>1. pc[u] \in {"stage", "spawn", "arm", "install", "installing"}
      BY <1>1, <1>2, <1>9
    <2>2. UpdaterLeft(n, u) \in 2..14
      BY <1>5, <1>7, <1>9, <2>1, StepsEach
    <2>3. CASE Ends(u)
      <3>1. UpdaterLeft(n, u)' = 0
        BY <1>2, <1>6, <2>3 DEF Ends
      <3>2. mine'[u] # n
        BY <1>2, <2>3 DEF Ends
      <3> QED
        BY <1>2, <2>2, <3>1, <3>2 DEF Advances
    <2>4. CASE Waits(u) /\ ~Ends(u)
      <3>1. mine'[u] = n /\ pc'[u] = pc[u]
        BY <1>9, <2>4 DEF Waits
      <3>2. CASE pc[u] = "stage"
        <4>1. FilesStay(n)
          BY <1>9, <2>4, <3>2 DEF Waits
        <4>2. /\ ToStage(n)' \in 0..3 /\ ToStage(n)' <= ToStage(n)
              /\ (\E p \in Packages(n) : <<n, p>> \in files' \ files) => ToStage(n)' < ToStage(n)
          BY <1>1, <1>4, <4>1, ToStageShrinks
        <4>3. UpdaterLeft(n, u) = 11 + ToStage(n) /\ UpdaterLeft(n, u)' = 11 + ToStage(n)'
          BY <1>5, <1>6, <1>9, <3>1, <3>2, StepsEach
        <4>4. Advances(u) => \E p \in Packages(n) : <<n, p>> \in files' \ files
          BY <1>9, <3>2 DEF Advances, Stages
        <4> QED
          BY <1>7, <2>4, <3>2, <4>2, <4>3, <4>4
      <3>3. CASE pc[u] # "stage"
        <4>1. UpdaterLeft(n, u)' = UpdaterLeft(n, u)
          BY <1>5, <1>6, <1>9, <2>1, <3>1, <3>3, StepsEach
        <4>2. ~Advances(u)
          BY <3>1, <3>3 DEF Advances, Stages
        <4> QED
          BY <2>2, <2>4, <3>1, <4>1, <4>2
      <3> QED
        BY <3>2, <3>3
    <2>5. CASE Advances(u) /\ ~Ends(u)
      <3>1. mine'[u] = n
        BY <1>9, <2>5 DEF Advances
      <3>2. CASE Stages(u)
        <4>1. /\ ToStage(n)' \in 0..3 /\ ToStage(n)' < ToStage(n)
          BY <1>1, <1>4, <1>9, <3>2, ToStageShrinks DEF Stages
        <4>2. pc[u] = "stage" /\ pc'[u] \in {"stage", "spawn", "install"}
          BY <3>2 DEF Stages
        <4>3. UpdaterLeft(n, u) = 11 + ToStage(n)
          BY <1>5, <1>9, <4>2, StepsEach
        <4>4. UpdaterLeft(n, u)' \in {11 + ToStage(n)', 11, 3}
          BY <1>6, <3>1, <4>2, StepsEach
        <4> QED
          BY <1>7, <2>5, <4>1, <4>2, <4>3, <4>4
      <3>3. CASE pc[u] = "spawn" /\ pc'[u] = "arm"
        <4>1. UpdaterLeft(n, u) = 11 /\ UpdaterLeft(n, u)' = 2
          BY <1>5, <1>6, <1>9, <3>1, <3>3, StepsEach
        <4> QED
          BY <2>5, <4>1
      <3>4. CASE pc[u] = "install" /\ pc'[u] = "installing"
        <4>1. UpdaterLeft(n, u) = 3 /\ UpdaterLeft(n, u)' = 2
          BY <1>5, <1>6, <1>9, <3>1, <3>4, StepsEach
        <4> QED
          BY <2>5, <3>4, <4>1
      <3> QED
        BY <2>5, <3>2, <3>3, <3>4 DEF Advances
    <2> QED
      BY <2>3, <2>4, <2>5, UpdatersMove
  <1> QED
    BY <1>8, <1>9

LEMMA ScriptWindsDown ==
  ASSUME PackageInv, PlanInv, NEW n \in Update,
         Spawned(n) \/ Rests(n) \/ Over(n) \/ Proceeds(n)
  PROVE  /\ ScriptLeft(n) \in Nat /\ ScriptLeft(n)' \in Nat
         /\ Spawned(n) => ScriptLeft(n) = 0 /\ ScriptLeft(n)' <= 8
         /\ ~Spawned(n) => ScriptLeft(n)' <= ScriptLeft(n)
         /\ Over(n) \/ Proceeds(n) => ScriptLeft(n)' < ScriptLeft(n)
  <1>1. /\ script[n] \in {"none", "wait", "run", "busy", "done", "aborted", "killed"}
        /\ todo[n] \in Seq(Package) /\ plan[n] \in Seq(Package)
        /\ script[n] = "busy" => todo[n] # <<>>
    BY DEF PackageInv, PackageTypeOK, TodoInv
  <1>2. Len(todo[n]) \in Nat /\ Len(plan[n]) \in 0..3
    <2>1. Len(todo[n]) \in Nat /\ Len(plan[n]) \in Nat
      BY <1>1
    <2>2. Len(plan[n]) <= 3
      BY DEF PlanInv
    <2>3. \A m \in Nat : m <= 3 => m \in 0..3
      OBVIOUS
    <2> QED
      BY <2>1, <2>2, <2>3, Zenon
  <1>3. todo[n] # <<>> => Len(todo[n]) >= 1 /\ Len(Tail(todo[n])) = Len(todo[n]) - 1
    BY <1>1
  <1>4. /\ ScriptLeft(n) = ScriptSteps(script[n], Len(todo[n]))
        /\ ScriptLeft(n)' = ScriptSteps(script'[n], Len(todo'[n]))
    BY DEF ScriptLeft
  <1> DEFINE k == Len(todo[n])
  <1>5. k \in Nat /\ (todo[n] # <<>> => k >= 1 /\ Len(Tail(todo[n])) = k - 1)
    BY <1>2, <1>3
  <1>6. ScriptLeft(n) = ScriptSteps(script[n], k)
    BY <1>4
  <1> HIDE DEF k
  <1>7. ScriptLeft(n) \in Nat
    <2>1. ScriptLeft(n) \in {2 * k + 2, 2 * k + 1, 2 * k, 0}
      BY <1>1, <1>6, ScriptStepsEach
    <2> QED
      BY <1>5, <2>1
  <1>8. CASE Spawned(n)
    <2>1. ScriptLeft(n) = 0
      BY <1>6, <1>8, ScriptStepsEach DEF Spawned
    <2>2. ScriptLeft(n)' = 2 * Len(plan[n]) + 2
      BY <1>4, <1>8, ScriptStepsEach DEF Spawned
    <2>3. ScriptLeft(n)' \in 0..8
      <3>1. \A m \in 0..3 : 2 * m + 2 \in 0..8
        OBVIOUS
      <3> QED
        BY <1>2, <2>2, <3>1, Zenon
    <2>4. ~Over(n) /\ ~Proceeds(n)
      BY <1>8 DEF Spawned, Over, Live, Proceeds
    <2> QED
      BY <1>8, <2>1, <2>3, <2>4
  <1>9. CASE Rests(n) /\ ~Spawned(n)
    <2>1. ScriptLeft(n)' = ScriptLeft(n)
      BY <1>4, <1>9 DEF Rests
    <2>2. ~Over(n)
      BY <1>9 DEF Rests, Over, Live
    <2>3. ~Proceeds(n)
      <3>1. todo[n] # <<>> => todo[n] # Tail(todo[n])
        <4>1. k # k - 1
          BY <1>5
        <4>2. Len(todo[n]) = k
          BY DEF k
        <4> QED
          BY <1>5, <4>1, <4>2
      <3> QED
        BY <1>9, <3>1 DEF Rests, Proceeds
    <2> QED
      BY <1>7, <1>9, <2>1, <2>2, <2>3
  <1>10. CASE Over(n) /\ ~Spawned(n)
    <2>1. ScriptLeft(n)' = 0
      BY <1>4, <1>10, ScriptStepsEach DEF Over
    <2>2. ScriptLeft(n) \in {2 * k + 2, 2 * k + 1} \/ (ScriptLeft(n) = 2 * k /\ k >= 1)
      BY <1>1, <1>5, <1>6, <1>10, ScriptStepsEach DEF Over, Live
    <2>3. 0 < ScriptLeft(n)
      BY <1>5, <2>2
    <2> QED
      BY <1>7, <1>10, <2>1, <2>3
  <1>11. CASE Proceeds(n) /\ ~Spawned(n)
    <2>1. CASE todo'[n] = todo[n] /\ script[n] = "wait" /\ script'[n] = "run"
      <3>1. ScriptLeft(n) = 2 * k + 2 /\ ScriptLeft(n)' = 2 * k + 1
        BY <1>4, <1>6, <2>1, ScriptStepsEach DEF k
      <3> QED
        BY <1>5, <1>11, <3>1
    <2>2. CASE todo'[n] = todo[n] /\ script[n] = "run" /\ script'[n] = "busy"
      <3>1. ScriptLeft(n) = 2 * k + 1 /\ ScriptLeft(n)' = 2 * k
        BY <1>4, <1>6, <2>2, ScriptStepsEach DEF k
      <3> QED
        BY <1>5, <1>11, <3>1
    <2>3. CASE /\ todo[n] # <<>> /\ todo'[n] = Tail(todo[n])
               /\ script[n] \in {"run", "busy"} /\ script'[n] = "run"
      <3>1. ScriptLeft(n) \in {2 * k + 1, 2 * k}
        BY <1>6, <2>3, ScriptStepsEach
      <3>2. ScriptLeft(n)' = 2 * (k - 1) + 1 /\ k >= 1
        BY <1>4, <1>5, <2>3, ScriptStepsEach
      <3> QED
        BY <1>5, <1>11, <3>1, <3>2
    <2> QED
      BY <1>11, <2>1, <2>2, <2>3 DEF Proceeds
  <1> QED
    BY <1>8, <1>9, <1>10, <1>11

(* A step of its own takes something off an update that has begun, and no  *)
(* step adds to one.                                                       *)
LEMMA SumsDrop ==
  ASSUME NEW a \in Nat, NEW b \in Nat, NEW s \in Nat, NEW d \in 0..1,
         NEW x \in Nat, NEW y \in Nat, NEW t \in Nat, NEW e \in 0..1,
         x <= a, y <= b
  PROVE  /\ t <= s /\ e <= d => x + y + t + e <= a + b + s + d
         /\ t <= s /\ e <= d /\ (x < a \/ y < b \/ t < s \/ e < d)
              => x + y + t + e < a + b + s + d
         /\ t <= s /\ (x + 2 <= a \/ y + 2 <= b) => x + y + t + e < a + b + s + d
         /\ s = 0 /\ t <= 8 /\ e <= d /\ (x + 9 = a \/ y + 9 = b)
              => x + y + t + e < a + b + s + d
  OBVIOUS

LEMMA WorkShrinks ==
  ASSUME PackageInv, PlanInv, GoingMove, NEW n \in Update
  PROVE  /\ WorkLeft(n)' <= WorkLeft(n)
         /\ (\/ \E u \in Updater : mine[u] = n /\ (Ends(u) \/ Advances(u))
             \/ Over(n) \/ Proceeds(n)
             \/ failsafe[n] = "armed" /\ failsafe'[n] = "fired")
              => WorkLeft(n)' < WorkLeft(n)
  <1> DEFINE a == UpdaterLeft(n, "service")
             b == UpdaterLeft(n, "cli")
             s == ScriptLeft(n)
             d == DelayedLeft(n)
             x == UpdaterLeft(n, "service")'
             y == UpdaterLeft(n, "cli")'
             t == ScriptLeft(n)'
             e == DelayedLeft(n)'
  <1>1. Updater = {"service", "cli"}
    BY DEF Updater
  <1>2. a \in Nat /\ b \in Nat /\ x \in Nat /\ y \in Nat /\ x <= a /\ y <= b
    BY <1>1, UpdaterWindsDown
  <1>3. ASSUME NEW u \in Updater, mine[u] = n, Ends(u) PROVE x + 2 <= a \/ y + 2 <= b
    BY <1>1, <1>3, UpdaterWindsDown
  <1>4. ASSUME NEW u \in Updater, mine[u] = n, Advances(u) PROVE x < a \/ y < b
    BY <1>1, <1>4, UpdaterWindsDown
  <1>5. Spawned(n) => x + 9 = a \/ y + 9 = b
    BY <1>1, UpdaterWindsDown DEF Spawned
  <1>6. Spawned(n) \/ Rests(n) \/ Over(n) \/ Proceeds(n)
    BY ScriptsMove
  <1>7. /\ s \in Nat /\ t \in Nat /\ (Spawned(n) => s = 0 /\ t <= 8)
        /\ (~Spawned(n) => t <= s) /\ (Over(n) \/ Proceeds(n) => t < s)
    BY <1>6, ScriptWindsDown
  <1>8. /\ d \in 0..1 /\ e \in 0..1
        /\ (failsafe'[n] = failsafe[n] \/ failsafe'[n] = "fired" => e <= d)
        /\ (failsafe[n] = "armed" /\ failsafe'[n] = "fired" => e < d)
    BY DEF DelayedLeft
  <1>9. WorkLeft(n) = a + b + s + d /\ WorkLeft(n)' = x + y + t + e
    BY DEF WorkLeft
  <1>10. \/ failsafe'[n] = failsafe[n] \/ failsafe'[n] = "fired"
         \/ \E u \in Updater : mine[u] = n /\ Ends(u)
    <2>1. FailsafesGoOn
      BY FailsafeEffect DEF PackageInv
    <2> QED
      BY <2>1 DEF FailsafesGoOn, Ends
  <1>11. Spawned(n) => ~\E u \in Updater : mine[u] = n /\ Ends(u)
    <2>1. n # 0
      BY UpdateBoundAssumption DEF Update
    <2> QED
      BY <2>1 DEF Spawned, Ends, PackageInv, NumberInv
  <1>12. Spawned(n) => ~Over(n) /\ ~Proceeds(n)
    BY DEF Spawned, Over, Live, Proceeds
  <1> HIDE DEF a, b, s, d, x, y, t, e
  <1>13. /\ t <= s /\ e <= d => x + y + t + e <= a + b + s + d
         /\ t <= s /\ e <= d /\ (x < a \/ y < b \/ t < s \/ e < d)
              => x + y + t + e < a + b + s + d
         /\ t <= s /\ (x + 2 <= a \/ y + 2 <= b) => x + y + t + e < a + b + s + d
         /\ s = 0 /\ t <= 8 /\ e <= d /\ (x + 9 = a \/ y + 9 = b)
              => x + y + t + e < a + b + s + d
    BY <1>2, <1>7, <1>8, SumsDrop
  <1>14. x + y + t + e < a + b + s + d => x + y + t + e <= a + b + s + d
    BY <1>2, <1>7, <1>8
  <1>15. CASE Spawned(n)
    BY <1>5, <1>7, <1>8, <1>9, <1>10, <1>11, <1>13, <1>14, <1>15
  <1>16. CASE ~Spawned(n) /\ \E u \in Updater : mine[u] = n /\ Ends(u)
    BY <1>3, <1>7, <1>9, <1>13, <1>14, <1>16
  <1>17. CASE ~Spawned(n) /\ ~\E u \in Updater : mine[u] = n /\ Ends(u)
    <2>1. t <= s /\ e <= d
      BY <1>7, <1>8, <1>10, <1>17
    <2>2. ASSUME \/ \E u \in Updater : mine[u] = n /\ (Ends(u) \/ Advances(u))
                 \/ Over(n) \/ Proceeds(n)
                 \/ failsafe[n] = "armed" /\ failsafe'[n] = "fired"
          PROVE  x < a \/ y < b \/ t < s \/ e < d
      BY <1>4, <1>7, <1>8, <1>17, <2>2
    <2> QED
      BY <1>9, <1>13, <2>1, <2>2
  <1> QED
    BY <1>15, <1>16, <1>17

LEMMA WorkIsBounded == PackageInv /\ PlanInv => WorkBounded
  <1> SUFFICES ASSUME PackageInv, PlanInv, NEW n \in Update PROVE WorkLeft(n) \in 0..14
    BY DEF WorkBounded
  <1> DEFINE a == UpdaterLeft(n, "service")
             b == UpdaterLeft(n, "cli")
             s == ScriptLeft(n)
             d == DelayedLeft(n)
  <1>1. /\ mine \in [Updater -> Update \cup {0}]
        /\ pc \in [Updater -> {"idle", "stage", "spawn", "arm", "install", "installing"}]
        /\ \A v \in Updater : pc[v] = "idle" <=> mine[v] = 0
    BY DEF PackageInv, PackageTypeOK
  <1>2. n # 0
    BY UpdateBoundAssumption DEF Update
  <1>3. s \in 0..8
    <2>1. /\ script[n] \in {"none", "wait", "run", "busy", "done", "aborted", "killed"}
          /\ todo[n] \in Seq(Package)
      BY DEF PackageInv, PackageTypeOK
    <2>2. Len(todo[n]) \in 0..3
      <3>1. Len(todo[n]) \in Nat
        BY <2>1
      <3>2. Len(todo[n]) <= 3
        BY DEF PlanInv
      <3>3. \A m \in Nat : m <= 3 => m \in 0..3
        OBVIOUS
      <3> QED
        BY <3>1, <3>2, <3>3, Zenon
    <2>3. s \in {2 * Len(todo[n]) + 2, 2 * Len(todo[n]) + 1, 2 * Len(todo[n]), 0}
      BY <2>1, ScriptStepsEach DEF ScriptLeft
    <2>4. \A m \in 0..3 : \A r \in {2 * m + 2, 2 * m + 1, 2 * m, 0} : r \in 0..8
      OBVIOUS
    <2> HIDE DEF s
    <2> QED
      BY <2>2, <2>3, <2>4, Zenon
  <1>4. d \in 0..1
    BY DEF DelayedLeft
  <1>5. ASSUME NEW u \in Updater, mine[u] = n
        PROVE  /\ d = 0
               /\ \/ UpdaterLeft(n, u) \in 0..14 /\ s = 0
                  \/ UpdaterLeft(n, u) = 2
    <2>1. failsafe[n] = "none" /\ (pc[u] # "arm" => script[n] = "none")
      BY <1>2, <1>5 DEF PackageInv, FreshInv
    <2>2. UpdaterLeft(n, u) = UpdaterSteps(pc[u], ToStage(n))
      BY <1>5 DEF UpdaterLeft
    <2>3. CASE pc[u] = "arm"
      BY <2>1, <2>2, <2>3, StepsEach DEF DelayedLeft
    <2>4. CASE pc[u] # "arm"
      <3>1. s = 0
        BY <2>1, <2>4, ScriptStepsEach DEF ScriptLeft
      <3>2. ToStage(n) \in 0..3
        BY ToStageNat
      <3>3. pc[u] \in {"stage", "spawn", "install", "installing"}
        BY <1>1, <1>2, <1>5, <2>4
      <3>4. UpdaterLeft(n, u) \in {11 + ToStage(n), 11, 3, 2}
        BY <2>2, <3>3, StepsEach
      <3> QED
        BY <2>1, <3>1, <3>2, <3>4 DEF DelayedLeft
    <2> QED
      BY <2>3, <2>4
  <1>6. \A u \in Updater : mine[u] # n => UpdaterLeft(n, u) = 0
    BY DEF UpdaterLeft
  <1>7. "service" \in Updater /\ "cli" \in Updater
    BY DEF Updater
  <1>8. mine["service"] = n => mine["cli"] # n
    BY <1>2, <1>7 DEF PackageInv, NumberInv
  <1>9. WorkLeft(n) = a + b + s + d
    BY DEF WorkLeft
  <1>10. \/ b = 0 /\ d = 0 /\ ((a \in 0..14 /\ s = 0) \/ a = 2)
         \/ a = 0 /\ d = 0 /\ ((b \in 0..14 /\ s = 0) \/ b = 2)
         \/ a = 0 /\ b = 0
    BY <1>5, <1>6, <1>7, <1>8
  <1> HIDE DEF a, b, s, d
  <1> QED
    BY <1>3, <1>4, <1>9, <1>10

LEMMA WorkGoesDown ==
  ASSUME PackageInv, PlanInv, PackageNext
  PROVE  /\ \A n \in 1..updates : WorkLeft(n)' <= WorkLeft(n)
         /\ GoOn => \E n \in 1..updates : WorkLeft(n)' < WorkLeft(n)
  <1>1. PackageTypeOK /\ NumberInv
    BY DEF PackageInv
  <1>2. updates \in Nat /\ 1..updates \subseteq Update
    BY <1>1, UpdateBoundAssumption DEF PackageTypeOK, Update
  <1>3. ASSUME NEW u \in Updater, NEW list, Begin(u, list)
        PROVE  /\ \A n \in 1..updates : WorkLeft(n)' <= WorkLeft(n)
               /\ ~GoOn
    <2>1. ~GoOn
      <3>1. updates' # updates
        BY <1>2, <1>3 DEF Begin
      <3> QED
        BY <1>1, <3>1, KeepsRequests DEF GoOn, GoingMove, RequestsKept
    <2>2. ASSUME NEW n \in 1..updates PROVE WorkLeft(n)' = WorkLeft(n)
      <3>1. n \in Update /\ n # updates + 1 /\ n # 0
        BY <1>2
      <3>2. /\ plan' = [plan EXCEPT ![updates + 1] = list]
            /\ mine' = [mine EXCEPT ![u] = updates + 1]
            /\ pc' = [pc EXCEPT ![u] = "stage"]
            /\ UNCHANGED <<files, script, todo, failsafe>>
            /\ mine[u] = 0
        BY <1>1, <1>3 DEF Begin, scripts, PackageTypeOK
      <3>3. ToStage(n)' = ToStage(n)
        <4>1. Packages(n)' = Packages(n)
          BY <1>1, <3>1, <3>2 DEF Packages, PackageTypeOK
        <4> QED
          BY <3>2, <4>1 DEF ToStage, Missing
      <3>4. ASSUME NEW v \in Updater PROVE UpdaterLeft(n, v)' = UpdaterLeft(n, v)
        <4>1. \/ mine'[v] = mine[v] /\ pc'[v] = pc[v]
              \/ mine[v] # n /\ mine'[v] # n
          BY <1>1, <3>1, <3>2 DEF PackageTypeOK
        <4> QED
          BY <3>3, <4>1 DEF UpdaterLeft
      <3>5. ScriptLeft(n)' = ScriptLeft(n) /\ DelayedLeft(n)' = DelayedLeft(n)
        BY <3>2 DEF ScriptLeft, DelayedLeft
      <3>6. "service" \in Updater /\ "cli" \in Updater
        BY DEF Updater
      <3> QED
        BY <3>4, <3>5, <3>6 DEF WorkLeft
    <2>3. \A n \in 1..updates : WorkLeft(n) \in 0..14
      BY <1>2, WorkIsBounded DEF WorkBounded
    <2>4. \A k \in 0..14 : k <= k
      OBVIOUS
    <2> QED
      BY <2>1, <2>2, <2>3, <2>4
  <1>4. CASE GoingMove
    <2>1. \A n \in 1..updates : WorkLeft(n)' <= WorkLeft(n)
      BY <1>2, <1>4, WorkShrinks
    <2>2. \A n \in Update : script[n] # "none" \/ failsafe[n] # "none" => n \in 1..updates
      BY <1>1, <1>2 DEF NumberInv, Update
    <2>3. ASSUME NEW u \in Updater, UpdaterStep(u)
          PROVE  \E n \in 1..updates : WorkLeft(n)' < WorkLeft(n)
      <3>1. mine[u] # 0 /\ (Ends(u) \/ Advances(u))
        BY <1>1, <2>3, UpdaterAdvances
      <3>2. mine[u] \in Update /\ mine[u] \in 1..updates
        BY <1>1, <1>2, <3>1 DEF PackageTypeOK, NumberInv, Update
      <3>3. PICK k \in Update : mine[u] = k /\ k \in 1..updates
        BY <3>2
      <3>4. WorkLeft(k)' < WorkLeft(k)
        BY <1>4, <3>1, <3>3, WorkShrinks
      <3> QED
        BY <3>3, <3>4
    <2>4. ASSUME NEW n \in Update, ScriptStep(n)
          PROVE  \E k \in 1..updates : WorkLeft(k)' < WorkLeft(k)
      <3>1. Over(n) \/ Proceeds(n)
        BY <2>4, ScriptProceeds DEF PackageInv
      <3>2. script[n] # "none"
        BY <3>1 DEF Over, Live, Proceeds
      <3> QED
        BY <1>4, <2>2, <3>1, <3>2, WorkShrinks
    <2>5. ASSUME NEW n \in Update, FailsafeFires(n)
          PROVE  \E k \in 1..updates : WorkLeft(k)' < WorkLeft(k)
      <3>1. failsafe[n] = "armed" /\ failsafe'[n] = "fired"
        BY <1>1, <2>5 DEF FailsafeFires, PackageTypeOK
      <3> QED
        BY <1>4, <2>2, <3>1, WorkShrinks
    <2> QED
      BY <2>1, <2>3, <2>4, <2>5 DEF GoOn
  <1> QED
    BY <1>3, <1>4 DEF PackageNext, BeginTask, BeginOffer, Updater, GoOn, GoingMove

LEMMA PlanInvariant == SelfUpdateSpec => []PlanInv
  <1>1. SelfUpdateInit => PlanInv
    BY DEF SelfUpdateInit, PackageInit, PlanInv
  <1>2. SelfUpdateInv /\ PlanInv /\ [SelfUpdateNext]_selfUpdateVars => PlanInv'
    <2>1. UNCHANGED packageVars /\ PlanInv => PlanInv'
      BY DEF packageVars, request, scripts, PlanInv
    <2> QED
      BY <2>1, PlanStep DEF SelfUpdateInv, SelfUpdateNext, selfUpdateVars
  <1> QED
    BY <1>1, <1>2, SelfUpdateInvariant, PTL DEF SelfUpdateSpec

(* An update that has begun is over in a bounded number of steps of the    *)
(* updater, its script and its delayed start (agent_update.rs,             *)
(* package_update.rs, service_restart.rs), whatever crosses them: at most   *)
(* fourteen are left, nothing adds to them, and each takes one off some    *)
(* update.  So no script of another, crash of the service or boot-out can  *)
(* keep two updates going against each other for ever.                     *)
THEOREM UpdatesTerminate == SelfUpdateSpec => []WorkBounded /\ UpdatesWindDown
  <1>1. SelfUpdateInv /\ PlanInv => WorkBounded
    BY WorkIsBounded DEF SelfUpdateInv
  <1>2. SelfUpdateInv /\ PlanInv /\ [SelfUpdateNext]_selfUpdateVars
          => [/\ \A n \in 1..updates : WorkLeft(n)' <= WorkLeft(n)
              /\ packages /\ GoOn
                   => \E n \in 1..updates : WorkLeft(n)' < WorkLeft(n)]_selfUpdateVars
    <2> SUFFICES ASSUME SelfUpdateInv, PlanInv, SelfUpdateNext
                 PROVE  /\ \A n \in 1..updates : WorkLeft(n)' <= WorkLeft(n)
                        /\ packages /\ GoOn
                             => \E n \in 1..updates : WorkLeft(n)' < WorkLeft(n)
      OBVIOUS
    <2>1. PackageInv
      BY DEF SelfUpdateInv
    <2>2. CASE packages /\ PackageNext
      BY <2>1, <2>2, WorkGoesDown
    <2>3. CASE ~packages /\ UNCHANGED packageVars
      <3>1. 1..updates \subseteq Update
        BY <2>1, UpdateBoundAssumption DEF PackageInv, PackageTypeOK, Update
      <3>2. ASSUME NEW n \in 1..updates PROVE WorkLeft(n)' = WorkLeft(n)
        BY <2>3 DEF packageVars, updater, request, scripts, WorkLeft, UpdaterLeft,
           ScriptLeft, DelayedLeft, ToStage, Missing, Packages
      <3>3. \A n \in 1..updates : WorkLeft(n) \in 0..14
        BY <2>1, <3>1, WorkIsBounded DEF WorkBounded
      <3>4. \A k \in 0..14 : k <= k
        OBVIOUS
      <3> QED
        BY <2>3, <3>2, <3>3, <3>4
    <2> QED
      BY <2>2, <2>3 DEF SelfUpdateNext
  <1> QED
    BY <1>1, <1>2, SelfUpdateInvariant, PlanInvariant, PTL
       DEF SelfUpdateSpec, UpdatesWindDown

===============================================================================
