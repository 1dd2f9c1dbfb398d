------------------------------ MODULE SelfUpdate ------------------------------
(***************************************************************************)
(* perform_self_update and apply_offer decide by the platform: installer   *)
(* packages on Linux, Windows and macOS, a new binary everywhere else.     *)
(***************************************************************************)
EXTENDS PackageUpdate, BinaryUpdater

VARIABLE packages   \* uses_installer_packages

selfUpdateVars == <<packages, packageVars, binaryVars>>

(* Without packages the state of PackageUpdate means nothing and is fixed. *)
SelfUpdateInit ==
  /\ packages \in BOOLEAN
  /\ PackageInit
  /\ BinaryInit
  /\ ~packages => platform = "linux" /\ root

SelfUpdateNext ==
  \/ packages /\ PackageNext /\ UNCHANGED <<packages, binaryVars>>
  \/ ~packages /\ BinaryNext /\ UNCHANGED <<packages, packageVars>>

(* Every variable has its type; an updating service runs, an updater at    *)
(* work has an update, and only what was verified goes near the program.   *)
SelfUpdateTypeOK ==
  /\ packages \in BOOLEAN
  /\ PackageTypeOK
  /\ BinaryTypeOK

SelfUpdateSpec ==
  /\ SelfUpdateInit
  /\ [][SelfUpdateNext]_selfUpdateVars
  /\ PackageFairness

===============================================================================
