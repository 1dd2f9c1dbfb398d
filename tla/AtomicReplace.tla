----------------------------- MODULE AtomicReplace -----------------------------
(***************************************************************************)
(* What an update by binary promises: the installed program goes from one  *)
(* complete, verified version to another in a single step and is never     *)
(* lost.  The promise ends with the first trouble: an update cut short     *)
(* while the program is aside, one that could not put it back, or two      *)
(* updates at the same time.                                               *)
(***************************************************************************)

VARIABLES
  bin,          \* the version that can be had, or "lost"
  trouble       \* the promise has ended

promise == <<bin, trouble>>

PromiseTypeOK ==
  /\ bin \in {"old", "new", "lost"}
  /\ trouble \in BOOLEAN

PromiseInit ==
  /\ bin = "old"
  /\ trouble = FALSE

Replace ==
  /\ ~trouble
  /\ bin' = "new"
  /\ UNCHANGED trouble

(* Trouble by itself loses nothing yet.                                    *)
Trouble ==
  /\ trouble' = TRUE
  /\ UNCHANGED bin

Unprotected ==
  /\ trouble
  /\ bin' \in {"old", "new", "lost"}
  /\ UNCHANGED trouble

PromiseNext == Replace \/ Trouble \/ Unprotected

PromiseSpec == PromiseInit /\ [][PromiseNext]_promise

===============================================================================
