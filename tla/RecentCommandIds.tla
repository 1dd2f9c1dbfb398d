--------------------------- MODULE RecentCommandIds ---------------------------
(***************************************************************************)
(* The bounded memory of recently seen command ids (src/src/pull.rs,       *)
(* struct RecentCommandIds): a queue that keeps the order of insertion and *)
(* a set that answers membership.  The code keeps the two in step by hand; *)
(* so does this module, and that they agree is an invariant of its users.  *)
(***************************************************************************)
EXTENDS Integers, Sequences

CONSTANTS
  Command,   \* ids the server gives to commands
  Capacity   \* RECENT_COMMAND_ID_CAPACITY (512 in the code)

ASSUME CapacityAssumption == Capacity \in Nat \ {0}

Windows == [order : Seq(Command), set : SUBSET Command]

EmptyWindow == [order |-> << >>, set |-> {}]

(* Mutant: the eviction forgets the queue's front but not the set's member. *)
TrimQueueOnly(w) ==
  LET excess == Len(w.order) - Capacity
  IN  IF excess <= 0
      THEN w
      ELSE [w EXCEPT !.order = SubSeq(@, excess + 1, Len(@))]

(* Mutant: the eviction starts one id too early.                           *)
TrimAtCapacity(w) ==
  LET excess == Len(w.order) - Capacity + 1
  IN  IF excess <= 0
      THEN w
      ELSE [order |-> SubSeq(w.order, excess + 1, Len(w.order)),
            set   |-> w.set \ {w.order[i] : i \in 1..excess}]

(* The eviction loop: pop the front, and forget it, while over capacity.   *)
Trim(w) ==
  LET excess == Len(w.order) - Capacity
  IN  IF excess <= 0
      THEN w
      ELSE [order |-> SubSeq(w.order, excess + 1, Len(w.order)),
            set   |-> w.set \ {w.order[i] : i \in 1..excess}]

(* insert_if_new: its return value, and the window it leaves.              *)
IsNew(w, c) == c \notin w.set

InsertIfNew(w, c) ==
  IF IsNew(w, c)
  THEN Trim([order |-> Append(w.order, c), set |-> w.set \cup {c}])
  ELSE w

(* What the code relies on without stating it: the queue holds each member *)
(* of the set exactly once and never outgrows the capacity.                *)
InStep(w) ==
  /\ Len(w.order) <= Capacity
  /\ w.set = {w.order[i] : i \in DOMAIN w.order}
  /\ \A i, j \in DOMAIN w.order : w.order[i] = w.order[j] => i = j

===============================================================================
