----------------------------- MODULE BoundedDedup -----------------------------
(***************************************************************************)
(* What the duplicate filter promises the rest of the agent, with no queue *)
(* and no set: within one session a command id is accepted only if it is   *)
(* not among the last Capacity ids accepted.  The promise ends with the    *)
(* session: a new session starts from an empty history.                    *)
(***************************************************************************)
EXTENDS Integers, Sequences

CONSTANTS Command, Capacity

VARIABLE accepted   \* ids accepted in this session, oldest first

Recent == {accepted[i] : i \in {j \in DOMAIN accepted : j > Len(accepted) - Capacity}}

Init == accepted = << >>

Accept(c) ==
  /\ c \notin Recent
  /\ accepted' = Append(accepted, c)

NewSession == accepted' = << >>

Next == NewSession \/ \E c \in Command : Accept(c)

Spec == Init /\ [][Next]_accepted

(* Two acceptances of one id in a session are more than Capacity apart.    *)
RedeliveryGap ==
  \A i, j \in DOMAIN accepted :
    i < j /\ accepted[i] = accepted[j] => j - i > Capacity

===============================================================================
