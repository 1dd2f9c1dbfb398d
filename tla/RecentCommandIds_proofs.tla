------------------------ MODULE RecentCommandIds_proofs ------------------------
(***************************************************************************)
(* What insert_if_new does to a window whose queue and set are in step,    *)
(* for every capacity and every set of ids.                                *)
(***************************************************************************)
EXTENDS RecentCommandIds, SequenceTheorems, TLAPS

(* The queue holds the last ids of the log it was fed, up to the capacity. *)
Tracks(w, log) ==
  /\ Len(w.order) = IF Len(log) < Capacity THEN Len(log) ELSE Capacity
  /\ \A k \in 1..Len(w.order) : w.order[k] = log[Len(log) - Len(w.order) + k]

(* Inserting an unknown id in a window with room only appends it.          *)
LEMMA InsertWithRoom ==
  ASSUME NEW w \in Windows, NEW c \in Command,
         c \notin w.set, Len(w.order) < Capacity
  PROVE  /\ InsertIfNew(w, c).order = Append(w.order, c)
         /\ InsertIfNew(w, c).set = w.set \cup {c}
  <1>1. Len(Append(w.order, c)) = Len(w.order) + 1 /\ Len(w.order) \in Nat
    BY DEF Windows
  <1>2. Len(Append(w.order, c)) - Capacity <= 0
    BY <1>1, CapacityAssumption
  <1> QED
    BY <1>2 DEF InsertIfNew, IsNew, Trim

(* One id over capacity: the eviction loop runs once and forgets the front. *)
LEMMA TrimByOne ==
  ASSUME NEW long \in Seq(Command), NEW S, Len(long) = Capacity + 1
  PROVE  Trim([order |-> long, set |-> S]) =
           [order |-> SubSeq(long, 2, Capacity + 1), set |-> S \ {long[1]}]
  <1> DEFINE u == [order |-> long, set |-> S]
             excess == Len(u.order) - Capacity
  <1>1. u.order = long /\ u.set = S
    OBVIOUS
  <1>2. excess = 1
    BY <1>1, CapacityAssumption
  <1>3. Trim(u) = IF excess <= 0
                  THEN u
                  ELSE [order |-> SubSeq(u.order, excess + 1, Len(u.order)),
                        set   |-> u.set \ {u.order[i] : i \in 1..excess}]
    BY DEF Trim
  <1>4. ~(excess <= 0) /\ excess + 1 = 2 /\ Len(u.order) = Capacity + 1
    BY <1>1, <1>2
  <1>5. 1..excess = {1}
    BY <1>2
  <1>6. {u.order[i] : i \in 1..excess} = {long[1]}
    BY <1>1, <1>5
  <1> HIDE DEF excess, u
  <1>7. Trim(u) = [order |-> SubSeq(long, 2, Capacity + 1), set |-> S \ {long[1]}]
    BY <1>1, <1>3, <1>4, <1>6
  <1> QED
    BY <1>7 DEF u

(* Inserting an unknown id in a full window evicts exactly the oldest.     *)
LEMMA InsertWhenFull ==
  ASSUME NEW w \in Windows, NEW c \in Command,
         c \notin w.set, Len(w.order) = Capacity
  PROVE  /\ InsertIfNew(w, c) \in [order : Seq(Command), set : SUBSET Command]
         /\ Len(InsertIfNew(w, c).order) = Capacity
         /\ \A k \in 1..Capacity :
              InsertIfNew(w, c).order[k] = IF k = Capacity THEN c ELSE w.order[k + 1]
         /\ InsertIfNew(w, c).set = (w.set \cup {c}) \ {w.order[1]}
  <1> DEFINE long == Append(w.order, c)
             tail == SubSeq(long, 2, Capacity + 1)
  <1>1. /\ w.order \in Seq(Command)
        /\ w.set \subseteq Command
        /\ long \in Seq(Command)
        /\ Len(long) = Capacity + 1
        /\ \A i \in 1..Capacity : long[i] = w.order[i]
        /\ long[Capacity + 1] = c
    BY CapacityAssumption DEF Windows
  <1>2. InsertIfNew(w, c) = Trim([order |-> long, set |-> w.set \cup {c}])
    BY DEF InsertIfNew, IsNew
  <1> HIDE DEF long
  <1>3. InsertIfNew(w, c) = [order |-> tail, set |-> (w.set \cup {c}) \ {long[1]}]
    BY <1>1, <1>2, TrimByOne
  <1>4. \A i \in 2..Capacity + 1 : long[i] \in Command
    BY <1>1, CapacityAssumption
  <1>5. /\ tail \in Seq(Command)
        /\ Len(tail) = Capacity
        /\ \A k \in 1..Capacity : tail[k] = long[k + 1]
    <2>1. /\ tail \in Seq(Command)
          /\ Len(tail) = IF 2 <= Capacity + 1 THEN (Capacity + 1) - 2 + 1 ELSE 0
          /\ \A k \in 1..(Capacity + 1) - 2 + 1 : tail[k] = long[2 + k - 1]
      <3> HIDE DEF tail
      <3>1. tail = SubSeq(long, 2, Capacity + 1)
        BY DEF tail
      <3> QED
        BY <1>4, <3>1, CapacityAssumption, SubSeqProperties
    <2> HIDE DEF tail
    <2>2. (Capacity + 1) - 2 + 1 = Capacity /\ 2 <= Capacity + 1
      BY CapacityAssumption
    <2>3. \A k \in 1..Capacity : 2 + k - 1 = k + 1
      BY CapacityAssumption
    <2> QED
      BY <2>1, <2>2, <2>3
  <1> HIDE DEF tail
  <1>6. long[1] = w.order[1]
    BY <1>1, CapacityAssumption
  <1>7. \A k \in 1..Capacity : long[k + 1] = IF k = Capacity THEN c ELSE w.order[k + 1]
    BY <1>1, CapacityAssumption
  <1> QED
    BY <1>1, <1>3, <1>5, <1>6, <1>7

(* insert_if_new returns a window. *)
LEMMA InsertTyped ==
  ASSUME NEW w \in Windows, InStep(w), NEW c \in Command
  PROVE  InsertIfNew(w, c) \in Windows
  <1>1. CASE c \in w.set
    BY <1>1 DEF InsertIfNew, IsNew
  <1>2. CASE c \notin w.set /\ Len(w.order) < Capacity
    <2>1. InsertIfNew(w, c) = [order |-> Append(w.order, c), set |-> w.set \cup {c}]
      <3>1. Len(Append(w.order, c)) = Len(w.order) + 1 /\ Len(w.order) \in Nat
        BY DEF Windows
      <3>2. Len(Append(w.order, c)) - Capacity <= 0
        BY <1>2, <3>1, CapacityAssumption
      <3> QED
        BY <1>2, <3>2 DEF InsertIfNew, IsNew, Trim
    <2> QED
      BY <2>1 DEF Windows
  <1>3. CASE c \notin w.set /\ Len(w.order) = Capacity
    BY <1>3, InsertWhenFull DEF Windows
  <1>4. Len(w.order) \in Nat /\ Len(w.order) <= Capacity
    BY DEF Windows, InStep
  <1> QED
    BY <1>1, <1>2, <1>3, <1>4, CapacityAssumption

(* insert_if_new keeps the queue and the set in step.                      *)
LEMMA InsertInStep ==
  ASSUME NEW w \in Windows, InStep(w), NEW c \in Command
  PROVE  InStep(InsertIfNew(w, c))
  <1> DEFINE v == InsertIfNew(w, c)
  <1>0. /\ w.order \in Seq(Command) /\ Len(w.order) \in Nat /\ Len(w.order) <= Capacity
        /\ DOMAIN w.order = 1..Len(w.order)
        /\ w.set = {w.order[i] : i \in 1..Len(w.order)}
        /\ \A i, j \in 1..Len(w.order) : w.order[i] = w.order[j] => i = j
    BY DEF Windows, InStep
  <1>1. CASE c \in w.set
    BY <1>1 DEF InsertIfNew, IsNew
  <1>2. CASE c \notin w.set /\ Len(w.order) < Capacity
    <2>1. v.order = Append(w.order, c) /\ v.set = w.set \cup {c}
      BY <1>2, InsertWithRoom
    <2>2. /\ DOMAIN v.order = 1..(Len(w.order) + 1)
          /\ Len(v.order) = Len(w.order) + 1
          /\ \A i \in 1..Len(w.order) : v.order[i] = w.order[i]
          /\ v.order[Len(w.order) + 1] = c
      BY <2>1, <1>0
    <2>3. Len(v.order) <= Capacity
      BY <2>2, <1>0, <1>2, CapacityAssumption
    <2>4. v.set = {v.order[i] : i \in DOMAIN v.order}
      BY <2>1, <2>2, <1>0
    <2>5. \A i, j \in DOMAIN v.order : v.order[i] = v.order[j] => i = j
      BY <2>2, <1>0, <1>2
    <2> QED
      BY <2>3, <2>4, <2>5 DEF InStep
  <1>3. CASE c \notin w.set /\ Len(w.order) = Capacity
    <2>1. /\ v \in Windows /\ v.order \in Seq(Command) /\ Len(v.order) = Capacity
          /\ \A k \in 1..Capacity : v.order[k] = IF k = Capacity THEN c ELSE w.order[k + 1]
          /\ v.set = (w.set \cup {c}) \ {w.order[1]}
      BY <1>3, InsertWhenFull DEF Windows
    <2>2. DOMAIN v.order = 1..Capacity
      BY <2>1
    <2>3. \A i, j \in 1..Capacity : v.order[i] = v.order[j] => i = j
      BY <2>1, <1>0, <1>3, CapacityAssumption
    <2>4. v.set \subseteq {v.order[i] : i \in 1..Capacity}
      <3> SUFFICES ASSUME NEW d \in v.set
                   PROVE  \E i \in 1..Capacity : v.order[i] = d
        OBVIOUS
      <3>1. CASE d = c
        BY <3>1, <2>1, CapacityAssumption
      <3>2. CASE d # c
        <4>1. PICK i \in 1..Capacity : w.order[i] = d /\ i # 1
          BY <3>2, <2>1, <1>0, <1>3
        <4>2. i - 1 \in 1..Capacity /\ i - 1 # Capacity /\ (i - 1) + 1 = i
          BY <4>1, CapacityAssumption
        <4> QED
          BY <4>1, <4>2, <2>1
      <3> QED
        BY <3>1, <3>2
    <2>5. {v.order[i] : i \in 1..Capacity} \subseteq v.set
      <3> SUFFICES ASSUME NEW i \in 1..Capacity
                   PROVE  v.order[i] \in v.set
        OBVIOUS
      <3>1. 1 \in 1..Capacity
        BY CapacityAssumption
      <3>2. CASE i = Capacity
        BY <3>1, <3>2, <2>1, <1>0, <1>2, <1>3
      <3>3. CASE i # Capacity
        <4>1. i + 1 \in 1..Capacity /\ i + 1 # 1
          BY <3>3, CapacityAssumption
        <4>2. w.order[i + 1] \in w.set /\ w.order[i + 1] # w.order[1]
          BY <4>1, <3>1, <1>0, <1>3
        <4> QED
          BY <4>2, <3>3, <2>1
      <3> QED
        BY <3>2, <3>3
    <2>6. v.set = {v.order[i] : i \in DOMAIN v.order}
      BY <2>2, <2>4, <2>5
    <2>7. Len(v.order) <= Capacity
      BY <2>1, CapacityAssumption
    <2>8. \A i, j \in DOMAIN v.order : v.order[i] = v.order[j] => i = j
      BY <2>2, <2>3
    <2> HIDE DEF v
    <2>9. InStep(v)
      BY <2>6, <2>7, <2>8 DEF InStep
    <2> QED
      BY <2>9 DEF v
  <1> QED
    BY <1>0, <1>1, <1>2, <1>3, CapacityAssumption

(* insert_if_new of a new id keeps the queue equal to the tail of the log. *)
LEMMA InsertTracks ==
  ASSUME NEW w \in Windows, InStep(w), NEW log \in Seq(Command), Tracks(w, log),
         NEW c \in Command, IsNew(w, c)
  PROVE  Tracks(InsertIfNew(w, c), Append(log, c))
  <1> DEFINE v == InsertIfNew(w, c)
             longer == Append(log, c)
  <1>0. /\ Len(w.order) \in Nat /\ Len(w.order) <= Capacity /\ c \notin w.set
        /\ Len(log) \in Nat
        /\ Len(longer) = Len(log) + 1
        /\ \A i \in 1..Len(log) : longer[i] = log[i]
        /\ longer[Len(log) + 1] = c
    BY DEF Windows, InStep, IsNew
  <1>a. /\ Len(w.order) = IF Len(log) < Capacity THEN Len(log) ELSE Capacity
        /\ \A k \in 1..Len(w.order) : w.order[k] = log[Len(log) - Len(w.order) + k]
    BY DEF Tracks
  <1> HIDE DEF longer
  <1>1. CASE Len(w.order) < Capacity
    <2>1. v.order = Append(w.order, c)
      BY <1>0, <1>1, InsertWithRoom
    <2>2. /\ Len(v.order) = Len(w.order) + 1
          /\ \A i \in 1..Len(w.order) : v.order[i] = w.order[i]
          /\ v.order[Len(w.order) + 1] = c
      BY <2>1 DEF Windows
    <2>3. Len(w.order) = Len(log)
      BY <1>a, <1>1, <1>0, CapacityAssumption
    <2>4. Len(v.order) = Len(longer) /\ Len(longer) <= Capacity
      BY <2>2, <2>3, <1>0, <1>1, CapacityAssumption
    <2>5. ASSUME NEW k \in 1..Len(v.order)
          PROVE  v.order[k] = longer[Len(longer) - Len(v.order) + k]
      <3>1. Len(longer) - Len(v.order) + k = k
        BY <2>4, <1>0
      <3>2. CASE k = Len(log) + 1
        BY <3>1, <3>2, <2>2, <2>3, <1>0
      <3>3. CASE k \in 1..Len(log)
        <4>1. w.order[k] = log[k]
          BY <3>3, <2>3, <1>a, <1>0
        <4> QED
          BY <4>1, <3>1, <3>3, <2>2, <2>3, <1>0
      <3> QED
        BY <3>2, <3>3, <2>2, <2>3, <1>0
    <2>6. Len(v.order) = IF Len(longer) < Capacity THEN Len(longer) ELSE Capacity
      BY <2>4, <1>0, CapacityAssumption
    <2> HIDE DEF v
    <2>7. Tracks(v, longer)
      BY <2>5, <2>6 DEF Tracks
    <2> QED
      BY <2>7 DEF v, longer
  <1>2. CASE Len(w.order) = Capacity
    <2>1. /\ Len(v.order) = Capacity
          /\ \A k \in 1..Capacity : v.order[k] = IF k = Capacity THEN c ELSE w.order[k + 1]
      BY <1>0, <1>2, InsertWhenFull
    <2>2. Len(log) >= Capacity
      BY <1>a, <1>2, <1>0, CapacityAssumption
    <2>3. Len(v.order) = IF Len(longer) < Capacity THEN Len(longer) ELSE Capacity
      BY <2>1, <2>2, <1>0, CapacityAssumption
    <2>4. ASSUME NEW k \in 1..Len(v.order)
          PROVE  v.order[k] = longer[Len(longer) - Len(v.order) + k]
      <3>1. CASE k = Capacity
        BY <3>1, <2>1, <1>0, CapacityAssumption
      <3>2. CASE k # Capacity
        <4>1. k + 1 \in 1..Capacity
          BY <3>2, <2>1, CapacityAssumption
        <4>2. v.order[k] = log[Len(log) - Capacity + (k + 1)]
          BY <4>1, <3>2, <2>1, <1>a, <1>2
        <4>3. Len(log) - Capacity + (k + 1) \in 1..Len(log)
          BY <4>1, <2>2, <1>0, CapacityAssumption
        <4>4. Len(longer) - Len(v.order) + k = Len(log) - Capacity + (k + 1)
          BY <2>1, <1>0, CapacityAssumption
        <4> QED
          BY <4>2, <4>3, <4>4, <1>0
      <3> QED
        BY <3>1, <3>2
    <2> QED
      BY <2>3, <2>4 DEF Tracks, longer
  <1> QED
    BY <1>0, <1>1, <1>2, CapacityAssumption

===============================================================================
