-------------------------- MODULE OpenFilesProofs --------------------------
(***************************************************************************)
(* What OpenFiles guarantees for any set of opens and representations, any *)
(* limit and any number of such layers in one chain.                       *)
(***************************************************************************)
EXTENDS OpenFiles, FiniteSetTheorems, TLAPS

\* What the layer keeps of a cancelled open is in the queue while it waits.
QueueIsDropped == \A c \in queue : phase[c] = "dropped"

IInv ==
  /\ TypeOK
  /\ QueueIsDropped
  /\ ReservationsOwned
  /\ LiveIsTable
  /\ OpenedWithinLimit
  /\ Layers = 1 => RefusedWhenFull

-----------------------------------------------------------------------------
(* Counting                                                                *)

\* Slots are counted in whole layers.
LEMMA Slots ==
  ASSUME NEW n \in Nat
  PROVE  /\ Layers * n \in Nat
         /\ Layers * (n + 1) = Layers * n + Layers
         /\ n > 0 => Layers * (n - 1) = Layers * n - Layers
         /\ Layers * n >= n
         /\ Layers = 1 => Layers * n = n
<1>1. Layers \in Nat /\ Layers >= 1
  BY LimitAssumption
<1>2. (Layers - 1) * n >= 0
  BY <1>1
<1> QED BY <1>1, <1>2

\* Sums of two counts, in whole layers.
LEMMA SlotsOfBoth ==
  ASSUME NEW m \in Nat, NEW n \in Nat
  PROVE  Layers * (m + n) = Layers * m + Layers * n
BY LimitAssumption

\* Sets of opens and of representations can be counted.
LEMMA Countable ==
  ASSUME NEW S, S \subseteq Opens \/ S \subseteq Reps
  PROVE  IsFiniteSet(S) /\ Cardinality(S) \in Nat
BY FiniteAssumption, FS_Subset, FS_CardinalityType

\* A member more or less counts one.
LEMMA OneMore ==
  ASSUME NEW S, S \subseteq Opens \/ S \subseteq Reps, NEW x, x \notin S
  PROVE  Cardinality(S \cup {x}) = Cardinality(S) + 1
BY Countable, FS_AddElement

\* A member taken away counts one less.
LEMMA OneLess ==
  ASSUME NEW S, S \subseteq Opens \/ S \subseteq Reps, NEW x \in S
  PROVE  Cardinality(S \ {x}) = Cardinality(S) - 1 /\ Cardinality(S) > 0
<1>1. Cardinality(S \ {x}) = Cardinality(S) - 1
  BY Countable, FS_RemoveElement
<1>2. S \ {x} \subseteq Opens \/ S \ {x} \subseteq Reps
  OBVIOUS
<1>3. Cardinality(S \ {x}) \in Nat /\ Cardinality(S) \in Nat
  BY <1>2, Countable
<1> QED BY <1>1, <1>3

\* Fewer members count no more.
LEMMA NoMore ==
  ASSUME NEW S, S \subseteq Opens \/ S \subseteq Reps, NEW T \in SUBSET S
  PROVE  Cardinality(T) <= Cardinality(S)
BY Countable, FS_Subset

\* After a delivery the layer counts the opens in progress, and no others.
LEMMA DeliveredIsRunning ==
  ASSUME IInv
  PROVE  /\ Cardinality(Running) \in Nat /\ Cardinality(queue) \in Nat
         /\ Delivered = Layers * Cardinality(Running)
         /\ Delivered \in Nat /\ Delivered >= Cardinality(Running)
         /\ Delivered <= pending
<1>1. Running \subseteq Opens /\ queue \subseteq Opens
  BY DEF IInv, TypeOK, Running
<1>2. Cardinality(Running) \in Nat /\ Cardinality(queue) \in Nat
  BY <1>1, Countable
<1>3. pending = Layers * Cardinality(Running) + Layers * Cardinality(queue)
  BY <1>2, SlotsOfBoth DEF IInv, ReservationsOwned
<1>4. /\ Layers * Cardinality(Running) \in Nat
      /\ Layers * Cardinality(queue) \in Nat
      /\ Layers * Cardinality(Running) >= Cardinality(Running)
  BY <1>2, Slots
<1> QED BY <1>2, <1>3, <1>4 DEF Delivered, SaturatingSub

\* A dispatch that reserves nothing leaves the opens in progress counted.
LEMMA DispatchCounts ==
  ASSUME IInv, Dispatch(Delivered), UNCHANGED phase
  PROVE  /\ pending' \in 0..Limit /\ queue' = {}
         /\ QueueIsDropped' /\ ReservationsOwned' /\ Running' = Running
<1>1. Running' = Running
  BY DEF Running
<1>2. Cardinality(queue') = 0
  BY FS_EmptySet DEF Dispatch
<1>3. ReservationsOwned'
  BY <1>1, <1>2, DeliveredIsRunning, Slots DEF ReservationsOwned, Dispatch
<1>4. pending' \in 0..Limit
  <2>1. Delivered \in Nat /\ Delivered <= pending
    BY DeliveredIsRunning
  <2>2. pending' = Delivered
    BY DEF Dispatch
  <2>3. pending \in 0..Limit
    BY DEF IInv, TypeOK
  <2> QED BY <2>1, <2>2, <2>3, LimitAssumption
<1> QED BY <1>1, <1>3, <1>4 DEF QueueIsDropped, Dispatch

-----------------------------------------------------------------------------
(* The steps                                                               *)

\* Nothing is open and nothing reserved at first.
LEMMA Initial == Init => IInv
<1> SUFFICES ASSUME Init PROVE IInv
  OBVIOUS
<1>1. Running = {} /\ Cardinality(Running) = 0 /\ Cardinality({}) = 0
  BY FS_EmptySet DEF Init, Running
<1>2. Layers * 0 = 0
  BY LimitAssumption
<1>3. Cardinality(queue) = 0 /\ Cardinality(opened) = 0 /\ pending = 0
  BY <1>1 DEF Init
<1>4. ReservationsOwned /\ OpenedWithinLimit
  BY <1>1, <1>2, <1>3, LimitAssumption DEF ReservationsOwned, OpenedWithinLimit
<1>5. TypeOK
  <2>1. pending \in 0..Limit
    BY <1>3, LimitAssumption
  <2>2. refused \in Nat
    BY LimitAssumption DEF Init
  <2>3. phase \in [Opens -> {"new", "running", "dropped", "done"}]
    BY DEF Init
  <2>4. /\ live \subseteq Reps /\ table \subseteq Reps /\ opened \subseteq table
        /\ queue \subseteq Opens /\ trapped \in BOOLEAN
    BY DEF Init
  <2> QED BY <2>1, <2>2, <2>3, <2>4 DEF TypeOK
<1>6. QueueIsDropped
  BY DEF Init, QueueIsDropped
<1>7. LiveIsTable
  BY DEF Init, LiveIsTable
<1>8. RefusedWhenFull
  BY LimitAssumption DEF Init, RefusedWhenFull
<1> QED BY <1>4, <1>5, <1>6, <1>7, <1>8 DEF IInv

\* Calls that open nothing.
LEMMA OtherCallKeeps == ASSUME IInv, OtherCall \/ GetDirectoriesRefused PROVE IInv'
<1>1. Dispatch(Delivered) /\ UNCHANGED <<live, phase, table, opened, refused>>
  BY DEF OtherCall, GetDirectoriesRefused
<1>2. trapped' \in BOOLEAN /\ (~trapped' => ~trapped)
  BY DEF IInv, TypeOK, OtherCall, GetDirectoriesRefused
<1>3. TypeOK'
  BY <1>1, <1>2, DispatchCounts DEF IInv, TypeOK
<1>4. LiveIsTable' /\ (Layers = 1 => RefusedWhenFull')
  BY <1>1, <1>2 DEF IInv, LiveIsTable, RefusedWhenFull
<1>5. OpenedWithinLimit'
  BY <1>1, DispatchCounts DEF IInv, OpenedWithinLimit
<1> QED BY <1>1, <1>3, <1>4, <1>5, DispatchCounts DEF IInv

\* Preopened directories are live at once.
LEMMA GetDirectoriesKeeps ==
  ASSUME IInv, NEW new \in SUBSET Reps, GetDirectories(new) PROVE IInv'
<1>1. Dispatch(Delivered) /\ UNCHANGED <<phase, opened, trapped, refused>>
  BY DEF GetDirectories
<1>2. TypeOK'
  BY <1>1, DispatchCounts DEF IInv, TypeOK, GetDirectories
<1>3. LiveIsTable' /\ (Layers = 1 => RefusedWhenFull')
  BY <1>1 DEF IInv, LiveIsTable, RefusedWhenFull, GetDirectories
<1>4. OpenedWithinLimit'
  BY <1>1, DispatchCounts DEF IInv, OpenedWithinLimit
<1> QED BY <1>1, <1>2, <1>3, <1>4, DispatchCounts DEF IInv

\* The drop of a descriptor, refused or not.
LEMMA DropKeeps ==
  ASSUME IInv, NEW r \in Reps, DropDescriptor(r) \/ DropRefused(r) PROVE IInv'
<1>1. Dispatch(Delivered) /\ UNCHANGED <<phase, refused>> /\ ~trapped
  BY DEF DropDescriptor, DropRefused, Dispatch
<1>2. opened' \in SUBSET opened /\ opened \subseteq Reps
  BY DEF IInv, TypeOK, DropDescriptor, DropRefused
<1>3. TypeOK'
  BY <1>1, DispatchCounts DEF IInv, TypeOK, DropDescriptor, DropRefused
<1>4. LiveIsTable' /\ (Layers = 1 => RefusedWhenFull')
  BY <1>1 DEF IInv, LiveIsTable, RefusedWhenFull, DropDescriptor, DropRefused
<1>5. OpenedWithinLimit'
  <2>1. Cardinality(opened') <= Cardinality(opened)
    BY <1>2, NoMore
  <2>2. Running' = Running /\ Running \subseteq Opens
    BY <1>1 DEF Running
  <2>3. /\ Cardinality(opened) \in Nat /\ Cardinality(opened') \in Nat
        /\ Cardinality(Running) \in Nat
    BY <1>2, <2>2, Countable
  <2> QED BY <2>1, <2>2, <2>3, LimitAssumption DEF IInv, OpenedWithinLimit
<1> QED BY <1>1, <1>3, <1>4, <1>5, DispatchCounts DEF IInv

\* A refusal is recorded with what there is; with one layer there is as much
\* as the limit allows.
LEMMA OpenRefusedKeeps ==
  ASSUME IInv, NEW c \in Opens, OpenRefused(c) \/ OpenRefusedInside(c) PROVE IInv'
<1>1. /\ ~trapped /\ queue' = {} /\ phase[c] = "new"
      /\ phase' = [phase EXCEPT ![c] = "done"]
      /\ UNCHANGED <<live, table, opened, trapped>>
  BY DEF OpenRefused, OpenRefusedInside, Dispatch
<1>2. pending' = Delivered
  BY DeliveredIsRunning, LimitAssumption
     DEF OpenRefused, OpenRefusedInside, Dispatch, Reserve, Release, SaturatingSub
<1>3. Running' = Running /\ Running \subseteq Opens
  BY <1>1 DEF Running, IInv, TypeOK
<1>4. Cardinality(queue') = 0
  BY <1>1, FS_EmptySet
<1>5. ReservationsOwned'
  BY <1>2, <1>3, <1>4, DeliveredIsRunning, Slots DEF ReservationsOwned
<1>6. refused' \in Nat /\ (Layers = 1 => RefusedWhenFull')
  <2>1. CASE OpenRefusedInside(c)
    BY <2>1 DEF OpenRefusedInside, IInv, TypeOK, RefusedWhenFull
  <2>2. CASE OpenRefused(c)
    <3>1. refused' = Cardinality(table) + Cardinality(Running)
      BY <2>2 DEF OpenRefused
    <3>2. Cardinality(table) \in Nat /\ Cardinality(Running) \in Nat
      BY <1>3, Countable DEF IInv, TypeOK
    <3>3. live = table
      BY <1>1 DEF IInv, LiveIsTable
    <3>4. ASSUME Layers = 1 PROVE Delivered = Cardinality(Running)
      BY <3>2, <3>4, DeliveredIsRunning, Slots
    <3>5. Cardinality(live) + Delivered + (Layers - 1) >= Limit
      BY <2>2 DEF OpenRefused, Full
    <3> QED BY <3>1, <3>2, <3>3, <3>4, <3>5, LimitAssumption DEF RefusedWhenFull
  <2> QED BY <2>1, <2>2
<1>7. TypeOK'
  <2>1. pending' \in 0..Limit
    BY <1>2, DeliveredIsRunning, LimitAssumption DEF IInv, TypeOK
  <2> QED BY <1>1, <1>6, <2>1 DEF IInv, TypeOK
<1>8. QueueIsDropped' /\ LiveIsTable' /\ OpenedWithinLimit'
  BY <1>1, <1>3 DEF IInv, QueueIsDropped, LiveIsTable, OpenedWithinLimit
<1> QED BY <1>5, <1>6, <1>7, <1>8 DEF IInv

\* The open that begins finds room for itself in every layer.
LEMMA OpenBeginsKeeps == ASSUME IInv, NEW c \in Opens, OpenBegins(c) PROVE IInv'
<1>1. /\ ~trapped /\ queue' = {} /\ phase[c] = "new" /\ pending' = Delivered + Layers
      /\ phase' = [phase EXCEPT ![c] = "running"]
      /\ UNCHANGED <<live, table, opened, trapped, refused>>
  BY DEF OpenBegins, Dispatch, Reserve
<1>2. Running' = Running \cup {c} /\ c \notin Running /\ Running \subseteq Opens
  BY <1>1 DEF Running, IInv, TypeOK
<1>3. Cardinality(Running') = Cardinality(Running) + 1
  BY <1>2, OneMore
<1>4. Cardinality(queue') = 0
  BY <1>1, FS_EmptySet
<1>5. ReservationsOwned'
  <2>1. Cardinality(Running) \in Nat /\ Delivered = Layers * Cardinality(Running)
    BY DeliveredIsRunning
  <2>2. Layers * (Cardinality(Running) + 1) = Layers * Cardinality(Running) + Layers
    BY <2>1, Slots
  <2> QED BY <1>1, <1>3, <1>4, <2>1, <2>2 DEF ReservationsOwned
<1>6. Cardinality(live) + Delivered + (Layers - 1) < Limit
  <2>1. Cardinality(live) \in Nat
    BY Countable DEF IInv, TypeOK
  <2> QED BY <2>1, DeliveredIsRunning, LimitAssumption DEF OpenBegins, Full
<1>7. TypeOK'
  <2>1. Cardinality(live) \in Nat
    BY Countable DEF IInv, TypeOK
  <2>2. Delivered + Layers \in 0..Limit
    BY <1>6, <2>1, DeliveredIsRunning, LimitAssumption
  <2> QED BY <1>1, <2>2 DEF IInv, TypeOK
<1>8. OpenedWithinLimit'
  <2>1. opened \in SUBSET live /\ live \subseteq Reps
    BY <1>1 DEF IInv, TypeOK, LiveIsTable
  <2>2. Cardinality(opened) <= Cardinality(live)
    BY <2>1, NoMore
  <2>3. Cardinality(opened) \in Nat /\ Cardinality(live) \in Nat
    BY <2>1, Countable
  <2> QED BY <1>1, <1>3, <1>6, <2>2, <2>3, DeliveredIsRunning, LimitAssumption
          DEF OpenedWithinLimit
<1>9. QueueIsDropped' /\ LiveIsTable' /\ (Layers = 1 => RefusedWhenFull')
  BY <1>1 DEF IInv, QueueIsDropped, LiveIsTable, RefusedWhenFull
<1> QED BY <1>5, <1>7, <1>8, <1>9 DEF IInv

\* An open in progress gives its reservations back when it ends.
LEMMA ReservationsReturn ==
  ASSUME IInv, NEW c \in Opens, phase[c] = "running",
         phase' = [phase EXCEPT ![c] = "done"], pending' = Release(pending), UNCHANGED queue
  PROVE  /\ ReservationsOwned' /\ QueueIsDropped' /\ pending' \in 0..Limit
         /\ Cardinality(Running') = Cardinality(Running) - 1
         /\ Cardinality(Running) \in Nat /\ Cardinality(Running) > 0
<1>1. Running' = Running \ {c} /\ c \in Running /\ Running \subseteq Opens
  BY DEF Running, IInv, TypeOK
<1>2. Cardinality(Running') = Cardinality(Running) - 1 /\ Cardinality(Running) > 0
  BY <1>1, OneLess
<1>3. Cardinality(Running) \in Nat /\ Cardinality(queue) \in Nat
  BY DeliveredIsRunning
<1> DEFINE n == Cardinality(Running) + Cardinality(queue)
<1>4. n \in Nat /\ n > 0 /\ Cardinality(Running') + Cardinality(queue') = n - 1
  BY <1>2, <1>3
<1>5. pending = Layers * n
  BY DEF IInv, ReservationsOwned
<1>6. Layers * (n - 1) = Layers * n - Layers /\ Layers * n \in Nat /\ Layers * n >= n
  BY <1>4, Slots
<1>7. Layers * (n - 1) \in Nat
  BY <1>4, Slots
<1> HIDE DEF n
<1>8. pending' = Layers * n - Layers
  BY <1>5, <1>6, <1>7, LimitAssumption DEF Release, SaturatingSub
<1>9. ReservationsOwned'
  BY <1>4, <1>6, <1>8 DEF ReservationsOwned
<1>10. pending' \in 0..Limit
  <2>1. pending \in 0..Limit
    BY DEF IInv, TypeOK
  <2> QED BY <1>5, <1>6, <1>7, <1>8, <2>1, LimitAssumption
<1>11. QueueIsDropped'
  BY DEF IInv, TypeOK, QueueIsDropped
<1> QED BY <1>2, <1>3, <1>9, <1>10, <1>11

\* The descriptor that an open returns takes the place of its reservation.
LEMMA OpenReturnsKeeps ==
  ASSUME IInv, NEW c \in Opens, NEW r \in Reps, OpenReturns(c, r) PROVE IInv'
<1>1. /\ phase[c] = "running" /\ pending' = Release(pending) /\ r \notin table
      /\ phase' = [phase EXCEPT ![c] = "done"]
      /\ opened' = opened \cup {r} /\ UNCHANGED <<queue, trapped, refused>>
  BY DEF OpenReturns
<1>2. TypeOK'
  BY <1>1, ReservationsReturn DEF IInv, TypeOK, OpenReturns
<1>3. LiveIsTable' /\ (Layers = 1 => RefusedWhenFull')
  BY <1>1 DEF IInv, LiveIsTable, RefusedWhenFull, OpenReturns
<1>4. OpenedWithinLimit'
  <2>1. opened \subseteq Reps /\ r \notin opened
    BY <1>1 DEF IInv, TypeOK
  <2>2. Cardinality(opened') = Cardinality(opened) + 1 /\ Cardinality(opened) \in Nat
    BY <1>1, <2>1, OneMore, Countable
  <2>3. Cardinality(Running') = Cardinality(Running) - 1 /\ Cardinality(Running) \in Nat
    BY <1>1, ReservationsReturn
  <2>4. Cardinality(opened) + Cardinality(Running) <= Limit
    BY DEF IInv, OpenedWithinLimit
  <2> QED BY <2>2, <2>3, <2>4, LimitAssumption DEF OpenedWithinLimit
<1> QED BY <1>1, <1>2, <1>3, <1>4, ReservationsReturn DEF IInv

\* A failed open gives its reservation up.
LEMMA OpenFailsKeeps == ASSUME IInv, NEW c \in Opens, OpenFails(c) PROVE IInv'
<1>1. /\ phase[c] = "running" /\ pending' = Release(pending)
      /\ phase' = [phase EXCEPT ![c] = "done"]
      /\ UNCHANGED <<live, queue, table, opened, trapped, refused>>
  BY DEF OpenFails
<1>2. TypeOK'
  BY <1>1, ReservationsReturn DEF IInv, TypeOK
<1>3. LiveIsTable' /\ (Layers = 1 => RefusedWhenFull')
  BY <1>1 DEF IInv, LiveIsTable, RefusedWhenFull
<1>4. OpenedWithinLimit'
  <2>1. Cardinality(opened) \in Nat
    BY Countable DEF IInv, TypeOK
  <2>2. Cardinality(Running') = Cardinality(Running) - 1 /\ Cardinality(Running) \in Nat
    BY <1>1, ReservationsReturn
  <2>3. Cardinality(opened) + Cardinality(Running) <= Limit
    BY DEF IInv, OpenedWithinLimit
  <2> QED BY <1>1, <2>1, <2>2, <2>3, LimitAssumption DEF OpenedWithinLimit
<1> QED BY <1>1, <1>2, <1>3, <1>4, ReservationsReturn DEF IInv

\* A cancelled open stays counted, in the queue.
LEMMA OpenDroppedKeeps == ASSUME IInv, NEW c \in Opens, OpenDropped(c) PROVE IInv'
<1>1. /\ phase[c] = "running" /\ phase' = [phase EXCEPT ![c] = "dropped"]
      /\ queue' = queue \cup {c}
      /\ UNCHANGED <<live, pending, table, opened, trapped, refused>>
  BY DEF OpenDropped
<1>2. /\ Running' = Running \ {c} /\ c \in Running /\ Running \subseteq Opens
      /\ c \notin queue /\ queue \subseteq Opens
  BY <1>1 DEF Running, IInv, TypeOK, QueueIsDropped
<1>3. Cardinality(Running') = Cardinality(Running) - 1
  BY <1>2, OneLess
<1>4. Cardinality(queue') = Cardinality(queue) + 1
  BY <1>1, <1>2, OneMore
<1>5. Cardinality(Running) \in Nat /\ Cardinality(queue) \in Nat
  BY DeliveredIsRunning
<1>6. ReservationsOwned'
  <2>1. Cardinality(Running') + Cardinality(queue') = Cardinality(Running) + Cardinality(queue)
    BY <1>3, <1>4, <1>5
  <2> QED BY <1>1, <2>1 DEF IInv, ReservationsOwned
<1>7. OpenedWithinLimit'
  <2>1. Cardinality(opened) \in Nat
    BY Countable DEF IInv, TypeOK
  <2> QED BY <1>1, <1>3, <1>5, <2>1, LimitAssumption DEF IInv, OpenedWithinLimit
<1>8. TypeOK' /\ QueueIsDropped'
  BY <1>1 DEF IInv, TypeOK, QueueIsDropped
<1>9. LiveIsTable' /\ (Layers = 1 => RefusedWhenFull')
  BY <1>1 DEF IInv, LiveIsTable, RefusedWhenFull
<1> QED BY <1>6, <1>7, <1>8, <1>9 DEF IInv

\* Every step keeps the invariant.
LEMMA Inductive == IInv /\ [Next]_vars => IInv'
<1> SUFFICES ASSUME IInv, [Next]_vars PROVE IInv'
  OBVIOUS
<1>1. CASE OtherCall \/ GetDirectoriesRefused
  BY <1>1, OtherCallKeeps
<1>2. CASE \E new \in SUBSET Reps : GetDirectories(new)
  BY <1>2, GetDirectoriesKeeps
<1>3. CASE \E r \in Reps : DropDescriptor(r) \/ DropRefused(r)
  BY <1>3, DropKeeps
<1>4. CASE \E c \in Opens : OpenRefused(c) \/ OpenRefusedInside(c)
  BY <1>4, OpenRefusedKeeps
<1>5. CASE \E c \in Opens : OpenBegins(c)
  BY <1>5, OpenBeginsKeeps
<1>6. CASE \E c \in Opens : \E r \in Reps : OpenReturns(c, r)
  BY <1>6, OpenReturnsKeeps
<1>7. CASE \E c \in Opens : OpenFails(c)
  BY <1>7, OpenFailsKeeps
<1>8. CASE \E c \in Opens : OpenDropped(c)
  BY <1>8, OpenDroppedKeeps
<1>9. CASE UNCHANGED vars
  <2>1. Running' = Running
    BY <1>9 DEF vars, Running
  <2> QED BY <1>9, <2>1 DEF vars, IInv, TypeOK, QueueIsDropped, ReservationsOwned,
                            LiveIsTable, OpenedWithinLimit, RefusedWhenFull
<1> QED BY <1>1, <1>2, <1>3, <1>4, <1>5, <1>6, <1>7, <1>8, <1>9 DEF Next

-----------------------------------------------------------------------------
(* The theorems                                                            *)

\* The layer's invariant holds always.
LEMMA Invariance == Spec => []IInv
BY Initial, Inductive, PTL DEF Spec

\* Every variable keeps its type, and no more is reserved than the limit.
THEOREM Typing == Spec => []TypeOK
<1>1. IInv => TypeOK
  BY DEF IInv
<1> QED BY <1>1, Invariance, PTL

\* Reservations are exactly those of opens in progress and of cancelled ones
\* the layer has yet to hear of, one for each layer that shares the state.
THEOREM ReservationsAreOwned == Spec => []ReservationsOwned
<1>1. IInv => ReservationsOwned
  BY DEF IInv
<1> QED BY <1>1, Invariance, PTL

\* The layer's live descriptors are those of the table, although their
\* representations are reused.
THEOREM LiveMatchesTable == Spec => []LiveIsTable
<1>1. IInv => LiveIsTable
  BY DEF IInv
<1> QED BY <1>1, Invariance, PTL

\* What the guest opened, and is opening, stays within the limit.
THEOREM LimitIsKept == Spec => []OpenedWithinLimit
<1>1. IInv => OpenedWithinLimit
  BY DEF IInv
<1> QED BY <1>1, Invariance, PTL

\* A chain with one such layer refuses an open only at the limit.
THEOREM OneLayerRefusesAtLimit == Layers = 1 => (Spec => []RefusedWhenFull)
<1> SUFFICES ASSUME Layers = 1 PROVE Spec => []RefusedWhenFull
  OBVIOUS
<1>1. IInv => RefusedWhenFull
  BY DEF IInv
<1> QED BY <1>1, Invariance, PTL
=============================================================================
