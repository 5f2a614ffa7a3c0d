----------------------------- MODULE OpenFiles -----------------------------
(***************************************************************************)
(* The OpenFiles layer (open_files.rs) of one store, with the guest's      *)
(* filesystem calls around it.  The chain keeps the store from the before  *)
(* hooks of a synchronous call to its after hooks, and from the delivery   *)
(* of cancellations to the before hooks of an asynchronous one (Chain.tla) *)
(* so that each of those is one step here.  Other layers inside this one   *)
(* may refuse what it allowed.  Layers of this kind in one chain share the *)
(* state, which is found by its type.                                      *)
(***************************************************************************)
EXTENDS Naturals, FiniteSets

CONSTANTS
  Opens,      \* the open-at calls made (bounds the behaviours)
  Reps,       \* the representations the resource table can give out
  Limit,      \* OpenFiles::new(limit)
  Layers,     \* the OpenFiles layers in the chain, all with that limit
  Preopens    \* descriptors get-directories produces

ASSUME FiniteAssumption == IsFiniteSet(Opens) /\ IsFiniteSet(Reps)
ASSUME LimitAssumption == Limit \in Nat /\ Preopens \in Nat /\ Layers \in Nat \ {0}

VARIABLES
  live, pending,  \* OpenFileState
  phase,          \* phase[c]: "new", "running", "dropped", "done"
  queue,          \* the dropped opens whose after hooks have not run
  table,          \* the descriptors in the store's resource table
  opened,         \* those of them an open-at produced
  trapped,        \* a call the guest cannot be told about was refused
  refused         \* history: descriptors and opens there were at a refusal

vars == <<live, pending, phase, queue, table, opened, trapped, refused>>

Running == {c \in Opens : phase[c] = "running"}

Init ==
  /\ live = {} /\ pending = 0
  /\ phase = [c \in Opens |-> "new"]
  /\ queue = {}
  /\ table = {} /\ opened = {}
  /\ trapped = FALSE
  /\ refused = Limit

SaturatingSub(m, n) == IF m > n THEN m - n ELSE 0

\* Each layer reserves a slot of its own, and gives one back.
Reserve(p) == p + Layers
Release(p) == SaturatingSub(p, Layers)

\* Variant: a cancelled open keeps its reservation.
Reserved == pending

\* deliver_cancellations at the start of a dispatch: each cancelled open gives
\* its reservation back.
Delivered == SaturatingSub(pending, Layers * Cardinality(queue))

\* A dispatch of the guest begins with p reservations left.
Dispatch(p) == ~trapped /\ queue' = {} /\ pending' = p

-----------------------------------------------------------------------------

\* A call this layer has no interest in, or the return of an export.
OtherCall ==
  /\ Dispatch(Delivered)
  /\ UNCHANGED <<live, phase, table, opened, trapped, refused>>

\* get-directories gives the guest new descriptors of the preopened ones.
GetDirectories(new) ==
  /\ Dispatch(Delivered)
  /\ Cardinality(new) = Preopens /\ new \cap table = {}
  /\ table' = table \cup new
  /\ live' = live \cup new
  /\ UNCHANGED <<phase, opened, trapped, refused>>

GetDirectoriesRefused ==
  /\ Dispatch(Delivered)
  /\ trapped' = TRUE
  /\ UNCHANGED <<live, phase, table, opened, refused>>

\* Variant: one descriptor too many.
FullOffByOne(p) == Cardinality(live) + p + (Layers - 1) > Limit

\* The innermost layer counts what those around it reserved.
Full(p) == Cardinality(live) + p + (Layers - 1) >= Limit

OpenRefused(c) ==
  /\ phase[c] = "new" /\ Full(Delivered)
  /\ Dispatch(Delivered)
  /\ phase' = [phase EXCEPT ![c] = "done"]
  /\ refused' = Cardinality(table) + Cardinality(Running)
  /\ UNCHANGED <<live, table, opened, trapped>>

\* The slot is reserved and the body starts, a p2 one to end at once.
OpenBegins(c) ==
  /\ phase[c] = "new" /\ ~Full(Delivered)
  /\ Dispatch(Reserve(Delivered))
  /\ phase' = [phase EXCEPT ![c] = "running"]
  /\ UNCHANGED <<live, table, opened, trapped, refused>>

\* An inner layer refuses: the slot is reserved and given back.
OpenRefusedInside(c) ==
  /\ phase[c] = "new" /\ ~Full(Delivered)
  /\ Dispatch(Release(Reserve(Delivered)))
  /\ phase' = [phase EXCEPT ![c] = "done"]
  /\ UNCHANGED <<live, table, opened, trapped, refused>>

\* The body has put r in the table; the after hook moves the reservation.
OpenReturns(c, r) ==
  /\ phase[c] = "running" /\ ~trapped /\ r \notin table
  /\ phase' = [phase EXCEPT ![c] = "done"]
  /\ pending' = Release(pending)
  /\ table' = table \cup {r} /\ opened' = opened \cup {r}
  /\ live' = live \cup {r}
  /\ UNCHANGED <<queue, trapped, refused>>

\* Variant: the reservation of a failed open stays.
OpenFailsReserved(c) ==
  /\ phase[c] = "running" /\ ~trapped
  /\ phase' = [phase EXCEPT ![c] = "done"]
  /\ UNCHANGED <<live, pending, queue, table, opened, trapped, refused>>

OpenFails(c) ==
  /\ phase[c] = "running" /\ ~trapped
  /\ phase' = [phase EXCEPT ![c] = "done"]
  /\ pending' = Release(pending)
  /\ UNCHANGED <<live, queue, table, opened, trapped, refused>>

\* The guest cancels its open, or the host abandons it.
OpenDropped(c) ==
  /\ phase[c] = "running"
  /\ phase' = [phase EXCEPT ![c] = "dropped"]
  /\ queue' = queue \cup {c}
  /\ UNCHANGED <<live, pending, table, opened, trapped, refused>>

\* Variant: the drop of a descriptor is not counted.
DropUncounted(r) ==
  /\ r \in table
  /\ Dispatch(Delivered)
  /\ table' = table \ {r} /\ opened' = opened \ {r}
  /\ UNCHANGED <<live, phase, trapped, refused>>

DropDescriptor(r) ==
  /\ r \in table
  /\ Dispatch(Delivered)
  /\ live' = live \ {r}
  /\ table' = table \ {r} /\ opened' = opened \ {r}
  /\ UNCHANGED <<phase, trapped, refused>>

\* An inner layer refuses the drop, or it fails: the guest traps.
DropRefused(r) ==
  /\ r \in table
  /\ Dispatch(Delivered)
  /\ live' = live \ {r}
  /\ trapped' = TRUE
  /\ UNCHANGED <<phase, table, opened, refused>>

Next ==
  \/ OtherCall \/ GetDirectoriesRefused
  \/ \E new \in SUBSET Reps : GetDirectories(new)
  \/ \E r \in Reps : DropDescriptor(r) \/ DropRefused(r)
  \/ \E c \in Opens :
       \/ OpenRefused(c) \/ OpenBegins(c) \/ OpenRefusedInside(c)
       \/ OpenFails(c) \/ OpenDropped(c)
       \/ \E r \in Reps : OpenReturns(c, r)

Spec == Init /\ [][Next]_vars

-----------------------------------------------------------------------------
(* Properties                                                              *)

TypeOK ==
  /\ live \subseteq Reps /\ table \subseteq Reps /\ opened \subseteq table
  /\ pending \in 0..Limit
  /\ phase \in [Opens -> {"new", "running", "dropped", "done"}]
  /\ queue \subseteq Opens
  /\ trapped \in BOOLEAN
  /\ refused \in Nat

\* Every reservation belongs to an open in progress or to a cancelled one the
\* layer has not heard of yet: none is lost or given back twice.
ReservationsOwned == pending = Layers * (Cardinality(Running) + Cardinality(queue))

\* The layer's set is the table's, although reps are reused and every kind of
\* call that moves descriptors has its own hook.
LiveIsTable == ~trapped => live = table

\* What the guest opened and may yet obtain from an open in progress stays
\* within the limit, whatever order opens, drops and cancellations take.
OpenedWithinLimit == Cardinality(opened) + Cardinality(Running) <= Limit

\* An open is refused only when the limit is really reached: descriptors
\* dropped and opens cancelled before it do not count ("refuses open-at once
\* limit descriptors are live or reserved by calls in progress").
RefusedWhenFull == refused >= Limit

\* The number of live descriptors is limited, preopened directories included
\* (the documentation of OpenFiles).
AllWithinLimit == Cardinality(table) <= Limit
=============================================================================
