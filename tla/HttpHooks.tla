------------------------------ MODULE HttpHooks ------------------------------
(***************************************************************************)
(* Outgoing HTTP requests between two chains: the store's chain, around    *)
(* the guest's call of handle (Preview 2) or send (Preview 3), and the     *)
(* chain of WasiHttpHooks, around the complete request.  The hook's policy *)
(* state and its delegate are each behind a mutex; requests of Preview 2   *)
(* run in tasks of their own, on any thread.                               *)
(*                                                                         *)
(* Each chain stands as one layer (Chain has the layers of a chain).       *)
(***************************************************************************)
EXTENDS Naturals

CONSTANTS
  Requests,  \* the requests guests may make
  Preview    \* the preview each is made through: 2, or 3

ASSUME PreviewAssumption == Preview \in [Requests -> {2, 3}]

VARIABLES
  store,     \* what the store's chain knows of each call
  told,      \* what the hook's chain knows of each request
  at,        \* where the code that runs each request is
  outcome,   \* how each request ended for the hook's chain
  queue,     \* the hook's queue of cancellations
  batch,     \* the cancellations taken and not yet delivered
  policy,    \* who holds the lock of the policy state
  delegate,  \* who holds the lock of the delegate
  poisoned,  \* a hook panicked under the lock of the policy state
  sent       \* history: the requests given to the delegate

vars == <<store, told, at, outcome, queue, batch, policy, delegate, poisoned, sent>>

\* Neither a request nor the store.
Nobody == "nobody"
Host == "host"
ASSUME HoldersAssumption == Nobody \notin Requests /\ Host \notin Requests

Places == {"new", "preparing", "unsent", "prepared", "before", "allowed", "denied", "sending",
           "flying", "answered", "after", "done", "dropped", "panicked"}

Init ==
  /\ store = [r \in Requests |-> "none"]
  /\ told = [r \in Requests |-> "none"]
  /\ at = [r \in Requests |-> "new"]
  /\ outcome = [r \in Requests |-> "none"]
  /\ queue = {} /\ batch = {}
  /\ policy = Nobody /\ delegate = Nobody
  /\ poisoned = FALSE
  /\ sent = {}

Go(r, place) == at' = [at EXCEPT ![r] = place]

-----------------------------------------------------------------------------
(* The store's chain                                                       *)

StoreAllows(r) ==
  /\ at[r] = "new" /\ store[r] = "none"
  /\ store' = [store EXCEPT ![r] = "open"]
  /\ Go(r, "preparing")
  /\ UNCHANGED <<told, outcome, queue, batch, policy, delegate, poisoned, sent>>

StoreRefuses(r) ==
  /\ at[r] = "new" /\ store[r] = "none"
  /\ store' = [store EXCEPT ![r] = "refused"]
  /\ UNCHANGED <<told, at, outcome, queue, batch, policy, delegate, poisoned, sent>>

\* The guest's request is not one that can be sent (no scheme, no valid URI,
\* or a wrong length): the call fails, and the hook is never asked.
RequestFails(r) ==
  /\ at[r] = "preparing"
  /\ store' = [store EXCEPT ![r] = "failed"]
  /\ Go(r, "unsent")
  /\ UNCHANGED <<told, outcome, queue, batch, policy, delegate, poisoned, sent>>

\* Preview 2: handle returns once its request has a task; it fails if the
\* table has no room for the future response, and the task is aborted.
HandleReturns(r) ==
  /\ Preview[r] = 2 /\ store[r] = "open" /\ at[r] \notin {"new", "preparing"}
  /\ \E o \in {"returned", "failed"} : store' = [store EXCEPT ![r] = o]
  /\ UNCHANGED <<told, at, outcome, queue, batch, policy, delegate, poisoned, sent>>

Aborted(r) == Preview[r] = 2 /\ store[r] = "failed"

\* Preview 3: send waits for the request; it may still fail when it puts the
\* response that the hook was told of into the table.
SendReturns(r) ==
  /\ Preview[r] = 3 /\ store[r] = "open" /\ at[r] = "done"
  /\ \E o \in {outcome[r], "failed"} : store' = [store EXCEPT ![r] = o]
  /\ UNCHANGED <<told, at, outcome, queue, batch, policy, delegate, poisoned, sent>>

-----------------------------------------------------------------------------
(* send_request                                                            *)

\* The synchronous part reads the chain under the lock.
ReadChain(r) ==
  /\ at[r] = "preparing" /\ policy = Nobody
  /\ Go(r, "prepared")
  /\ UNCHANGED <<store, told, outcome, queue, batch, policy, delegate, poisoned, sent>>

\* A poisoned lock is taken all the same.  Under the lock a dispatch first
\* takes the queue of cancellations.  A task aborted before it ran never runs.
LockPolicy(r) ==
  /\ policy = Nobody
  /\ \/ at[r] = "prepared" /\ ~Aborted(r) /\ Go(r, "before") /\ batch' = queue /\ queue' = {}
     \/ at[r] \in {"answered", "denied"} /\ Go(r, "after") /\ UNCHANGED <<batch, queue>>
  /\ policy' = r
  /\ UNCHANGED <<store, told, outcome, delegate, poisoned, sent>>

Deliver(r) ==
  /\ at[r] = "before"
  /\ \E q \in batch : batch' = batch \ {q} /\ told' = [told EXCEPT ![q] = "cancelled"]
  /\ UNCHANGED <<store, at, outcome, queue, policy, delegate, poisoned, sent>>

\* Variant: the cancellations taken are forgotten.
AllowUndelivered(r) ==
  /\ at[r] = "before"
  /\ told' = [told EXCEPT ![r] = "open"]
  /\ policy' = Nobody /\ batch' = {}
  /\ Go(r, "allowed")
  /\ UNCHANGED <<store, outcome, queue, delegate, poisoned, sent>>

\* Variant: the lock is kept until the request ends.
AllowHolding(r) ==
  /\ at[r] = "before" /\ batch = {}
  /\ told' = [told EXCEPT ![r] = "open"]
  /\ Go(r, "allowed")
  /\ UNCHANGED <<store, outcome, queue, batch, policy, delegate, poisoned, sent>>

Allow(r) ==
  /\ at[r] = "before" /\ batch = {}
  /\ told' = [told EXCEPT ![r] = "open"]
  /\ policy' = Nobody
  /\ Go(r, "allowed")
  /\ UNCHANGED <<store, outcome, queue, batch, delegate, poisoned, sent>>

\* Variant: a refused request goes on to the delegate.
DenyIgnored(r) ==
  /\ at[r] = "before" /\ batch = {}
  /\ told' = [told EXCEPT ![r] = "refused"]
  /\ policy' = Nobody
  /\ Go(r, "allowed")
  /\ UNCHANGED <<store, outcome, queue, batch, delegate, poisoned, sent>>

Deny(r) ==
  /\ at[r] = "before" /\ batch = {}
  /\ told' = [told EXCEPT ![r] = "refused"]
  /\ outcome' = [outcome EXCEPT ![r] = "failed"]
  /\ policy' = Nobody
  /\ Go(r, "denied")
  /\ UNCHANGED <<store, queue, batch, delegate, poisoned, sent>>

LockDelegate(r) ==
  /\ at[r] = "allowed" /\ delegate = Nobody
  /\ delegate' = r
  /\ Go(r, "sending")
  /\ UNCHANGED <<store, told, outcome, queue, batch, policy, poisoned, sent>>

\* Variant: the guard lives as long as the request.
SendHolding(r) ==
  /\ at[r] = "sending"
  /\ sent' = sent \cup {r}
  /\ Go(r, "flying")
  /\ UNCHANGED <<store, told, outcome, queue, batch, policy, delegate, poisoned>>

\* The guard is a temporary of the statement that makes the future.
Send(r) ==
  /\ at[r] = "sending"
  /\ sent' = sent \cup {r}
  /\ delegate' = Nobody
  /\ Go(r, "flying")
  /\ UNCHANGED <<store, told, outcome, queue, batch, policy, poisoned>>

Answer(r) ==
  /\ at[r] = "flying"
  /\ \E o \in {"returned", "failed"} : outcome' = [outcome EXCEPT ![r] = o]
  /\ Go(r, "answered")
  /\ UNCHANGED <<store, told, queue, batch, policy, delegate, poisoned, sent>>

\* Variant: the hook is told of an answer, whatever it was.
TellReturned(r) ==
  /\ at[r] = "after"
  /\ told' = [told EXCEPT ![r] = IF @ = "open" THEN "returned" ELSE @]
  /\ policy' = Nobody
  /\ Go(r, "done")
  /\ UNCHANGED <<store, outcome, queue, batch, delegate, poisoned, sent>>

\* Variant: a failure is passed on before the hook is told of it.
TellUnlessFailed(r) ==
  /\ at[r] = "after"
  /\ told' = [told EXCEPT ![r] = IF @ = "open" /\ outcome[r] = "returned" THEN "returned" ELSE @]
  /\ policy' = Nobody
  /\ Go(r, "done")
  /\ UNCHANGED <<store, outcome, queue, batch, delegate, poisoned, sent>>

\* Without a frame there is nobody to tell.
Tell(r) ==
  /\ at[r] = "after"
  /\ told' = [told EXCEPT ![r] = IF @ = "open" THEN outcome[r] ELSE @]
  /\ policy' = Nobody
  /\ Go(r, "done")
  /\ UNCHANGED <<store, outcome, queue, batch, delegate, poisoned, sent>>

-----------------------------------------------------------------------------
(* Requests dropped, hooks that panic, and the other users of the delegate *)

\* Variant: a future never polled is queued too.
DropUnstarted(r) ==
  /\ at[r] \in {"prepared", "flying"}
  /\ Go(r, "dropped")
  /\ queue' = queue \cup {r}
  /\ outcome' = [outcome EXCEPT ![r] = "cancelled"]
  /\ store' = IF Preview[r] = 3 THEN [store EXCEPT ![r] = "cancelled"] ELSE store
  /\ UNCHANGED <<told, batch, policy, delegate, poisoned, sent>>

\* A future is dropped between two polls: a task of Preview 2 with the
\* guest's future response or by its abort, a send of Preview 3 by its guest.
Drop(r) ==
  /\ Preview[r] = 2 => store[r] \in {"returned", "failed"}
  /\ \/ /\ at[r] = "prepared"
        /\ Go(r, "dropped")
        /\ UNCHANGED <<queue, outcome>>
     \/ /\ at[r] = "flying"
        /\ Go(r, "dropped")
        /\ queue' = queue \cup {r}
        /\ outcome' = [outcome EXCEPT ![r] = "cancelled"]
     \/ /\ at[r] = "done" /\ store[r] = "open"
        /\ UNCHANGED <<at, queue, outcome>>
  /\ store' = IF Preview[r] = 3 THEN [store EXCEPT ![r] = "cancelled"] ELSE store
  /\ UNCHANGED <<told, batch, policy, delegate, poisoned, sent>>

\* A hook panics in a task: the lock opens, poisoned, and what was taken of
\* the queue is lost with the task.
Panic(r) ==
  /\ Preview[r] = 2 /\ at[r] \in {"before", "after"}
  /\ batch' = {}
  /\ poisoned' = TRUE
  /\ policy' = Nobody
  /\ Go(r, "panicked")
  /\ UNCHANGED <<store, told, outcome, queue, delegate, sent>>

\* The forwarding methods, called by the host for any request.
ForwardBegins ==
  /\ delegate = Nobody
  /\ delegate' = Host
  /\ UNCHANGED <<store, told, at, outcome, queue, batch, policy, poisoned, sent>>

ForwardEnds ==
  /\ delegate = Host
  /\ delegate' = Nobody
  /\ UNCHANGED <<store, told, at, outcome, queue, batch, policy, poisoned, sent>>

Next ==
  \/ \E r \in Requests :
       \/ StoreAllows(r) \/ StoreRefuses(r) \/ RequestFails(r) \/ HandleReturns(r)
       \/ SendReturns(r) \/ ReadChain(r) \/ LockPolicy(r) \/ Deliver(r) \/ Allow(r) \/ Deny(r)
       \/ LockDelegate(r) \/ Send(r) \/ Answer(r) \/ Tell(r)
       \/ Drop(r) \/ Panic(r)
  \/ ForwardBegins \/ ForwardEnds

Spec == Init /\ [][Next]_vars

\* What the task of a request does next by itself, and what it waits for a
\* mutex to do.
Continue(r) ==
  HandleReturns(r) \/ SendReturns(r) \/ Deliver(r) \/ Allow(r) \/ Deny(r) \/ Send(r) \/ Tell(r)
Acquire(r) == ReadChain(r) \/ LockPolicy(r) \/ LockDelegate(r)

\* Code that runs goes on, a mutex that opens again and again is got in the
\* end, and an aborted task is dropped.  Nobody has to answer a request, to
\* make one, or to make one that can be sent.
Fairness ==
  /\ \A r \in Requests :
       WF_vars(Continue(r)) /\ SF_vars(Acquire(r)) /\ WF_vars(Aborted(r) /\ Drop(r))
  /\ WF_vars(ForwardEnds)

FairSpec == Spec /\ Fairness

-----------------------------------------------------------------------------
(* Properties                                                              *)

Known == {"none", "open", "refused", "returned", "failed", "cancelled"}

TypeOK ==
  /\ store \in [Requests -> Known]
  /\ told \in [Requests -> Known]
  /\ at \in [Requests -> Places]
  /\ outcome \in [Requests -> {"none", "returned", "failed", "cancelled"}]
  /\ queue \cup batch \subseteq {r \in Requests : told[r] = "open"}
  /\ policy \in Requests \cup {Nobody}
  /\ delegate \in Requests \cup {Nobody, Host}
  /\ poisoned \in BOOLEAN
  /\ sent \subseteq Requests

\* No request leaves the host unless both chains allowed it, whichever
\* requests run, fail or go beside it (send_request).
SentOnlyIfAllowed ==
  \A r \in sent : store[r] \notin {"none", "refused"} /\ told[r] \notin {"none", "refused"}

\* "The policy state and delegate are locked only while synchronous hooks
\* run; neither lock is held while an HTTP request is in flight" (lib.rs):
\* the holder of a lock is at a hook, and no request holds both.
LocksAreShort ==
  /\ policy # Nobody => at[policy] \in {"before", "after"}
  /\ delegate \in Requests => at[delegate] = "sending"

\* The chains are not correlated (lib.rs), but a send of Preview 3 is inside
\* its store's call: when the store's chain hears that a send ended, no layer
\* of the hook's chain is left with the request open; a send that returned had
\* returned there; and a request cancelled there is a send cancelled here.  A
\* send may fail that the hook was never asked about, or heard return.
SendEndsLast ==
  \A r \in Requests : Preview[r] = 3 =>
    /\ store[r] = "returned" => told[r] = "returned"
    /\ store[r] = "failed" => told[r] \notin {"open", "cancelled"}
    /\ told[r] = "cancelled" => store[r] = "cancelled"

\* "For Preview 2, the store chain's handle call returns before this hook
\* decides because Wasmtime sends the request from a spawned task" (lib.rs).
HandleReturnsFirst ==
  \A r \in Requests : Preview[r] = 2 /\ told[r] # "none" => store[r] # "open"

\* The hook's chain keeps the contract of its layers for requests that run at
\* the same time, are dropped or panic.
Bracket == INSTANCE CallBracket WITH
  Calls <- Requests, NLayers <- 1,
  view <- [r \in Requests |-> [l \in 1..1 |-> told[r]]],
  ran <- sent, outcome <- outcome
BracketSpec == Bracket!Spec

\* A request is sent or refused, or dropped by its guest, although the
\* requests before it may never be answered and a hook may have panicked.
EachIsDecided ==
  \A r \in Requests :
    at[r] = "prepared" ~> at[r] \in {"flying", "answered", "done", "dropped", "panicked"}

\* A request dropped in flight is told to its layers by the next one, if no
\* hook panics.
DroppedIsTold ==
  \A r, q \in Requests :
    (r \in queue /\ at[q] = "prepared")
      ~> (told[r] = "cancelled" \/ at[q] = "dropped" \/ poisoned)
=============================================================================
