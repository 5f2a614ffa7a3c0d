------------------------------- MODULE Chain -------------------------------
(***************************************************************************)
(* One store's middleware chain: the synchronous dispatches of chain.rs,   *)
(* the asynchronous ones of async_dispatch.rs and the queue of             *)
(* cancellations they share.  A step is one hook of one layer, or one      *)
(* decision of the code between two hooks, so that a future dropped by     *)
(* another thread can fall between any two of them.                        *)
(*                                                                         *)
(* The store's data is lent to one dispatch at a time.  `stack' holds the  *)
(* dispatches that have it: a dispatch nested in an export's body is above *)
(* the export.  A call is named by the identifier next_id gave it.         *)
(***************************************************************************)
EXTENDS Naturals, SequencesExt

CONSTANTS
  Calls,    \* the calls made through the chain (bounds the behaviours)
  Kinds,    \* the kinds of dispatch in use, a subset of AllKinds
  NLayers   \* number of layers in the chain, outermost first

(* import:   dispatch and dispatch_access, holding the store throughout    *)
(* export:   dispatch_export, whose body may dispatch further calls        *)
(* async:    dispatch_async and dispatch_access_async over an Accessor,    *)
(*           which give the store back while their body is pending         *)
(* borrowed: dispatch_state_async, which keeps it                          *)
AllKinds == {"import", "export", "async", "borrowed"}

ASSUME KindsAssumption == Kinds \subseteq AllKinds
ASSUME LayersAssumption == NLayers \in Nat

VARIABLES
  kind,     \* kind[c]: how call c was dispatched
  phase,    \* phase[c]: where the code running call c is
  frames,   \* frames[c]: the Vec of frames not yet consumed by an after hook
  outcome,  \* outcome[c]: the outcome computed for the call
  stack,    \* the dispatches lending themselves the store, innermost last
  queue,    \* CancellationQueue: the calls pushed and not yet taken
  batch,    \* the cancellations taken and not yet delivered
  alive,    \* the store has not been dropped
  view,     \* history: what each layer has been told of each call
  ran,      \* history: the calls whose body has started
  drops,    \* history: the calls cancelled so far, in order
  owed      \* history: owed[c], the cancellations c found in the queue

code == <<kind, phase, frames, outcome, stack, queue, batch, alive>>
vars == <<code, view, ran, drops, owed>>

Layers == 1..NLayers

Phases == {"new", "delivering", "before", "body", "finishing", "after",
           "draining", "done", "dropped"}

Outcomes == {"returned", "failed", "cancelled"}

Init ==
  /\ kind = [c \in Calls |-> "none"]
  /\ phase = [c \in Calls |-> "new"]
  /\ frames = [c \in Calls |-> <<>>]
  /\ outcome = [c \in Calls |-> "none"]
  /\ stack = <<>> /\ queue = <<>> /\ batch = <<>>
  /\ alive = TRUE
  /\ view = [c \in Calls |-> [l \in Layers |-> "none"]]
  /\ ran = {}
  /\ drops = <<>>
  /\ owed = [c \in Calls |-> {}]

-----------------------------------------------------------------------------
(* Who has the store                                                       *)

Holds(c) == stack # <<>> /\ Last(stack) = c

\* A dispatch may begin: nobody has the store, or an export's body lends it.
Free ==
  /\ alive
  /\ stack # <<>> => kind[Last(stack)] = "export" /\ phase[Last(stack)] = "body"

Exclusive(c) == kind[c] # "async"

\* Variant: frames are consumed in the order they were pushed.
OutermostFirst(c) == Head(frames[c])

Innermost(c) == Last(frames[c])

-----------------------------------------------------------------------------
(* The beginning of a dispatch                                             *)

\* The dispatch gets the store and takes every queued cancellation.
Start(c, k) ==
  /\ phase[c] = "new" /\ Free
  /\ kind' = [kind EXCEPT ![c] = k]
  /\ phase' = [phase EXCEPT ![c] = "delivering"]
  /\ stack' = Append(stack, c)
  /\ batch' = queue
  /\ queue' = <<>>
  /\ owed' = [owed EXCEPT ![c] = ToSet(queue)]
  /\ UNCHANGED <<frames, outcome, alive, view, ran, drops>>

\* One after hook of the first cancellation taken.
DeliverHook(c) ==
  /\ phase[c] \in {"delivering", "draining"} /\ Holds(c)
  /\ batch # <<>> /\ frames[Head(batch)] # <<>>
  /\ LET d == Head(batch) IN
       /\ view' = [view EXCEPT ![d][Innermost(d)] = "cancelled"]
       /\ frames' = [frames EXCEPT ![d] = Front(@)]
  /\ UNCHANGED <<kind, phase, outcome, stack, queue, batch, alive, ran, drops, owed>>

\* The loop of deliver_cancellations moves on to the next cancellation.
DeliverNext(c) ==
  /\ phase[c] \in {"delivering", "draining"} /\ Holds(c)
  /\ batch # <<>> /\ frames[Head(batch)] = <<>>
  /\ batch' = Tail(batch)
  /\ UNCHANGED <<kind, phase, frames, outcome, stack, queue, alive, view, ran, drops, owed>>

\* Variant: the chain asks its layers before the delivery is over.
AskEarly(c) ==
  /\ phase[c] = "delivering" /\ Holds(c)
  /\ phase' = [phase EXCEPT ![c] = "before"]
  /\ UNCHANGED <<kind, frames, outcome, stack, queue, batch, alive, view, ran, drops, owed>>

\* Everything taken has been delivered and the chain turns to its own call.
Ask(c) ==
  /\ phase[c] = "delivering" /\ Holds(c) /\ batch = <<>>
  /\ phase' = [phase EXCEPT ![c] = "before"]
  /\ UNCHANGED <<kind, frames, outcome, stack, queue, batch, alive, view, ran, drops, owed>>

\* Variant: the frame of the layer after the one that allowed is kept.
AllowHookOffByOne(c) ==
  /\ phase[c] = "before" /\ Holds(c) /\ Len(frames[c]) < NLayers
  /\ LET l == Len(frames[c]) + 1 IN
       /\ frames' = [frames EXCEPT ![c] = Append(@, l + 1)]
       /\ view' = [view EXCEPT ![c][l] = "open"]
  /\ UNCHANGED <<kind, phase, outcome, stack, queue, batch, alive, ran, drops, owed>>

\* The next layer inwards allows the call and its frame is kept.
AllowHook(c) ==
  /\ phase[c] = "before" /\ Holds(c) /\ Len(frames[c]) < NLayers
  /\ LET l == Len(frames[c]) + 1 IN
       /\ frames' = [frames EXCEPT ![c] = Append(@, l)]
       /\ view' = [view EXCEPT ![c][l] = "open"]
  /\ UNCHANGED <<kind, phase, outcome, stack, queue, batch, alive, ran, drops, owed>>

\* The store goes back unless the dispatch keeps it through its body.
Release(c) == stack' = IF Exclusive(c) THEN stack ELSE Front(stack)

\* The next layer inwards refuses: the error is the call's result.
RefuseHook(c) ==
  /\ phase[c] = "before" /\ Holds(c) /\ Len(frames[c]) < NLayers
  /\ view' = [view EXCEPT ![c][Len(frames[c]) + 1] = "refused"]
  /\ outcome' = [outcome EXCEPT ![c] = "failed"]
  /\ phase' = [phase EXCEPT ![c] = IF Exclusive(c) THEN "after" ELSE "finishing"]
  /\ Release(c)
  /\ UNCHANGED <<kind, frames, queue, batch, alive, ran, drops, owed>>

\* Every layer allowed the call and its body starts.
EnterBody(c) ==
  /\ phase[c] = "before" /\ Holds(c) /\ Len(frames[c]) = NLayers
  /\ phase' = [phase EXCEPT ![c] = "body"]
  /\ ran' = ran \cup {c}
  /\ Release(c)
  /\ UNCHANGED <<kind, frames, outcome, queue, batch, alive, view, drops, owed>>

-----------------------------------------------------------------------------
(* The end of a dispatch                                                   *)

\* The body returns.  An asynchronous one must get the store again first.
EndBody(c, o) ==
  /\ phase[c] = "body" /\ alive
  /\ Exclusive(c) => Holds(c)
  /\ outcome' = [outcome EXCEPT ![c] = o]
  /\ phase' = [phase EXCEPT ![c] = IF Exclusive(c) THEN "after" ELSE "finishing"]
  /\ UNCHANGED <<kind, frames, stack, queue, batch, alive, view, ran, drops, owed>>

\* finish_async_dispatch gets the store for the after hooks.
Finish(c) ==
  /\ phase[c] = "finishing" /\ Free
  /\ phase' = [phase EXCEPT ![c] = "after"]
  /\ stack' = Append(stack, c)
  /\ UNCHANGED <<kind, frames, outcome, queue, batch, alive, view, ran, drops, owed>>

\* Variant: a refused call is reported as one that returned.
AfterHookReturned(c) ==
  /\ phase[c] = "after" /\ Holds(c) /\ frames[c] # <<>>
  /\ view' = [view EXCEPT ![c][Innermost(c)] = "returned"]
  /\ frames' = [frames EXCEPT ![c] = Front(@)]
  /\ UNCHANGED <<kind, phase, outcome, stack, queue, batch, alive, ran, drops, owed>>

\* The innermost layer still holding a frame is told the outcome.
AfterHook(c) ==
  /\ phase[c] = "after" /\ Holds(c) /\ frames[c] # <<>>
  /\ view' = [view EXCEPT ![c][Innermost(c)] = outcome[c]]
  /\ frames' = [frames EXCEPT ![c] = Front(@)]
  /\ UNCHANGED <<kind, phase, outcome, stack, queue, batch, alive, ran, drops, owed>>

\* Variant: an error leaves the dispatch before the after hooks ran.
ReturnEarly(c) ==
  /\ phase[c] = "after" /\ Holds(c) /\ kind[c] # "export"
  /\ frames[c] = <<>> \/ outcome[c] = "failed"
  /\ phase' = [phase EXCEPT ![c] = "done"]
  /\ stack' = Front(stack)
  /\ UNCHANGED <<kind, frames, outcome, queue, batch, alive, view, ran, drops, owed>>

\* All told, the result goes to the caller and the store goes back.
Return(c) ==
  /\ phase[c] = "after" /\ Holds(c) /\ frames[c] = <<>> /\ kind[c] # "export"
  /\ phase' = [phase EXCEPT ![c] = "done"]
  /\ stack' = Front(stack)
  /\ UNCHANGED <<kind, frames, outcome, queue, batch, alive, view, ran, drops, owed>>

\* Variant: an export leaves the queue to the next dispatch, if there is one.
DrainNothing(c) ==
  /\ phase[c] = "after" /\ Holds(c) /\ frames[c] = <<>> /\ kind[c] = "export"
  /\ phase' = [phase EXCEPT ![c] = "draining"]
  /\ UNCHANGED <<kind, frames, outcome, stack, queue, batch, alive, view, ran, drops, owed>>

\* An export takes what was queued while its guest ran ...
Drain(c) ==
  /\ phase[c] = "after" /\ Holds(c) /\ frames[c] = <<>> /\ kind[c] = "export"
  /\ phase' = [phase EXCEPT ![c] = "draining"]
  /\ batch' = queue
  /\ queue' = <<>>
  /\ owed' = [owed EXCEPT ![c] = @ \cup ToSet(queue)]
  /\ UNCHANGED <<kind, frames, outcome, stack, alive, view, ran, drops>>

\* ... and returns once it has delivered it.
ReturnDrained(c) ==
  /\ phase[c] = "draining" /\ Holds(c) /\ batch = <<>>
  /\ phase' = [phase EXCEPT ![c] = "done"]
  /\ stack' = Front(stack)
  /\ UNCHANGED <<kind, frames, outcome, queue, batch, alive, view, ran, drops, owed>>

-----------------------------------------------------------------------------
(* Futures and stores dropped                                              *)

\* Variant: the queue is used as a stack.
DropFutureInFront(c) ==
  /\ phase[c] = "body"
  /\ \/ kind[c] = "async" /\ UNCHANGED stack
     \/ kind[c] = "borrowed" /\ Holds(c) /\ stack' = Front(stack)
  /\ phase' = [phase EXCEPT ![c] = "dropped"]
  /\ outcome' = [outcome EXCEPT ![c] = "cancelled"]
  /\ queue' = <<c>> \o queue
  /\ drops' = Append(drops, c)
  /\ UNCHANGED <<kind, frames, batch, alive, view, ran, owed>>

\* A pending future is dropped: its guard queues the frames it still has.
\* Only the queue's own mutex is needed, so any thread may do it at any time.
DropFuture(c) ==
  /\ phase[c] = "body"
  /\ \/ kind[c] = "async" /\ UNCHANGED stack
     \/ kind[c] = "borrowed" /\ Holds(c) /\ stack' = Front(stack)
  /\ phase' = [phase EXCEPT ![c] = "dropped"]
  /\ outcome' = [outcome EXCEPT ![c] = "cancelled"]
  /\ queue' = Append(queue, c)
  /\ drops' = Append(drops, c)
  /\ UNCHANGED <<kind, frames, batch, alive, view, ran, owed>>

\* The store goes while no dispatch has it.  An ended body reaches its after
\* hooks without another await, so no call can be in "finishing".
DropStore ==
  /\ alive /\ stack = <<>>
  /\ \A c \in Calls : phase[c] # "finishing"
  /\ alive' = FALSE
  /\ UNCHANGED <<kind, phase, frames, outcome, stack, queue, batch, view, ran, drops, owed>>

\* Nothing is left to run.
Rest ==
  /\ stack = <<>>
  /\ \A c \in Calls : phase[c] \in {"done", "dropped"} \/ (phase[c] = "new" /\ ~alive)
  /\ UNCHANGED vars

-----------------------------------------------------------------------------

\* The steps of the dispatch that has the store, other than its body's.
Hook(c) ==
  \/ DeliverHook(c) \/ DeliverNext(c) \/ Ask(c)
  \/ AllowHook(c) \/ RefuseHook(c) \/ EnterBody(c)
  \/ AfterHook(c) \/ Return(c) \/ Drain(c) \/ ReturnDrained(c)

Ended(c) == EndBody(c, "returned") \/ EndBody(c, "failed")

Next ==
  \/ \E c \in Calls :
       \/ \E k \in Kinds : Start(c, k)
       \/ Hook(c) \/ Ended(c) \/ Finish(c) \/ DropFuture(c)
  \/ DropStore
  \/ Rest

Spec == Init /\ [][Next]_vars

(* Hooks are ordinary synchronous code and terminate; so do bodies that    *)
(* keep the store, or the future that runs them is dropped.  A pending     *)
(* asynchronous body may stay pending for ever.                            *)
Fairness ==
  \A c \in Calls :
    /\ WF_vars(Hook(c))
    /\ WF_vars(Finish(c))
    /\ WF_vars(Exclusive(c) /\ (Ended(c) \/ DropFuture(c)))

FairSpec == Spec /\ Fairness

-----------------------------------------------------------------------------
(* Properties                                                              *)

TypeOK ==
  /\ kind \in [Calls -> AllKinds \cup {"none"}]
  /\ phase \in [Calls -> Phases]
  /\ frames \in [Calls -> Seq(Layers)]
  /\ outcome \in [Calls -> Outcomes \cup {"none"}]
  /\ stack \in Seq(Calls) /\ queue \in Seq(Calls) /\ batch \in Seq(Calls)
  /\ alive \in BOOLEAN
  /\ view \in [Calls -> [Layers -> Outcomes \cup {"none", "open", "refused"}]]
  /\ ran \subseteq Calls
  /\ drops \in Seq(Calls)
  /\ owed \in [Calls -> SUBSET Calls]

\* Frames and layers agree in every state, whichever of dispatch, guard,
\* queue and delivery has the frames: they are those of the layers that
\* allowed the call and were not told of its end, outermost first.
FramesAreOpenLayers ==
  \A c \in Calls :
    /\ \A i \in DOMAIN frames[c] : frames[c][i] = i
    /\ \A l \in Layers : (view[c][l] = "open") <=> (l \in DOMAIN frames[c])

\* A call whose result has gone to the caller has told every layer; frames
\* outlive their dispatch only in the hands of a dropped future.
ReturnedIsClosed ==
  \A c \in Calls : phase[c] = "done" => frames[c] = <<>>

\* No cancellation is lost, duplicated or overtaken: those pushed are the
\* ones delivered, then the ones taken, then the ones queued, and only the
\* first of the taken ones may be half told.
DropsAccounted ==
  \E k \in 0..Len(drops) :
    /\ SubSeq(drops, k + 1, Len(drops)) = batch \o queue
    /\ \A i \in 1..k : frames[drops[i]] = <<>>
    /\ \A i \in (k + 1)..Len(drops) :
         (batch = <<>> \/ i > k + 1) => Len(frames[drops[i]]) = NLayers

\* The layers hear of every cancellation a dispatch found queued before they
\* hear of that dispatch's own call, and an export returns only once they
\* heard of those it found at its end (dispatch_async's documentation).
CancelledBeforeNextCall ==
  \A c \in Calls :
    phase[c] \notin {"delivering", "draining"} =>
      \A d \in owed[c] : frames[d] = <<>>

\* Each call is bracketed as the Layer contract promises.
Bracket == INSTANCE CallBracket
BracketSpec == Bracket!Spec

\* While an export's body runs, a cancellation cannot stay queued for ever:
\* another dispatch, or the export's own return, delivers it.
DroppedDuringExportIsTold ==
  \A c, e \in Calls :
    (c # e /\ phase[c] = "dropped" /\ phase[e] = "body" /\ kind[e] = "export")
      ~> (frames[c] = <<>>)
=============================================================================
