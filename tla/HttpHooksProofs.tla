--------------------------- MODULE HttpHooksProofs ---------------------------
(***************************************************************************)
(* What HttpHooks guarantees for any set of requests, made through either  *)
(* preview: none leaves the host unless both chains allowed it, locks are  *)
(* short, a send ends for the store's chain after it has ended for the     *)
(* hook's, and the hook's chain implements the contract of layers.         *)
(***************************************************************************)
EXTENDS HttpHooks, TLAPS

\* What the hook's chain knows of a request and how it ended, wherever the
\* code that runs it is.
RequestShape(r) ==
  /\ at[r] = "new" <=> store[r] \in {"none", "refused"}
  /\ at[r] \in {"new", "preparing", "unsent", "prepared", "before"} =>
       told[r] = "none" /\ outcome[r] = "none" /\ r \notin sent
  /\ at[r] \in {"allowed", "sending"} =>
       told[r] = "open" /\ outcome[r] = "none" /\ r \notin sent
  /\ at[r] = "flying" => told[r] = "open" /\ outcome[r] = "none" /\ r \in sent
  /\ at[r] = "denied" => told[r] = "refused" /\ outcome[r] = "failed" /\ r \notin sent
  /\ at[r] = "answered" =>
       told[r] = "open" /\ outcome[r] \in {"returned", "failed"} /\ r \in sent
  /\ at[r] \in {"after", "done"} => outcome[r] \in {"returned", "failed"}
  /\ at[r] = "after" => told[r] = "open" \/ (told[r] = "refused" /\ outcome[r] = "failed")
  /\ at[r] = "done" => told[r] = outcome[r] \/ (told[r] = "refused" /\ outcome[r] = "failed")
  /\ at[r] = "dropped" => told[r] = "none" \/ outcome[r] = "cancelled"
  /\ r \in sent => told[r] \notin {"none", "refused"}

\* A cancellation in the queue or taken from it is of a request dropped in
\* flight.
CancelledShape(r) == r \in queue \cup batch => at[r] = "dropped" /\ outcome[r] = "cancelled"

\* The store's chain hears of a send of Preview 3 when the request is done, or
\* when it could not be sent.  Its hooks do not panic.
StoreShape(r) ==
  Preview[r] = 3 =>
    /\ store[r] = "returned" => at[r] = "done" /\ outcome[r] = "returned"
    /\ store[r] = "failed" => at[r] \in {"done", "unsent"}
    /\ at[r] = "dropped" => store[r] = "cancelled"
    /\ at[r] # "panicked"

\* What was taken from the queue is not in it.
TakenOnce == queue \cap batch = {}

IInv ==
  /\ TypeOK
  /\ TakenOnce
  /\ LocksAreShort
  /\ \A r \in Requests : RequestShape(r) /\ CancelledShape(r) /\ StoreShape(r)

-----------------------------------------------------------------------------
(* The invariant is inductive                                              *)

\* No request has been made at first.
LEMMA Initial == Init => IInv
<1> SUFFICES ASSUME Init PROVE IInv
  OBVIOUS
<1>1. TypeOK
  BY DEF Init, TypeOK, Known, Places
<1>2. LocksAreShort
  BY HoldersAssumption DEF Init, LocksAreShort
<1>3. \A r \in Requests : RequestShape(r) /\ CancelledShape(r) /\ StoreShape(r)
  BY DEF Init, RequestShape, CancelledShape, StoreShape
<1>4. TakenOnce
  BY DEF Init, TakenOnce
<1> QED BY <1>1, <1>2, <1>3, <1>4 DEF IInv

\* What a step of request r, or of the host, may do to another request: tell
\* its cancellation.
Apart(r) ==
  \A q \in Requests \ {r} :
    /\ at'[q] = at[q] /\ store'[q] = store[q] /\ outcome'[q] = outcome[q]
    /\ q \in sent' <=> q \in sent
    /\ told'[q] = told[q] \/ (at[q] = "dropped" /\ outcome[q] = "cancelled" /\ told'[q] = "cancelled")
    /\ q \in queue' \cup batch' => q \in queue \cup batch /\ told'[q] = told[q]

\* A step of a request.
Step(r) ==
  \/ StoreAllows(r) \/ StoreRefuses(r) \/ RequestFails(r) \/ HandleReturns(r)
  \/ SendReturns(r) \/ ReadChain(r) \/ LockPolicy(r) \/ Deliver(r) \/ Allow(r) \/ Deny(r)
  \/ LockDelegate(r) \/ Send(r) \/ Answer(r) \/ Tell(r)
  \/ Drop(r) \/ Panic(r)

\* The other requests keep their shape.
LEMMA ApartKeeps ==
  ASSUME IInv, NEW r \in Requests, Apart(r), NEW q \in Requests \ {r}
  PROVE  RequestShape(q)' /\ CancelledShape(q)' /\ StoreShape(q)'
<1>1. RequestShape(q) /\ CancelledShape(q) /\ StoreShape(q)
  BY DEF IInv
<1>2. /\ at'[q] = at[q] /\ store'[q] = store[q] /\ outcome'[q] = outcome[q]
      /\ q \in sent' <=> q \in sent
      /\ told'[q] = told[q] \/ (at[q] = "dropped" /\ outcome[q] = "cancelled" /\ told'[q] = "cancelled")
      /\ q \in queue' \cup batch' => q \in queue \cup batch
  BY DEF Apart
<1>3. RequestShape(q)'
  BY <1>1, <1>2 DEF RequestShape
<1>4. CancelledShape(q)'
  BY <1>1, <1>2 DEF CancelledShape
<1>5. StoreShape(q)'
  BY <1>1, <1>2 DEF StoreShape
<1> QED BY <1>3, <1>4, <1>5

\* Steps keep to their own request.
LEMMA StepsApart ==
  ASSUME IInv, NEW r \in Requests, Step(r)
  PROVE  Apart(r)
<1>1. TypeOK /\ TakenOnce /\ \A q \in Requests : RequestShape(q) /\ CancelledShape(q)
  BY DEF IInv
<1>2. CASE Deliver(r)
  <2>1. PICK d \in batch : batch' = batch \ {d} /\ told' = [told EXCEPT ![d] = "cancelled"]
    BY <1>2 DEF Deliver
  <2>2. UNCHANGED <<at, store, outcome, sent, queue>>
    BY <1>2 DEF Deliver
  <2>3. d \in Requests /\ at[d] = "dropped" /\ outcome[d] = "cancelled" /\ d \notin queue
    BY <1>1 DEF TypeOK, CancelledShape, TakenOnce
  <2>4. \A q \in Requests : q # d => told'[q] = told[q]
    BY <1>1, <2>1 DEF TypeOK
  <2>5. told'[d] = "cancelled"
    BY <1>1, <2>1, <2>3 DEF TypeOK
  <2> QED BY <2>1, <2>2, <2>3, <2>4, <2>5 DEF Apart
<1>3. CASE StoreAllows(r) \/ StoreRefuses(r) \/ RequestFails(r) \/ HandleReturns(r) \/ SendReturns(r)
  BY <1>1, <1>3 DEF StoreAllows, StoreRefuses, RequestFails, HandleReturns, SendReturns, Apart, TypeOK, Go
<1>4. CASE ReadChain(r) \/ LockPolicy(r)
  BY <1>1, <1>4 DEF ReadChain, LockPolicy, Apart, TypeOK, Go
<1>5. CASE Allow(r) \/ Deny(r) \/ Tell(r)
  BY <1>1, <1>5 DEF Allow, Deny, Tell, Apart, TypeOK, Go
<1>6. CASE LockDelegate(r) \/ Send(r) \/ Answer(r)
  BY <1>1, <1>6 DEF LockDelegate, Send, Answer, Apart, TypeOK, Go
<1>7. CASE Drop(r)
  BY <1>1, <1>7 DEF Drop, Apart, TypeOK, Go
<1>8. CASE Panic(r)
  BY <1>1, <1>8 DEF Panic, Apart, TypeOK, Go
<1> QED BY <1>2, <1>3, <1>4, <1>5, <1>6, <1>7, <1>8 DEF Step

\* The types of what is kept.
LEMMA TypeKeeps ==
  ASSUME IInv, NEW r \in Requests, Step(r)
  PROVE  TypeOK'
<1>1. /\ store \in [Requests -> Known] /\ told \in [Requests -> Known]
      /\ at \in [Requests -> Places]
      /\ outcome \in [Requests -> {"none", "returned", "failed", "cancelled"}]
      /\ \A q \in queue \cup batch : q \in Requests /\ told[q] = "open"
      /\ policy \in Requests \cup {Nobody}
      /\ delegate \in Requests \cup {Nobody, Host}
      /\ poisoned \in BOOLEAN /\ sent \subseteq Requests
      /\ RequestShape(r) /\ CancelledShape(r)
  BY DEF IInv, TypeOK
<1>2. store' \in [Requests -> Known] /\ outcome' \in [Requests -> {"none", "returned", "failed", "cancelled"}]
  BY <1>1 DEF Step, StoreAllows, StoreRefuses, RequestFails, HandleReturns, SendReturns, ReadChain, LockPolicy,
    Deliver, Allow, Deny, LockDelegate, Send, Answer, Tell, Drop, Panic, Known
<1>3. told' \in [Requests -> Known]
  BY <1>1 DEF Step, StoreAllows, StoreRefuses, RequestFails, HandleReturns, SendReturns, ReadChain, LockPolicy,
    Deliver, Allow, Deny, LockDelegate, Send, Answer, Tell, Drop, Panic, Known
<1>4. at' \in [Requests -> Places]
  BY <1>1 DEF Step, StoreAllows, StoreRefuses, RequestFails, HandleReturns, SendReturns, ReadChain, LockPolicy,
    Deliver, Allow, Deny, LockDelegate, Send, Answer, Tell, Drop, Panic, Places, Go
<1>5. /\ policy' \in Requests \cup {Nobody}
      /\ delegate' \in Requests \cup {Nobody, Host}
      /\ poisoned' \in BOOLEAN /\ sent' \subseteq Requests
  BY <1>1 DEF Step, StoreAllows, StoreRefuses, RequestFails, HandleReturns, SendReturns, ReadChain, LockPolicy,
    Deliver, Allow, Deny, LockDelegate, Send, Answer, Tell, Drop, Panic
<1>6. \A q \in queue' \cup batch' : q \in Requests /\ told'[q] = "open"
  <2>1. CASE Deliver(r)
    <3>1. PICK d \in batch : batch' = batch \ {d} /\ told' = [told EXCEPT ![d] = "cancelled"] /\ queue' = queue
      BY <2>1 DEF Deliver
    <3> QED BY <1>1, <3>1 DEF IInv, TakenOnce
  <2>2. CASE StoreAllows(r) \/ StoreRefuses(r) \/ RequestFails(r) \/ HandleReturns(r) \/ SendReturns(r)
               \/ ReadChain(r) \/ LockPolicy(r) \/ LockDelegate(r) \/ Send(r) \/ Answer(r) \/ Panic(r)
    BY <1>1, <2>2 DEF StoreAllows, StoreRefuses, RequestFails, HandleReturns, SendReturns, ReadChain, LockPolicy,
      LockDelegate, Send, Answer, Panic
  <2>3. CASE Allow(r) \/ Deny(r) \/ Tell(r)
    <3>1. r \notin queue \cup batch
      BY <1>1, <2>3 DEF Allow, Deny, Tell, CancelledShape
    <3>2. queue' = queue /\ batch' = batch /\ \A q \in Requests \ {r} : told'[q] = told[q]
      BY <1>1, <2>3 DEF Allow, Deny, Tell
    <3> QED BY <1>1, <3>1, <3>2
  <2>4. CASE Drop(r)
    <3>1. told' = told /\ batch' = batch /\ (queue' = queue \/ (queue' = queue \cup {r} /\ at[r] = "flying"))
      BY <2>4 DEF Drop
    <3> QED BY <1>1, <3>1 DEF RequestShape
  <2> QED BY <2>1, <2>2, <2>3, <2>4 DEF Step
<1> QED BY <1>2, <1>3, <1>4, <1>5, <1>6 DEF TypeOK

\* What was taken from the queue is still not in it.
LEMMA TakenKeeps ==
  ASSUME IInv, NEW r \in Requests, Step(r)
  PROVE  TakenOnce'
<1>1. TakenOnce /\ CancelledShape(r)
  BY DEF IInv
<1>2. CASE Drop(r)
  BY <1>1, <1>2 DEF Drop, TakenOnce, CancelledShape
<1>3. CASE LockPolicy(r)
  BY <1>1, <1>3 DEF LockPolicy, TakenOnce
<1>4. CASE Deliver(r)
  BY <1>1, <1>4 DEF Deliver, TakenOnce
<1>5. CASE Panic(r)
  BY <1>1, <1>5 DEF Panic, TakenOnce
<1>6. CASE Step(r) /\ UNCHANGED <<queue, batch>>
  BY <1>1, <1>6 DEF TakenOnce
<1>7. Drop(r) \/ LockPolicy(r) \/ Deliver(r) \/ Panic(r) \/ UNCHANGED <<queue, batch>>
  BY DEF Step, StoreAllows, StoreRefuses, RequestFails, HandleReturns, SendReturns, ReadChain, Allow, Deny,
    LockDelegate, Send, Answer, Tell
<1> QED BY <1>2, <1>3, <1>4, <1>5, <1>6, <1>7

\* The holder of a lock is at a hook, whoever steps.
LEMMA LocksKeep ==
  ASSUME IInv, NEW r \in Requests, Step(r)
  PROVE  LocksAreShort'
<1>1. /\ policy # Nobody => at[policy] \in {"before", "after"}
      /\ delegate \in Requests => at[delegate] = "sending"
      /\ policy \in Requests \cup {Nobody} /\ delegate \in Requests \cup {Nobody, Host}
      /\ at \in [Requests -> Places]
  BY DEF IInv, LocksAreShort, TypeOK
<1>2. \A q \in Requests \ {r} : at'[q] = at[q]
  BY StepsApart DEF Apart
<1>3. policy' # Nobody => at'[policy'] \in {"before", "after"}
  <2>1. policy' = Nobody \/ (policy' = r /\ at'[r] \in {"before", "after"})
          \/ (policy' = policy /\ (at'[r] = at[r] \/ at[r] \notin {"before", "after"}))
    BY <1>1, HoldersAssumption DEF Step, StoreAllows, StoreRefuses, RequestFails, HandleReturns, SendReturns, ReadChain,
      LockPolicy, Deliver, Allow, Deny, LockDelegate, Send, Answer, Tell, Drop, Panic, Go
  <2> QED BY <1>1, <1>2, <2>1
<1>4. delegate' \in Requests => at'[delegate'] = "sending"
  <2>1. delegate' = Nobody \/ (delegate' = r /\ at'[r] = "sending")
          \/ (delegate' = delegate /\ (at'[r] = at[r] \/ at[r] # "sending"))
    BY <1>1, HoldersAssumption DEF Step, StoreAllows, StoreRefuses, RequestFails, HandleReturns, SendReturns, ReadChain,
      LockPolicy, Deliver, Allow, Deny, LockDelegate, Send, Answer, Tell, Drop, Panic, Go
  <2> QED BY <1>1, <1>2, <2>1, HoldersAssumption
<1> QED BY <1>3, <1>4 DEF LocksAreShort

\* The request that steps keeps its shape: one action at a time.
LEMMA OwnShapeKeeps ==
  ASSUME IInv, NEW r \in Requests, Step(r)
  PROVE  RequestShape(r)' /\ CancelledShape(r)' /\ StoreShape(r)'
<1>1. /\ store \in [Requests -> Known] /\ told \in [Requests -> Known]
      /\ at \in [Requests -> Places]
      /\ outcome \in [Requests -> {"none", "returned", "failed", "cancelled"}]
      /\ Preview[r] \in {2, 3}
  BY PreviewAssumption DEF IInv, TypeOK
<1>2. RequestShape(r) /\ CancelledShape(r) /\ StoreShape(r)
  BY DEF IInv
<1>3. CASE StoreAllows(r) \/ StoreRefuses(r) \/ RequestFails(r)
  BY <1>1, <1>2, <1>3 DEF StoreAllows, StoreRefuses, RequestFails, Go, RequestShape, CancelledShape, StoreShape
<1>4. CASE HandleReturns(r) \/ SendReturns(r)
  BY <1>1, <1>2, <1>4 DEF HandleReturns, SendReturns, RequestShape, CancelledShape, StoreShape
<1>5. CASE ReadChain(r) \/ LockPolicy(r)
  BY <1>1, <1>2, <1>5 DEF ReadChain, LockPolicy, Go, RequestShape, CancelledShape, StoreShape
<1>6. CASE Deliver(r)
  <2>1. PICK d \in batch : batch' = batch \ {d} /\ told' = [told EXCEPT ![d] = "cancelled"]
    BY <1>6 DEF Deliver
  <2>2. d # r
    BY <1>2, <1>6 DEF Deliver, CancelledShape
  <2>3. told'[r] = told[r]
    BY <1>1, <2>1, <2>2
  <2>4. UNCHANGED <<store, at, outcome, queue, sent>>
    BY <1>6 DEF Deliver
  <2> QED BY <1>2, <2>1, <2>3, <2>4 DEF RequestShape, CancelledShape, StoreShape
<1>7. CASE Allow(r) \/ Deny(r)
  BY <1>1, <1>2, <1>7 DEF Allow, Deny, Go, RequestShape, CancelledShape, StoreShape
<1>8. CASE LockDelegate(r) \/ Send(r)
  BY <1>1, <1>2, <1>8 DEF LockDelegate, Send, Go, RequestShape, CancelledShape, StoreShape
<1>9. CASE Answer(r)
  BY <1>1, <1>2, <1>9 DEF Answer, Go, RequestShape, CancelledShape, StoreShape
<1>10. CASE Tell(r)
  BY <1>1, <1>2, <1>10 DEF Tell, Go, RequestShape, CancelledShape, StoreShape
<1>11. CASE Drop(r)
  BY <1>1, <1>2, <1>11 DEF Drop, Go, RequestShape, CancelledShape, StoreShape
<1>12. CASE Panic(r)
  BY <1>1, <1>2, <1>12 DEF Panic, Go, RequestShape, CancelledShape, StoreShape
<1> QED BY <1>3, <1>4, <1>5, <1>6, <1>7, <1>8, <1>9, <1>10, <1>11, <1>12 DEF Step

\* The other users of the delegate keep the invariant: they take the lock
\* only when nobody has it.
LEMMA ForwardKeeps ==
  ASSUME IInv, ForwardBegins \/ ForwardEnds
  PROVE  IInv'
<1>1. UNCHANGED <<store, told, at, outcome, queue, batch, policy, poisoned, sent>>
  BY DEF ForwardBegins, ForwardEnds
<1>2. delegate' \in {Nobody, Host}
  BY DEF ForwardBegins, ForwardEnds
<1>3. TypeOK'
  BY <1>1, <1>2 DEF IInv, TypeOK
<1>4. LocksAreShort'
  BY <1>1, <1>2, HoldersAssumption DEF IInv, LocksAreShort
<1>5. TakenOnce'
  BY <1>1 DEF IInv, TakenOnce
<1>6. \A r \in Requests : (RequestShape(r) /\ CancelledShape(r) /\ StoreShape(r))'
  BY <1>1 DEF IInv, RequestShape, CancelledShape, StoreShape
<1> QED BY <1>3, <1>4, <1>5, <1>6 DEF IInv

\* Every step keeps the invariant.
LEMMA Inductive == IInv /\ [Next]_vars => IInv'
<1> SUFFICES ASSUME IInv, [Next]_vars PROVE IInv'
  OBVIOUS
<1>1. ASSUME NEW r \in Requests, Step(r) PROVE IInv'
  <2>1. \A q \in Requests \ {r} : RequestShape(q)' /\ CancelledShape(q)' /\ StoreShape(q)'
    BY <1>1, StepsApart, ApartKeeps
  <2>2. RequestShape(r)' /\ CancelledShape(r)' /\ StoreShape(r)'
    BY <1>1, OwnShapeKeeps
  <2>3. TypeOK' /\ TakenOnce' /\ LocksAreShort'
    BY <1>1, TypeKeeps, TakenKeeps, LocksKeep
  <2> QED BY <2>1, <2>2, <2>3 DEF IInv
<1>2. CASE UNCHANGED vars
  BY <1>2 DEF vars, IInv, TypeOK, TakenOnce, LocksAreShort, RequestShape, CancelledShape, StoreShape
<1> QED BY <1>1, <1>2, ForwardKeeps DEF Next, Step

\* The invariant holds in every reachable state.
LEMMA Invariance == Spec => []IInv
BY Initial, Inductive, PTL DEF Spec

-----------------------------------------------------------------------------
(* What it gives                                                           *)

\* The types of what is kept; above all, every cancellation that waits, in
\* the queue or in a batch, is of a request its layers still hold open.
THEOREM Typing == Spec => []TypeOK
<1>1. IInv => TypeOK
  BY DEF IInv
<1> QED BY <1>1, Invariance, PTL

\* No request is given to the delegate unless the store's chain and the
\* hook's chain both allowed it (send_request).
THEOREM AllowedByBoth == Spec => []SentOnlyIfAllowed
<1>1. IInv => SentOnlyIfAllowed
  BY DEF IInv, TypeOK, RequestShape, SentOnlyIfAllowed
<1> QED BY <1>1, Invariance, PTL

\* Neither lock is held while a request is in flight (lib.rs), however many
\* requests run.
THEOREM ShortLocks == Spec => []LocksAreShort
<1>1. IInv => LocksAreShort
  BY DEF IInv
<1> QED BY <1>1, Invariance, PTL

\* The send of Preview 3 encloses the request it makes (p3.rs): when it ends
\* for the store's chain no layer of the hook's chain has the request open, it
\* returned there if it returned, and no request is cancelled there but by the
\* drop of its send.  The failures in between are allowed for.
THEOREM SendsEndLast == Spec => []SendEndsLast
<1>1. ASSUME IInv, NEW r \in Requests, Preview[r] = 3
      PROVE  /\ store[r] = "returned" => told[r] = "returned"
             /\ store[r] = "failed" => told[r] \notin {"open", "cancelled"}
             /\ told[r] = "cancelled" => store[r] = "cancelled"
  <2>1. RequestShape(r) /\ StoreShape(r) /\ at[r] \in Places
    BY <1>1 DEF IInv, TypeOK
  <2> QED BY <1>1, <2>1 DEF RequestShape, StoreShape, Places
<1>2. IInv => SendEndsLast
  BY <1>1 DEF SendEndsLast
<1> QED BY <1>2, Invariance, PTL

-----------------------------------------------------------------------------
(* The contract of layers, kept by the hook's chain                        *)

\* What the layer that stands for the hook's chain knows.
View == [r \in Requests |-> [l \in 1..1 |-> told[r]]]

\* One more thing known of one request.
LEMMA Learns ==
  ASSUME TypeOK, NEW r \in Requests, NEW v, told' = [told EXCEPT ![r] = v]
  PROVE  View' = [View EXCEPT ![r][1] = v]
<1>1. told \in [Requests -> Known]
  BY DEF TypeOK
<1> DEFINE one(v_) == [l \in 1..1 |-> v_]
<1>2. View' = [q \in Requests |-> IF q = r THEN one(v) ELSE one(told[q])]
  BY <1>1 DEF View
<1>3. [View[r] EXCEPT ![1] = v] = one(v)
  BY DEF View
<1>4. [View EXCEPT ![r][1] = v] = [q \in Requests |-> IF q = r THEN [View[r] EXCEPT ![1] = v] ELSE View[q]]
  BY DEF View
<1>5. [View EXCEPT ![r][1] = v] = [q \in Requests |-> IF q = r THEN one(v) ELSE one(told[q])]
  BY <1>3, <1>4 DEF View
<1> QED BY <1>2, <1>5

\* Every step is one of the contract, or none: a request is refused or
\* allowed, sent, ended by its answer or its drop, and told.
LEMMA StepRefines == IInv /\ [Next]_vars => [Bracket!Next]_(Bracket!vars)
<1> SUFFICES ASSUME IInv, [Next]_vars
             PROVE  Bracket!Next \/ UNCHANGED Bracket!vars
  OBVIOUS
<1> USE DEF Bracket!Layers
<1>1. TypeOK /\ 1 \in 1..1 /\ \A r \in Requests : RequestShape(r) /\ CancelledShape(r)
  BY DEF IInv
<1>2. \A r \in Requests, l \in 1..1 : l = 1 /\ View[r][l] = told[r]
  BY DEF View
<1>3. ASSUME NEW r \in Requests, Deliver(r) PROVE Bracket!Next
  <2>1. PICK d \in batch : told' = [told EXCEPT ![d] = "cancelled"]
    BY <1>3 DEF Deliver
  <2>2. d \in Requests /\ told[d] = "open" /\ outcome[d] = "cancelled"
    BY <1>1 DEF TypeOK, CancelledShape
  <2>3. View' = [View EXCEPT ![d][1] = "cancelled"]
    BY <1>1, <2>1, <2>2, Learns
  <2>4. Bracket!Tell(d, 1)
    BY <1>2, <1>3, <2>2, <2>3 DEF Bracket!Tell, View, Deliver
  <2> QED BY <2>2, <2>4 DEF Bracket!Next
<1>4. ASSUME NEW r \in Requests, Allow(r) PROVE Bracket!Next
  <2>1. View' = [View EXCEPT ![r][1] = "open"]
    BY <1>1, <1>4, Learns DEF Allow
  <2>2. told[r] = "none" /\ outcome[r] = "none"
    BY <1>1, <1>4 DEF Allow, RequestShape
  <2>3. Bracket!Allow(r, 1)
    BY <1>2, <1>4, <2>1, <2>2 DEF Bracket!Allow, Bracket!MayAsk, View, Allow
  <2> QED BY <2>3 DEF Bracket!Next
<1>5. ASSUME NEW r \in Requests, Deny(r) PROVE Bracket!Next
  <2>1. View' = [View EXCEPT ![r][1] = "refused"]
    BY <1>1, <1>5, Learns DEF Deny
  <2>2. told[r] = "none" /\ outcome[r] = "none"
    BY <1>1, <1>5 DEF Deny, RequestShape
  <2>3. Bracket!Refuse(r, 1)
    BY <1>2, <1>5, <2>1, <2>2 DEF Bracket!Refuse, Bracket!MayAsk, View, Deny
  <2> QED BY <2>3 DEF Bracket!Next
<1>6. ASSUME NEW r \in Requests, Send(r) PROVE Bracket!Next
  <2>1. told[r] = "open" /\ outcome[r] = "none" /\ r \notin sent
    BY <1>1, <1>6 DEF Send, RequestShape
  <2>2. View' = View
    BY <1>6 DEF Send, View
  <2>3. Bracket!Run(r)
    BY <1>2, <1>6, <2>1, <2>2 DEF Bracket!Run, View, Send
  <2> QED BY <2>3 DEF Bracket!Next
<1>7. ASSUME NEW r \in Requests, Answer(r) PROVE Bracket!Next
  <2>1. outcome[r] = "none" /\ r \in sent
    BY <1>1, <1>7 DEF Answer, RequestShape
  <2>2. \E o \in Bracket!Ends : Bracket!End(r, o)
    BY <1>7, <2>1 DEF Answer, Bracket!End, Bracket!Ends
  <2> QED BY <2>2 DEF Bracket!Next
<1>8. ASSUME NEW r \in Requests, Tell(r) PROVE Bracket!Next \/ UNCHANGED Bracket!vars
  <2>1. outcome[r] # "none"
    BY <1>1, <1>8 DEF Tell, RequestShape
  <2>2. CASE told[r] = "open"
    <3>1. View' = [View EXCEPT ![r][1] = outcome[r]]
      BY <1>1, <1>8, <2>2, Learns DEF Tell
    <3>2. Bracket!Tell(r, 1)
      BY <1>2, <1>8, <2>1, <2>2, <3>1 DEF Bracket!Tell, View, Tell
    <3> QED BY <3>2 DEF Bracket!Next
  <2>3. CASE told[r] # "open"
    <3>1. told' = told
      BY <1>1, <1>8, <2>3 DEF Tell, TypeOK
    <3> QED BY <1>8, <3>1 DEF Tell, Bracket!vars
  <2> QED BY <2>2, <2>3
<1>9. ASSUME NEW r \in Requests, Drop(r) PROVE Bracket!Next \/ UNCHANGED Bracket!vars
  <2>1. CASE at[r] = "flying"
    <3>1. outcome[r] = "none" /\ r \in sent
      BY <1>1, <2>1 DEF RequestShape
    <3>2. Bracket!End(r, "cancelled")
      BY <1>9, <2>1, <3>1 DEF Drop, Bracket!End
    <3> QED BY <3>2 DEF Bracket!Next, Bracket!Ends
  <2>2. CASE at[r] # "flying"
    BY <1>9, <2>2 DEF Drop, Bracket!vars
  <2> QED BY <2>1, <2>2
<1>10. ASSUME NEW r \in Requests,
              \/ StoreAllows(r) \/ StoreRefuses(r) \/ RequestFails(r) \/ HandleReturns(r)
              \/ SendReturns(r) \/ ReadChain(r) \/ LockPolicy(r) \/ LockDelegate(r) \/ Panic(r)
       PROVE  UNCHANGED Bracket!vars
  BY <1>10 DEF StoreAllows, StoreRefuses, RequestFails, HandleReturns, SendReturns, ReadChain, LockPolicy,
    LockDelegate, Panic, Bracket!vars
<1>11. ASSUME ForwardBegins \/ ForwardEnds PROVE UNCHANGED Bracket!vars
  BY <1>11 DEF ForwardBegins, ForwardEnds, Bracket!vars
<1>12. CASE UNCHANGED vars
  BY <1>12 DEF vars, Bracket!vars
<1> QED
  BY <1>3, <1>4, <1>5, <1>6, <1>7, <1>8, <1>9, <1>10, <1>11, <1>12 DEF Next

\* The hook's chain implements the contract of layers for any set of
\* requests: whatever the tasks, drops and panics, a request is sent only
\* when it was allowed, and what was allowed is told once, with its outcome.
THEOREM HookImplementsBracket == Spec => BracketSpec
<1>1. Init => Bracket!Init
  BY DEF Init, Bracket!Init, Bracket!Layers
<1> QED BY <1>1, StepRefines, Invariance, PTL DEF Spec, BracketSpec, Bracket!Spec
=============================================================================
