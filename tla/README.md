# Verification of wasm-component-middleware

TLA+ specifications of the middleware in this repository, the TLC runs that
check them on small instances, and proofs that TLAPS checks for instances of
every size. Paths below are relative to `src/crates/`; `core/` stands for
`wasm-component-middleware/src/`, `wasi/` for
`wasm-component-middleware-wasi/src/`, `http/` for
`wasm-component-middleware-wasi-http/src/`.

## 1. The system

A Wasmtime host puts *layers* around component calls. A layer's `before` hook
allows a call and leaves a frame, or refuses it; its `after` hook is given the
frame back with the call's outcome. `Chain` runs the hooks; everything else in
the repository either calls a chain or is a layer of one.

| Component | State | Operations | Interacts with |
|---|---|---|---|
| Dispatch (`core/chain.rs`, `core/async_dispatch.rs`, `core/context.rs`) | the frames of each call; one `CancellationQueue` per store behind a mutex | `dispatch`, `dispatch_export`, `dispatch_access`, `dispatch_async`, `dispatch_access_async`, `dispatch_state_async`; the drop of a future | lends the store's data to layers and bodies; a body may dispatch again |
| Layer contract, call data (`core/types.rs`) | none | `Layer::before`, `Layer::after`; `Denied`, `Outcome` | implemented by every policy |
| Stream relay (`wasi/p3/relay.rs`) | `Shared`: queue, bytes in flight, closed flags, completion, denial, three wakers, behind a mutex | `poll_consume`, `poll_produce`, the completion's two polls, drops | one dispatch per chunk; polled and dropped by Wasmtime |
| Stream openers (`wasi/p3/filesystem.rs`, `cli.rs`, `sockets/tcp.rs`) | none | `read-via-stream`, `write-via-stream`, `send`, `receive` | build relays inside a dispatch |
| `Budget` (`core/budget.rs`) | one counter per key behind a mutex, shared by stores | `before` | a layer |
| `OpenFiles` (`wasi/open_files.rs`) | live descriptors and reservations in the invocation's context | `before`, `after` | a layer; watches filesystem calls |
| `Logger` (`core/logger.rs`) | depth per invocation behind a mutex | `before`, `after` | a layer |
| `Allowlist` (`core/allowlist.rs`) | fixed sets | `before` | a layer |
| Routing (`core/routing.rs`) | none | `dispatch_import`, `route_export`, `route_imports!` | enters a dispatch |
| Verification (`core/verification.rs`, `wasi/lib.rs`) | none | `verify_routing` | reads a component's type |
| WASI gates (`wasi/gate.rs`, `wasi/p2`, `wasi/p3`) | none | one function per WASI function | a dispatch around a delegate, errors mapped back |
| HTTP hooks (`http/lib.rs`) | policy state and delegate, each behind a mutex | `send_request` and getters | a chain of its own |
| HTTP gates (`http/gate.rs`, `p2.rs`, `p3.rs`) | none | one function per `wasi:http` function | a dispatch around a delegate |

What is hard here, and what makes each component correct:

* **Dispatch.** A future can be dropped by any thread between any two hooks of
  any other call, and its frames wait in a queue for the next time the store is
  free, perhaps in the middle of an export. Correct means: each layer that
  allowed a call hears of its end once, from the inside out, with one outcome;
  cancellations are told in order, before the call that finds them, and are
  not left behind by an export.
* **Relay.** Four parties take turns over one `Shared`, sleeping on wakers.
  Correct means: bytes arrive in order and once, within the bound even while
  some are in flight; a denial is reported after the bytes approved before it
  and instead of anything else; nobody sleeps over something it could do.
* **Budget.** Stores race for one counter, near its limits of value and width.
* **OpenFiles.** Opens in progress, cancelled opens and reused representations
  must be counted exactly.
* **Logger.** Calls of several invocations overlap, are cancelled or are lost
  with their store, while a hook takes two locks in turn. Correct means: the
  indentation is the nesting that the log itself shows.
* **Gates.** Some 500 small functions, each of which must report what it takes
  and produces and answer a refusal without losing the guest's resources.
  Correct means: a layer that follows the events knows what the guest holds.
* **HTTP hooks.** Requests run in tasks of their own over shared policy state,
  may be dropped while they fly, and hooks may panic under a lock. Correct
  means: nothing is sent that either chain refused, no layer is left with an open
  request when the guest's call around it is over, and neither lock outlives its
  hook.
* **Verification.** Correct means: exactly the callable, unrouted functions are
  named, whatever the versions and prefixes.

`PROJECT.json` lists these hazards one by one, each at its line, with the
properties that cover it or the reason why none does.

## 2. Modules

| Module | Models | Checked by | Proofs |
|---|---|---|---|
| `CallBracket` | the contract of `Layer`, for one call, as an abstract specification | `MCChain`, `MCHttpHooks`, as what they implement | `ChainProofs`, `HttpHooksProofs` |
| `Chain` | `chain.rs` and `async_dispatch.rs` | `MCChain` | `ChainProofs` |
| `BytePipe` | what a relayed stream promises (`wasi/p3/mod.rs`), as an abstract specification | `MCRelay`, as what it implements | `RelayProofs` |
| `Relay` | `relay.rs`, with both peers | `MCRelay` | `RelayProofs` |
| `Budget` | `budget.rs` | `MCBudget` | `BudgetProofs` |
| `OpenFiles` | `open_files.rs`, over the resource table and the delivery of cancellations | `MCOpenFiles` | `OpenFilesProofs` |
| `Logger` | `logger.rs` | `MCLogger` | `LoggerProofs` |
| `GateCalls` | what a gated function is (`gate.rs` of both crates) | `MCGates` | |
| `GatesP2`, `GatesP2Sockets`, `GatesP3`, `GatesHttpP2`, `GatesHttpP3` | every gated function of each linker, as data | `MCGates` | `GatesProofs` |
| `GateLinkers` | what each public linker function installs | `MCGates` | `GatesProofs` |
| `Gates` | a guest that calls gates over a resource table | `MCGates` | `GatesProofs` |
| `HttpHooks` | `WasiHttpHooks` and `send_request`, beside the store's chain | `MCHttpHooks` | `HttpHooksProofs` |
| `Verification` | `verification.rs` | `MCVerification` | `VerificationProofs` |

How they compose. `Chain` says what a dispatch is. `OpenFiles`, `Logger`,
`Gates` and `HttpHooks` see dispatches from outside, and use of them what
`Chain` shows: hooks of one store run in turn, cancellations are told by the
next dispatch or never, a layer that refused hears no more. `HttpHooks` is
shown to implement the same `CallBracket` as `Chain`, although its requests run
side by side. The gates are parameters of `Gates` (`Offer`), to which
`GateLinkers` gives the values that the crates' linkers have; the byte streams
that some of them open are `Relay`.

Operators whose comment begins with "Variant:" are not part of the
specifications: each is a definition as a plausible bug would have it, and
`PROJECT.json` says which property finds it.

### Chain

`frames[c]` is the `Vec` that `before` fills and `after` consumes; it moves
from the dispatch to the guard, the queue and the delivery, and being indexed
by call it is one variable through all of them. `stack` is the Rust borrow of
the store's data: a dispatch is pushed when it gets the data and popped when
it gives it back, and an export's body lends it to nested dispatches. `queue`
is `CancellationQueue`, `batch` the local `cancellations` of
`deliver_cancellations`. `view`, `ran`, `drops` and `owed` are history.

| Code | Actions |
|---|---|
| `CancellationQueue::take` at the start of a dispatch | `Start` |
| the loop of `deliver_cancellations` | `DeliverHook`, `DeliverNext` |
| `Chain::before` | `Ask`, `AllowHook`, `RefuseHook`, `EnterBody` |
| a body's result, `outcome` | `EndBody` |
| `finish_async_dispatch` getting the store again | `Finish` |
| `Chain::after` | `AfterHook`, `Return` |
| the second delivery of `dispatch_export` | `Drain`, `ReturnDrained` |
| `Drop for CancellationGuard` | `DropFuture` |

`dispatch` and `dispatch_access` differ only in how they reach the data and
are one kind, `import`; so are `dispatch_async` and `dispatch_access_async`
over an `Accessor`, `async`; `dispatch_state_async` keeps its borrow across
the await, and its future is dropped by whoever lent it, `borrowed`. A hook is
one step, so that the drop of another call's future falls between any two.
Hooks cannot be interrupted by a drop of their own future: they contain no
await. Only an export's body lends the store on: the library's own imports
never do. Hooks and bodies that panic are left out.

`CallBracket` says what a layer may rely on and nothing of stores, queues or
futures. `BracketSpec` is the refinement; `Chain`'s history variables are its
state.

### Relay

Byte *i* is the number *i*, so that "in order, once" is the equality of two
sequences. `task[t]` is what Wasmtime knows of a side: `idle` until its peer
asks, `ready` to be polled, `parked` after `Pending`, `gone` when dropped;
`wakers` is the three waker fields. A wake-up moves a parked side to ready, and
nothing else does, so that a forgotten one shows. `direction` is the opener's
shape: in `read` the host is the source, as in `read-via-stream`, and its
completion comes when it has no more to give; in `write` the host is the
destination, and its completion comes when it has seen the stream end or given
up. `dest` is Wasmtime's buffer, which `Receive` empties; `poll_produce` is
called again only when it is empty, and that is how the relay learns that the
bytes in flight have arrived.

| Code | Actions |
|---|---|
| `Consumer::poll_consume` | `ConsumeEmpty`, `ConsumeNothing`, `ConsumeBlocked`, `ConsumeAllowed`, `ConsumeDenied` |
| `Consumer::drop` | `ConsumerGone`, in `SourceEnd` and wherever Wasmtime drops it |
| `Producer::poll_produce` | `Produce`, `ProduceEnd`, `ProduceNothing` |
| `Producer::drop` | `Leave`, and in `ProduceEnd` |
| `CompletionConsumer`, `CompletionProducer` | `CompletionArrives`, `PollFuture` |
| the source, the destination, Wasmtime | `Offer`, `SourceEnd`, `Read`, `Receive`, `ReadFuture`, `Cancel` |

Two things are assumed of the peers, from how the openers' delegates behave: a
host source has nothing left unread when its completion resolves, and a host
destination reports its completion when it has dropped its end, a success only
if it saw the stream end. `DenialOutranks` and the refinement lean on them: the
relay closes its input at the completion, and keeps a completion that came
before a denial.

`BytePipe` is a pipe of at most `Bound` bytes with one completion, and knows
nothing of wakers, polls, hand-overs or closed flags. `PipeSpec` is the
refinement: what the source was told is taken is what the pipe accepted, and
what has left Wasmtime's buffer is what it delivered, so that everything
between the two, the queue, the bytes in flight and the buffer, is the inside
of the pipe. That a complete stream has delivered everything (`EndIsComplete`)
is a consequence of it.

The chain's verdict on a chunk is a free choice between `ConsumeAllowed` and
`ConsumeDenied`. `poll_consume` holds no lock during it, but it has the store,
and every other party needs the store to run, so that the poll is one step.

### Budget and OpenFiles

`Budget`'s step is one hook under its mutex. `charged` is the true sum of what
was allowed, in unbounded arithmetic, against which the saturating counter of
width `MaxU64` is judged; it is capped by `MaxCharged`.

`OpenFiles` takes from `Chain` that a dispatch delivers all queued
cancellations first and that no other dispatch comes between a before hook and
the decision that follows it, and is otherwise the layer's two hooks, with the
resource table they must agree with. `Layers` counts the `OpenFiles` layers of
the chain: they find one `OpenFileState` by its type, and each reserves a slot
of it. A body that has put its descriptor in the table returns without another
await, so that the insertion and the after hook are one step. A refused
`get-directories` or drop has no error to return and traps.

### Logger

A hook is two steps, as it takes two mutexes in turn: `BeginCall` and
`WriteOpening`, `EndCall` and `WriteClosing`. Hooks borrow their store, so that
those of one invocation run in turn (`Free`) and those of others come between.
`depths` has entries only for invocations with open calls. `DropStore` is the
drop of a store, with calls in progress and cancellations queued: nothing is
told of them, and the entry of the map stays for ever. A line is its mark and
its indentation; its text is left out.

### Gates

A gate is a record of `GateCalls`: the handles it borrows (`takes`) and takes
by value (`owns`) and of these the ones its list leaves out (`omits`, none), the
resources its delegate may give (`gives`), the types of these that `produced`
reports (`tells`) or is known not to (`hides`), what a refusal and an error
become, whether it keeps the store, and the stream it leaves behind. There is one
operator per arm of the `gate!` macros and its options (`Typed` for
`typed_error`, `Produced`, `Owning`, ...), so that the modules of gates read
like the lists of the linkers' files. Only handles are data here: other arguments
and results are left out, and gates that differ only in their names behave
alike (`Kinds` in `MCGates`).

`Gates` is the guest: it calls any gate with any handles it holds, and the
outcome is any that the gate allows. `table` is the `ResourceTable`, which
reuses representations; `held` is what the guest has handles to; `known` is
what a layer can tell from the `handles` and `produced` of the calls it sees, and
`hidden` is history: the representations whose last coming or going was in no
event.

| Code | Actions |
|---|---|
| the chain refuses | `Refused` |
| the delegate fails, and the error is mapped back or traps | `Fails`, `EndsInError` |
| the delegate returns | `Returns` |
| an asynchronous method that gives the store back | `Begins`, `Ends`, `Cancelled` |
| one that keeps it is dropped with it | `Abandoned` |
| resources inside streams and futures | `Arrives`, `Departs`, `StreamEnds` |

`LayersKnowGuest` leaves the hidden resources out, one by one: the error
resources made for streams (`wasi/p2/io.rs:55`), sockets that arrive in the
stream of `listen`, trailers that arrive or depart in futures, the options that
`get-options` returns without reporting them (`http/p3.rs:183`), and what an
HTTP handler is entered with. About these the property says nothing, and hazards
that consist of them are listed without it; another resource of the same type is
not left out, and a hidden one is followed again from the next call that gives
or takes its representation. `forfeited` names the types that a refused call may
leave in the table out of reach, in `GateLinkers` for each linker: it is the
request of a refused `send` and nothing else. The two HTTP linkers of Preview 2 differ more than
their documentation says: both are described as adding the proxy interfaces,
but the synchronous one (`http/p2.rs:586`) installs all of Preview 2.

### HttpHooks

Each chain stands for one layer. `store[r]` is what the store's chain knows of
the guest's `handle` or `send`, `told[r]` what the hook's chain knows of the
request, `at[r]` where the code that runs it is; `policy` and `delegate` are the
two mutexes.

| Code | Actions |
|---|---|
| the gate's dispatch around `handle` or `send` | `StoreAllows`, `StoreRefuses`, `HandleReturns`, `SendReturns` |
| the delegate's conversion of the guest's request fails | `RequestFails` |
| the part of `send_request` before its future | `ReadChain` |
| the before hooks, under the lock | `LockPolicy`, `Deliver`, `Allow`, `Deny` |
| the delegate makes its future, and the future resolves | `LockDelegate`, `Send`, `Answer` |
| the after hooks, under the lock | `LockPolicy`, `Tell` |
| the future is dropped between two polls | `Drop` |
| a hook panics in a task | `Panic` |
| the getters that forward to the delegate | `ForwardBegins`, `ForwardEnds` |

For Preview 2 the request runs in a task of its own, which the guest's
`handle` does not wait for; for Preview 3 in the guest's `send`. The calls of the
two chains are not correlated (`http/lib.rs:40-42`), and they need not agree
about an outcome: both delegates convert the guest's request before they ask
the hook, and put what they return into the table after it has answered
(`http/p3.rs:361-369`), so that a `send` fails of which the hook's chain heard
nothing, or heard a return. What `SendEndsLast` claims is what nesting gives: when
the store's chain hears that a `send` ended, the hook's chain has ended it; what
returned had returned there; what was cancelled there is cancelled here. The task
of a `handle` that fails at the table is aborted, and is dropped (`Aborted`). A
poisoned
mutex is taken all the same, as the code does. Panics of Preview 3 unwind
through the store and are left out.

### Verification

A name is a sequence of tokens, of which "@" is one. The actions are the exits
of the loop (`Continue`, `Routed`, `Extend`, `Push`) and its end. `Callable`
defines what a component can call unrouted without the loop or the code's way
of cutting names, and the two must agree on every bounded component. A marker
carries no version (`MarkersAssumption`), as none of those in
`ROUTED_INTERFACES` does: the loop cuts an import's name at its last "@", and a
marker with one could match an import of another version. Imported
bare types and instances nested in interfaces are outside the instance: the
code lists the first by name and skips the second, and wit-component makes
neither.

## 3. Runs

| Run | Instance | Shows |
|---|---|---|
| `chain` | 3 calls of 4 kinds, 2 layers, fairness | bracketing, frame accounting, order and completeness of cancellations, and a call cancelled during an export is told |
| `relay` | 4 bytes, bound 2, reads and writes of 0, 1 and 3, both directions, cancellations, a leaving destination, fairness | safety of the relay, no lost wake-up; it is a bounded pipe of bytes; the stream ends and its completion resolves, to the denial if there is one and its reader stays |
| `relay_abandoned` | the same without sizes 0 and cancellations | finding 1 |
| `budget` | 2 keys, limit 5 of a largest value 7 | the limit holds exactly |
| `budget_saturated` | limit 3 of a largest value 3 | finding 2 |
| `open_files` | 4 opens, 4 representations (both symmetric), limit 2 | exact counting |
| `open_files_preopens` | 2 opens, 3 representations, limit 2 | finding 3 |
| `gates` | 5 linkers, 4 representations (symmetric), 1 asynchronous call | a layer knows the guest's handles but the hidden ones; nothing is stranded |
| `logger` | 3 calls of one invocation and 2 of another, both symmetric | depth and indentation are the nesting; lines balance |
| `http_hooks` | 1 request of Preview 2 and 2 of Preview 3, fairness | nothing sent unallowed, short locks, sends that end last, the contract of layers, every request decided, drops told |
| `http_hooks_order` | 1 request of each preview | finding 4 |
| `verification` | 5 names with versions and common prefixes, 2 markers, 3 exemptions, 2 imports, 2 exports | the list is exact |

Why these bounds are enough. In `Chain`, three calls are an export, a call
cancelled in it and a call that finds the cancellation, or two cancellations
and their finder; two layers give a refusal inside a layer that allowed. In
`Relay`, two cycles of the bound pass through the queue, a write of three
does not fit, and a read of three empties it; writes and reads of one give
every intermediate fill. In `OpenFiles` there are more opens and more
representations than the limit, so that slots and representations are reused.
In `Gates`, no gate takes or gives more than three resources, so that four
representations leave one to be reused while a call is in progress. In
`Logger`, three calls nest, overlap and finish out of order, and the second
invocation comes between their locks. In `HttpHooks`, one request is dropped,
one finds it in the queue and a third contends for the locks, of which one is a
task that may panic or be aborted. What is proved
(section 4) holds without bounds.

Runs that do not check deadlock, because the system stops there: `relay` and
`relay_abandoned` (finding 1 is a state in which the future's reader waits for
ever), `open_files` and `open_files_preopens` (a trapped guest, or a guest that
has made its opens), `logger` (every call ended), `verification` (the loop
ended). In the others a step of rest or a pending request keeps the system
going, and anything that stops is an error.

Fairness. `Chain`: hooks are synchronous code and terminate, and a dispatch
that holds the store ends its body or is dropped; an asynchronous body may stay
pending for ever, and nothing forces a further dispatch. `Relay`: Wasmtime
polls what is ready, the upstream completion comes when it may, its reader
waits, and the peers, strongly fair, write or end and read on however often a
cancellation comes between; a destination may still leave, and the properties
say what is left then. Nothing is assumed of wake-ups: they are the code's.
`HttpHooks`: a task that can run goes on (`Continue`, weakly fair), and a mutex
that opens again and again is got in the end (`Acquire`, strongly fair), as
Rust's mutexes do in practice although they promise no order; an aborted task is
dropped; nobody else need drop a request, answer it or make one.

### Findings

1. `relay_abandoned`: if the destination drops its end while approved bytes
   are queued or in flight, a denial is never moved into the completion
   (`relay.rs:191-197`), and the upstream completion is ignored because a chunk
   was denied (`relay.rs:263`): the replacement future stays pending.
   `p3/mod.rs:23-25` says it reports the denial.
2. `budget_saturated`: with the limit `u64::MAX`, a charge that saturates the
   counter passes unless the counter was full before (`budget.rs:48-49`);
   `budget.rs:19` promises `limit` units.
3. `open_files_preopens`: `get-directories` is never refused
   (`open_files.rs:66-68`), so that more descriptors are live than the limit
   that `open_files.rs:16-18` says includes preopened directories.
4. `http_hooks_order`: the task that sends a Preview 2 request is spawned inside
   the body of the store chain's `handle`, and on a runtime of several threads
   the hook's chain may decide before `handle`'s after hooks run;
   `http/lib.rs:42-45` says that `handle` returns first.

Seen while modelling, without a run of its own: the error resource of a refused
stream operation is told to no layer (`wasi/p2/io.rs:55`), nor are the options
of a Preview 3 request (`http/p3.rs:183`); a Preview 3 `send` whose response does
not fit into the table fails for the guest and its store's chain, after the hook's
chain was told that it returned (`http/p3.rs:361-369`); the handle that a chunk's call names
is the one its stream was opened with, which the guest may have dropped since
and the table reused (`wasi/p3/filesystem.rs:70`); two `OpenFiles` layers in one
chain halve their limit (checked with `Layers = 2`; `RefusedWhenFull` is about
one layer).

## 4. Proofs

All are checked by `tlapm` to the last step. They assume what the modules'
named assumptions say and nothing of the sizes of sets and constants beyond
that. In each module an invariant `IInv` is proved inductive, one step per
action, and the theorems follow from it; TLC checked each `IInv` first.

* **`ChainProofs`**: `Typing`, `FramesMatchLayers`, `NoFrameOutlivesReturn`,
  and, from an invariant of their own, `NoCancellationLost` and
  `CancellationsComeFirst`.
  `FramesAreOpenLayers` is not inductive alone: that `AllowHook` opens a layer
  not yet open needs the view to be empty beyond the frames (`PhaseShape`), and
  that delivery does not touch a live call needs every call of `queue` and
  `batch` to be dropped (`PendingAreDropped`). `ChainImplementsBracket`,
  `Spec => BracketSpec`: under `IInv` each action is a step of `CallBracket` or
  leaves its variables alone (`AllowHook` is `Allow`, `RefuseHook` is `Refuse`,
  `EnterBody` is `Run`, `EndBody` and `DropFuture` are `End`, `AfterHook` and
  `DeliverHook` are `Tell`). `ContractKept` carries over to the chain what
  `CallBracket` comes to: its `Contract` is inductive for the five events of the
  abstract specification alone, and the refinement does the rest. The second invariant, `DInv`, adds that only a
  dispatch that has the store and is delivering has a batch (`BatchIsHeld`): with
  it a batch is never taken over another one, which is what would lose calls.
  `Accounted` then gives every drop its place among the delivered, the batch and
  the queue, and `OwedIsPending` keeps what a dispatch found in its own batch.
* **`RelayProofs`**: all safety properties and the refinement, for every stream
  length, bound, sizes and direction. The heart of `BytesConserved` is that a read moves a
  front of `bytes` to `dest` and a receipt a front of `dest` to `got`, so that the
  concatenation stays; it needs `DestShape` (Wasmtime asks for more only with its
  buffer empty) and `SourceShape`. `NoLostWakeup` is inductive only with
  `DenialShape`, which says that a denial that has drained is on its way to the
  future, and `EndShape`. `DenialOutranks` needs `UpstreamShape`, the assumption on
  the peers. `RelayImplementsPipe`, `Spec => PipeSpec`: `ConsumeAllowed` is
  `Accept`, `ConsumeDenied` is `Deny`, `Receive` is `Deliver`, `ProduceEnd` is
  `End`, `PollFuture` is `Report` when it resolves, and all else leaves the pipe
  alone. `OnTheWay` gives the bytes inside the pipe their places; `OpenForChunks`
  says that the relay asks the layers of a chunk only while the pipe is open,
  which takes the invariant: nothing is left to read once the upstream
  completion has come.
* **`BudgetProofs`**: `Typing`, `RefusalsAreJustified` and `LimitHolds`. The invariant
  `CountsCharges`, that the counter is the true charge cut at `MaxU64`, makes
  both arithmetic; `LimitHolds` assumes `Limit < MaxU64`, which finding 2 shows
  to be necessary.
* **`OpenFilesProofs`**: all five invariants, for any limit and any number of
  layers (`RefusedWhenFull` for one). The counts are cardinalities of sets that
  grow or shrink by one (`OneMore`, `OneLess`), in whole multiples of `Layers`
  (`Slots`); `QueueIsDropped` ties a reservation to the open that will release it.
* **`LoggerProofs`**: `Typing`, `DepthIsTheCount`, `IndentationNests`,
  `LinesAreBalanced`. The depth is the cardinality of `Counted`; between a hook's
  two locks the log is one line behind it, and the frame remembers the depth the
  line will have. For the balance, that a line has the depth of its call's frame
  and a call one line of a mark (`LinesOfFrames`).
* **`GatesProofs`**: `Typing`, `LayersKnowTheGuest` and `OnlyForfeitsStranded`, for
  any table and any number of asynchronous calls, of every linker that `Reports`:
  what a gate takes is listed, what it gives is told or known to be hidden, and
  what a refusal does not give back is forfeited. `Sound` relates table,
  handles, knowledge and what is hidden, and is kept by giving, taking, forfeiting, appearing and
  departing, of which every action is made. `Typing` needs `Lending` as well: a
  call's borrowed handles stay held until it ends. Then every offering of
  `GateLinkers` is shown to satisfy `Reports`, gate by gate of every interface, so that `LinkersTellTheLayers`, `LinkersLend` and
  `LinkersStrandOnlyRequests` are about the crates' linkers, without that
  condition. What remains to be assumed is that the types include those that
  streams and errors bring in (`Streamable`).
* **`HttpHooksProofs`**: `Typing`, `AllowedByBoth`, `ShortLocks`, `SendsEndLast`
  and the refinement `HookImplementsBracket`, for any set of requests. The
  invariant is local to a request (`RequestShape`, `CancelledShape`,
  `StoreShape`): a step changes its own request only, and of others at most the
  cancellation it delivers (`Apart`), so that one lemma keeps the shape of all
  others and another that of the one that steps.
* **`VerificationProofs`**: `TypeCorrect` and `NamesWhatIsUnrouted`, for any
  names, markers, prefixes and any number of imports. The invariant says that
  the list is what the imports passed so far leave unrouted (`ListedSoFar`) and
  that the verdict is the list (`VerdictIsTheList`); `TurnAddsUnrouted` is the
  turn of the loop. Most of the work is in the names: the code cuts a name at
  its last "@" (`rsplit_once`), while `Callable` speaks of a marker with a
  version after it. That the two are the same (`InterfaceAndAt`,
  `RoutedIsRouted`) takes the last position of "@" in a name of any length
  (`Greatest`) and a marker without "@". `NamesWhatIsUnrouted` is about imports
  that are functions, or interfaces of functions, resources and types, the kinds
  that WIT spells: for others it is false, since the loop lists an imported bare
  type and skips an instance in an interface.

Model-checked only is all liveness (`DroppedDuringExportIsTold`,
`DenialReachesReader`, `StreamCompletes` and that of `HttpHooks`), which this
prover does not do (nor `ENABLED`).

## 5. Not modelled, and the plan

Not modelled: argument values and their formatting, the text of the log,
`Allowlist` (a stateless test), routing (`core/routing.rs` builds a call and
enters a dispatch of `Chain`; the rest is a declarative macro), Wasmtime itself
beyond its use, panics in `Chain`, the examples and fixtures.

What could still be added, in this order:

1. A composition of `Chain` with stateful layers, where `OpenFiles` and `Logger`
   run inside its hooks instead of using its properties.
2. The contract of `CallBracket` carried over to `HttpHooks`, as it is to `Chain`.
3. An abstract counter of open handles, implemented by `OpenFiles`.
