------------------------------- MODULE Relay -------------------------------
(***************************************************************************)
(* One relayed WASI Preview 3 byte stream (p3/relay.rs): a Consumer that   *)
(* shows each chunk to the chain before acknowledging it, a Producer that  *)
(* hands the approved bytes on, and the pair of futures that carry the     *)
(* stream's completion, all over one mutex-protected Shared.               *)
(*                                                                         *)
(* The source, the destination, the upstream completion and the scheduling *)
(* of polls belong to wasmtime and to the guest and are modelled from how  *)
(* relay.rs uses them: a side is polled when its peer asks and, after      *)
(* returning Pending, only when the waker it left behind is woken.  Byte i *)
(* of the stream is the number i.                                          *)
(***************************************************************************)
EXTENDS Naturals, Sequences

CONSTANTS
  Total,          \* bytes the source has (bounds the behaviours)
  Bound,          \* StreamRelay's CAPACITY, rejected by new() when zero
  Directions,     \* "read": the host is the source; "write": the guest is
  Writes,         \* sizes the source may write with
  Reads,          \* capacities the destination may read with
  MayCancel,      \* reads and writes may be cancelled
  MayLeave        \* the destination may drop its end before the stream ends

ASSUME BoundAssumption == Total \in Nat /\ Bound \in Nat \ {0}
ASSUME SizesAssumption == Writes \subseteq Nat /\ Reads \subseteq Nat
ASSUME ModeAssumption ==
  /\ Directions \subseteq {"read", "write"}
  /\ MayCancel \in BOOLEAN /\ MayLeave \in BOOLEAN

VARIABLES
  \* Shared
  bytes, inFlight, inputClosed, outputClosed,
  completion,     \* "none", or the value the future will report
  denial,         \* the denial value has not been moved into completion
  denied,
  wakers,         \* the sides whose waker is registered
  \* what wasmtime and the two peers know
  direction,      \* fixed when the stream is opened
  task,           \* task[t]: "idle", "ready" to be polled, "parked" or "gone"
  finish,         \* the sides whose pending operation is being cancelled
  offer,          \* bytes of the source's current write not yet read
  taken,          \* bytes acknowledged to the source (mark_read)
  want,           \* capacity of the destination's current read
  dest,           \* bytes in the destination's buffer
  got,            \* bytes the destination has received
  ended,          \* the destination has seen the end of the stream
  upstream,       \* the completion the relay consumes: "pending", "ok", "error"
  result          \* what the replacement completion future resolved to

shared == <<bytes, inFlight, inputClosed, outputClosed, completion, denial, denied>>
sourceVars == <<direction, offer, taken>>
destVars == <<want, dest, got, ended>>
vars == <<shared, wakers, task, finish, sourceVars, destVars, upstream, result>>

Tasks == {"consumer", "producer", "future"}

Init ==
  /\ bytes = <<>> /\ inFlight = 0
  /\ inputClosed = FALSE /\ outputClosed = FALSE
  /\ completion = "none" /\ denial = TRUE /\ denied = FALSE
  /\ wakers = {}
  /\ direction \in Directions
  /\ task = [t \in Tasks |-> "idle"]
  /\ finish = {}
  /\ offer = 0 /\ taken = 0
  /\ want = 0 /\ dest = <<>> /\ got = <<>> /\ ended = FALSE
  /\ upstream = "pending" /\ result = "none"

Smaller(m, n) == IF m <= n THEN m ELSE n

-----------------------------------------------------------------------------
(* Operators of Shared                                                     *)

\* Side t moves to state s while the wakers of ws are taken and woken.
Moving(t, s, ws) ==
  /\ task' = [u \in Tasks |->
                IF u = t THEN s
                ELSE IF u \in ws \cap wakers /\ task[u] = "parked" THEN "ready"
                ELSE task[u]]
  /\ wakers' = (wakers \ ws) \cup (IF s = "parked" THEN {t} ELSE {})
  /\ finish' = IF s = "parked" THEN finish ELSE finish \ {t}

\* Variant: a denial is moved at once into the completion.
FinishDenialUndrained(queued, flying, isDenied) ==
  IF isDenied /\ completion = "none" /\ denial
    THEN completion' = "denial" /\ denial' = FALSE
    ELSE UNCHANGED <<completion, denial>>

\* finish_denial_if_drained, given the queue, the bytes in flight and the
\* denied flag as they are when it is called.
FinishDenial(queued, flying, isDenied) ==
  IF isDenied /\ queued = <<>> /\ flying = 0 /\ completion = "none" /\ denial
    THEN completion' = "denial" /\ denial' = FALSE
    ELSE UNCHANGED <<completion, denial>>

-----------------------------------------------------------------------------
(* The source and the Consumer                                             *)

\* The source writes n bytes.  A host source stops once it has an error.
Offer(n) ==
  /\ task["consumer"] = "idle" /\ taken + n <= Total
  /\ direction = "read" => upstream = "pending"
  /\ offer' = n
  /\ task' = [task EXCEPT !["consumer"] = "ready"]
  /\ UNCHANGED <<shared, wakers, finish, direction, taken, destVars, upstream, result>>

\* The Consumer returns Dropped or its source goes: Drop closes the input.
ConsumerGone ==
  /\ inputClosed' = TRUE
  /\ offer' = 0
  /\ Moving("consumer", "gone", Tasks)

SourceEnd ==
  /\ task["consumer"] = "idle"
  /\ direction = "read" => taken = Total \/ upstream # "pending"
  /\ ConsumerGone
  /\ UNCHANGED <<bytes, inFlight, outputClosed, completion, denial, denied,
                 direction, taken, destVars, upstream, result>>

\* Variant: the room ignores the bytes handed over but not known to be received.
RoomBehindQueue == Bound - Len(bytes)

Available == Bound - (Len(bytes) + inFlight)

\* A write of no bytes completes without a call.
ConsumeEmpty ==
  /\ task["consumer"] = "ready" /\ offer = 0
  /\ Moving("consumer", "idle", {})
  /\ UNCHANGED <<shared, sourceVars, destVars, upstream, result>>

\* Nobody will read the output: the source learns that the stream is dropped.
ConsumeNothing ==
  /\ task["consumer"] = "ready" /\ offer # 0 /\ outputClosed
  /\ ConsumerGone
  /\ UNCHANGED <<bytes, inFlight, outputClosed, completion, denial, denied,
                 direction, taken, destVars, upstream, result>>

\* No room: a cancelled write gives up, any other one waits to be woken.
ConsumeBlocked ==
  /\ task["consumer"] = "ready" /\ offer # 0 /\ ~outputClosed /\ Available = 0
  /\ IF "consumer" \in finish
       THEN Moving("consumer", "idle", {}) /\ offer' = 0
       ELSE Moving("consumer", "parked", {}) /\ UNCHANGED offer
  /\ UNCHANGED <<shared, direction, taken, destVars, upstream, result>>

\* Variant: the whole write is acknowledged, its tail is not queued.
AcknowledgeAll ==
  /\ task["consumer"] = "ready" /\ offer # 0 /\ ~outputClosed /\ Available > 0
  /\ taken' = taken + offer
  /\ bytes' = bytes \o [i \in 1..Smaller(offer, Available) |-> taken + i]
  /\ offer' = 0
  /\ Moving("consumer", "idle", {"producer"})
  /\ UNCHANGED <<inFlight, inputClosed, outputClosed, completion, denial, denied,
                 direction, destVars, upstream, result>>

\* Variant: the chunk is queued whatever its size.
QueueAll ==
  /\ task["consumer"] = "ready" /\ offer # 0 /\ ~outputClosed /\ Available > 0
  /\ taken' = taken + offer
  /\ bytes' = bytes \o [i \in 1..offer |-> taken + i]
  /\ offer' = 0
  /\ Moving("consumer", "idle", {"producer"})
  /\ UNCHANGED <<inFlight, inputClosed, outputClosed, completion, denial, denied,
                 direction, destVars, upstream, result>>

\* Variant: chunks are queued without waking the Producer.
AllowSilently ==
  /\ task["consumer"] = "ready" /\ offer # 0 /\ ~outputClosed /\ Available > 0
  /\ LET count == Smaller(offer, Available) IN
       /\ taken' = taken + count
       /\ bytes' = bytes \o [i \in 1..count |-> taken + i]
       /\ IF Len(bytes') = Bound /\ count < offer
            THEN Moving("consumer", "parked", {}) /\ offer' = offer - count
            ELSE Moving("consumer", "idle", {}) /\ offer' = 0
  /\ UNCHANGED <<inFlight, inputClosed, outputClosed, completion, denial, denied,
                 direction, destVars, upstream, result>>

\* The chain allows the chunk: it is acknowledged and queued, and the write
\* ends, unless it filled the relay and has more to give.
ConsumeAllowed ==
  /\ task["consumer"] = "ready" /\ offer # 0 /\ ~outputClosed /\ Available > 0
  /\ LET count == Smaller(offer, Available) IN
       /\ taken' = taken + count
       /\ bytes' = bytes \o [i \in 1..count |-> taken + i]
       /\ IF Len(bytes') = Bound /\ count < offer
            THEN Moving("consumer", "parked", {"producer"}) /\ offer' = offer - count
            ELSE Moving("consumer", "idle", {"producer"}) /\ offer' = 0
  /\ UNCHANGED <<inFlight, inputClosed, outputClosed, completion, denial, denied,
                 direction, destVars, upstream, result>>

\* The chain denies the chunk: deny() closes the input and the denial becomes
\* the completion once everything approved has gone.
ConsumeDenied ==
  /\ task["consumer"] = "ready" /\ offer # 0 /\ ~outputClosed /\ Available > 0
  /\ denied' = TRUE
  /\ FinishDenial(bytes, inFlight, TRUE)
  /\ ConsumerGone
  /\ UNCHANGED <<bytes, inFlight, outputClosed, direction, taken, destVars, upstream, result>>

-----------------------------------------------------------------------------
(* The destination and the Producer                                        *)

\* The destination reads again once it has emptied its buffer.
Read(n) ==
  /\ task["producer"] = "idle" /\ dest = <<>>
  /\ want' = n
  /\ task' = [task EXCEPT !["producer"] = "ready"]
  /\ UNCHANGED <<shared, wakers, finish, sourceVars, dest, got, ended, upstream, result>>

Receive(n) ==
  /\ n \in 1..Len(dest) /\ task["producer"] # "gone"
  /\ got' = got \o SubSeq(dest, 1, n)
  /\ dest' = SubSeq(dest, n + 1, Len(dest))
  /\ UNCHANGED <<shared, wakers, task, finish, sourceVars, want, ended, upstream, result>>

\* Variant: bytes known to be received wake nobody.
FreedSilently == {}

\* Being polled means the bytes last handed over have arrived: their room is
\* free again and a waiting Consumer is woken.
Freed == IF inFlight # 0 THEN {"consumer"} ELSE {}

\* Approved bytes are handed over, as many as the read has room for; a read
\* of no bytes learns that there are some.
Produce ==
  /\ task["producer"] = "ready" /\ bytes # <<>>
  /\ LET count == Smaller(want, Len(bytes)) IN
       /\ dest' = SubSeq(bytes, 1, count)
       /\ bytes' = SubSeq(bytes, count + 1, Len(bytes))
       /\ inFlight' = count
  /\ Moving("producer", "idle", Freed)
  /\ UNCHANGED <<inputClosed, outputClosed, completion, denial, denied,
                 sourceVars, want, got, ended, upstream, result>>

\* Variant: the stream ends as soon as the input is closed.
EndAtClose ==
  /\ task["producer"] = "ready" /\ inputClosed
  /\ inFlight' = 0
  /\ FinishDenial(bytes, 0, denied)
  /\ outputClosed' = TRUE
  /\ ended' = TRUE
  /\ Moving("producer", "gone", Tasks)
  /\ UNCHANGED <<bytes, inputClosed, denied, sourceVars, want, dest, got, upstream, result>>

\* Variant: the end of the stream does not finish a denial that waited for it.
EndWithoutDenial ==
  /\ task["producer"] = "ready" /\ bytes = <<>> /\ inputClosed
  /\ inFlight' = 0
  /\ outputClosed' = TRUE
  /\ ended' = TRUE
  /\ Moving("producer", "gone", Tasks)
  /\ UNCHANGED <<bytes, inputClosed, completion, denial, denied, sourceVars,
                 want, dest, got, upstream, result>>

\* The input is closed and everything approved has gone: the stream ends, and
\* the Producer is dropped.
ProduceEnd ==
  /\ task["producer"] = "ready" /\ bytes = <<>> /\ inputClosed
  /\ inFlight' = 0
  /\ FinishDenial(bytes, 0, denied)
  /\ outputClosed' = TRUE
  /\ ended' = TRUE
  /\ Moving("producer", "gone", Tasks)
  /\ UNCHANGED <<bytes, inputClosed, denied, sourceVars, want, dest, got, upstream, result>>

ProduceNothing ==
  /\ task["producer"] = "ready" /\ bytes = <<>> /\ ~inputClosed
  /\ inFlight' = 0
  /\ Moving("producer", IF "producer" \in finish THEN "idle" ELSE "parked", Freed)
  /\ UNCHANGED <<bytes, inputClosed, outputClosed, completion, denial, denied,
                 sourceVars, destVars, upstream, result>>

\* The destination drops its end: so does wasmtime the Producer.
Leave ==
  /\ MayLeave /\ task["producer"] # "gone"
  /\ outputClosed' = TRUE
  /\ Moving("producer", "gone", Tasks)
  /\ UNCHANGED <<bytes, inFlight, inputClosed, completion, denial, denied,
                 sourceVars, destVars, upstream, result>>

-----------------------------------------------------------------------------
(* Completion                                                              *)

\* When the upstream completion may resolve, and to what.  A host source has
\* none of its bytes unread by then; a host destination has seen the end of
\* the stream, or given up on it.
MayComplete(v) ==
  IF direction = "read"
    THEN offer = 0 /\ (v = "ok" => taken = Total \/ task["consumer"] = "gone")
    ELSE task["producer"] = "gone" /\ (v = "ok" => ended)

\* Variant: the upstream completion counts although a chunk was denied.
CompletionOutranks(v) ==
  /\ upstream = "pending" /\ MayComplete(v)
  /\ upstream' = v
  /\ IF completion = "none"
       THEN completion' = v /\ UNCHANGED denial
       ELSE UNCHANGED <<completion, denial>>
  /\ inputClosed' = TRUE
  /\ Moving("none", "idle", Tasks)
  /\ UNCHANGED <<bytes, inFlight, outputClosed, denied, sourceVars, destVars, result>>

\* CompletionConsumer reads it: it counts unless a denial came first.
CompletionArrives(v) ==
  /\ upstream = "pending" /\ MayComplete(v)
  /\ upstream' = v
  /\ IF ~denied /\ completion = "none"
       THEN completion' = v /\ UNCHANGED denial
       ELSE FinishDenial(bytes, inFlight, denied)
  /\ inputClosed' = TRUE
  /\ Moving("none", "idle", Tasks)
  /\ UNCHANGED <<bytes, inFlight, outputClosed, denied, sourceVars, destVars, result>>

ReadFuture ==
  /\ task["future"] = "idle"
  /\ task' = [task EXCEPT !["future"] = "ready"]
  /\ UNCHANGED <<shared, wakers, finish, sourceVars, destVars, upstream, result>>

PollFuture ==
  /\ task["future"] = "ready"
  /\ IF completion # "none"
       THEN /\ result' = completion
            /\ completion' = "none"
            /\ Moving("future", "gone", {})
       ELSE /\ Moving("future", IF "future" \in finish THEN "idle" ELSE "parked", {})
            /\ UNCHANGED <<completion, result>>
  /\ UNCHANGED <<bytes, inFlight, inputClosed, outputClosed, denial, denied,
                 sourceVars, destVars, upstream>>

\* A pending write or read is cancelled: wasmtime polls once more, to finish.
Cancel(t) ==
  /\ MayCancel /\ task[t] \in {"ready", "parked"} /\ t \notin finish
  /\ finish' = finish \cup {t}
  /\ task' = [task EXCEPT ![t] = "ready"]
  /\ UNCHANGED <<shared, wakers, sourceVars, destVars, upstream, result>>

-----------------------------------------------------------------------------

PollConsumer == ConsumeEmpty \/ ConsumeNothing \/ ConsumeBlocked \/ ConsumeAllowed \/ ConsumeDenied
PollProducer == Produce \/ ProduceEnd \/ ProduceNothing

\* Nothing is left to do: the stream is over and its completion reported.
Rest ==
  /\ task = [t \in Tasks |-> "gone"] /\ upstream # "pending"
  /\ UNCHANGED vars

Next ==
  \/ \E n \in Writes : Offer(n)
  \/ \E n \in 1..Total : Receive(n)
  \/ \E n \in Reads : Read(n)
  \/ \E v \in {"ok", "error"} : CompletionArrives(v)
  \/ \E t \in Tasks : Cancel(t)
  \/ SourceEnd \/ PollConsumer \/ PollProducer \/ Leave
  \/ ReadFuture \/ PollFuture
  \/ Rest

Spec == Init /\ [][Next]_vars

(* wasmtime polls what is ready; the source goes on to offer bytes until it *)
(* ends and the destination to read some, whatever either cancels between,  *)
(* and the completion is awaited.                                           *)
Fairness ==
  /\ WF_vars(PollConsumer) /\ WF_vars(PollProducer) /\ WF_vars(PollFuture)
  /\ SF_vars(SourceEnd \/ \E n \in Writes \ {0} : Offer(n))
  /\ SF_vars(\E n \in Reads \ {0} : Read(n)) /\ WF_vars(\E n \in 1..Total : Receive(n))
  /\ WF_vars(\E v \in {"ok", "error"} : CompletionArrives(v))
  /\ WF_vars(ReadFuture)

FairSpec == Spec /\ Fairness

-----------------------------------------------------------------------------
(* Properties                                                              *)

TypeOK ==
  /\ direction \in Directions
  /\ bytes \in Seq(1..Total) /\ dest \in Seq(1..Total) /\ got \in Seq(1..Total)
  /\ inFlight \in 0..Bound /\ taken \in 0..Total /\ offer \in 0..Total
  /\ want \in Reads \cup {0}
  /\ {inputClosed, outputClosed, denial, denied, ended} \subseteq BOOLEAN
  /\ completion \in {"none", "ok", "error", "denial"}
  /\ result \in {"none", "ok", "error", "denial"}
  /\ upstream \in {"pending", "ok", "error"}
  /\ task \in [Tasks -> {"idle", "ready", "parked", "gone"}]
  /\ wakers \subseteq Tasks /\ finish \subseteq Tasks

\* What the relay and the destination's buffer hold never exceeds the bound,
\* although the relay learns of bytes received only when it is polled again.
WithinBound ==
  /\ Len(bytes) + inFlight <= Bound
  /\ task["producer"] # "gone" => Len(dest) <= inFlight

\* The bytes received, handed over and queued are exactly those acknowledged
\* to the source, in order, and no other.
BytesConserved == got \o dest \o bytes = [i \in 1..taken |-> i]

\* The end of the stream comes after every acknowledged byte, also when the
\* input was closed by a denial or by the completion.
EndIsComplete == ended => Len(got) = taken

\* The relay is a pipe: what its two ends and the reader of its completion see
\* is what one bounded queue with a single completion would show them
\* (p3/mod.rs, StreamRelay).
Pipe == INSTANCE BytePipe WITH accepted <- taken, received <- got
PipeSpec == Pipe!Spec

\* A denial is reported only when every approved byte has arrived.
DenialAfterDrain == "denial" \in {completion, result} => Len(got) = taken

\* Once a chunk is denied, nothing but the denial is ever reported.
DenialOutranks == denied => {completion, result} \subseteq {"none", "denial"}

\* A side that waits has left its waker behind and has nothing it could do:
\* whatever lets it go on wakes it.
NoLostWakeup ==
  /\ \A t \in Tasks : task[t] = "parked" => t \in wakers
  /\ task["consumer"] = "parked" => Available = 0 /\ ~outputClosed
  /\ task["producer"] = "parked" => bytes = <<>> /\ inFlight = 0 /\ ~inputClosed
  /\ task["future"] = "parked" =>
       completion = "none" /\ ~(denied /\ bytes = <<>> /\ inFlight = 0)

\* A denied chunk makes the replacement completion future report the denial
\* (p3/mod.rs, StreamRelay).
DenialReported == denied ~> (result = "denial")

\* The destination has dropped its end before the stream's.
DestinationLeft == task["producer"] = "gone" /\ ~ended

\* While the destination reads on, the denial of a chunk is reported, although
\* reads and writes may be cancelled and made again.
DenialReachesReader == denied ~> (result = "denial" \/ DestinationLeft)

\* A stream whose source ends and whose destination reads on ends as well, and
\* its completion is reported.
StreamCompletes == <>((ended /\ result # "none") \/ DestinationLeft)
=============================================================================
