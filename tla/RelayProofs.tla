----------------------------- MODULE RelayProofs -----------------------------
(***************************************************************************)
(* What Relay guarantees for streams of any length, relays of any bound    *)
(* and reads and writes of any sizes, whatever is cancelled and whoever    *)
(* leaves.                                                                 *)
(***************************************************************************)
EXTENDS Relay, SequenceTheorems, TLAPS

\* What the source offers is still its to give, and a host source completes
\* only between two writes.
SourceShape ==
  /\ taken + offer <= Total
  /\ offer # 0 /\ direction = "read" => upstream = "pending"

\* The destination reads again once it has emptied its buffer, and what it has
\* not emptied is not taken for received.
DestShape ==
  /\ Len(bytes) + inFlight <= Bound
  /\ Len(dest) <= inFlight
  /\ task["producer"] \in {"ready", "parked"} => dest = <<>>
  /\ task["producer"] = "gone" => outputClosed

\* After the end of the stream nothing is under way.
EndShape == ended => bytes = <<>> /\ dest = <<>> /\ task["producer"] = "gone"

\* Until the upstream completion comes, only a denial can be reported; that of
\* a guest source comes when nobody reads any more.
UpstreamShape ==
  /\ upstream = "pending" => {completion, result} \subseteq {"none", "denial"}
  /\ upstream # "pending" /\ direction = "write" => outputClosed

\* A denial ends the input, is reported once everything approved has gone, and
\* then is on its way to the future or has reached it.
DenialShape ==
  /\ denied => task["consumer"] = "gone" /\ inputClosed
  /\ "denial" \in {completion, result} => denied /\ bytes = <<>> /\ dest = <<>>
  /\ ~denial => "denial" \in {completion, result}
  /\ denied /\ bytes = <<>> /\ inFlight = 0 => completion # "none" \/ result # "none"
  /\ result # "none" => task["future"] = "gone"

IInv ==
  /\ TypeOK
  /\ SourceShape
  /\ DestShape
  /\ EndShape
  /\ UpstreamShape
  /\ DenialShape
  /\ DenialOutranks
  /\ BytesConserved
  /\ NoLostWakeup

-----------------------------------------------------------------------------
(* Helpers                                                                 *)

\* The side that moves is where it goes; the others stay, but for those woken.
LEMMA MovingMoves ==
  ASSUME NEW t \in Tasks, NEW s \in {"idle", "ready", "parked", "gone"}, NEW ws \in SUBSET Tasks,
         task \in [Tasks -> {"idle", "ready", "parked", "gone"}],
         wakers \subseteq Tasks, finish \subseteq Tasks,
         Moving(t, s, ws)
  PROVE  /\ task' \in [Tasks -> {"idle", "ready", "parked", "gone"}]
         /\ wakers' \subseteq Tasks /\ finish' \subseteq Tasks
         /\ task'[t] = s
         /\ \A u \in Tasks \ {t} :
              \/ task'[u] = task[u] /\ (u \in ws /\ u \in wakers => task[u] # "parked")
              \/ task[u] = "parked" /\ task'[u] = "ready"
         /\ \A u \in Tasks \ {t} : task'[u] = "parked" /\ u \in wakers => u \in wakers'
         /\ s = "parked" => t \in wakers'
BY DEF Moving

\* What a step that moves a side does to the part of NoLostWakeup that is
\* about wakers, and to the sides that it does not move.
LEMMA MovingKeepsWakers ==
  ASSUME TypeOK, NoLostWakeup,
         NEW t \in Tasks, NEW s \in {"idle", "ready", "parked", "gone"}, NEW ws \in SUBSET Tasks,
         Moving(t, s, ws)
  PROVE  /\ \A u \in Tasks : task'[u] = "parked" => u \in wakers'
         /\ \A u \in Tasks \ {t} : task'[u] = "parked" => task[u] = "parked" /\ u \notin ws
<1>1. /\ task \in [Tasks -> {"idle", "ready", "parked", "gone"}]
      /\ wakers \subseteq Tasks /\ finish \subseteq Tasks
  BY DEF TypeOK
<1>2. \A u \in Tasks : task[u] = "parked" => u \in wakers
  BY DEF NoLostWakeup
<1> QED BY <1>1, <1>2, MovingMoves

\* A sequence cut in two is the sequence.
LEMMA Cut ==
  ASSUME NEW S, NEW s \in Seq(S), NEW n \in 0..Len(s)
  PROVE  /\ SubSeq(s, 1, n) \in Seq(S) /\ SubSeq(s, n + 1, Len(s)) \in Seq(S)
         /\ Len(SubSeq(s, 1, n)) = n /\ Len(SubSeq(s, n + 1, Len(s))) = Len(s) - n
         /\ SubSeq(s, 1, n) \o SubSeq(s, n + 1, Len(s)) = s
<1>1. Len(s) \in Nat /\ \A i \in 1..Len(s) : s[i] \in S
  BY LenProperties, ElementOfSeq
<1>2. SubSeq(s, 1, n) \in Seq(S) /\ Len(SubSeq(s, 1, n)) = n
  BY <1>1, SubSeqProperties
<1>3. /\ SubSeq(s, n + 1, Len(s)) \in Seq(S)
      /\ Len(SubSeq(s, n + 1, Len(s))) = Len(s) - n
  OBVIOUS
<1>4. SubSeq(s, 1, n) \o SubSeq(s, n + 1, Len(s)) = s
  <2> DEFINE l == SubSeq(s, 1, n)
             r == SubSeq(s, n + 1, Len(s))
  <2>1. \A i \in 1..n : l[i] = s[i]
    BY <1>1
  <2>2. \A i \in 1..(Len(s) - n) : r[i] = s[n + i]
    BY <1>1
  <2>3. l \in Seq(S) /\ Len(l) = n /\ r \in Seq(S) /\ Len(r) = Len(s) - n
    BY <1>2, <1>3
  <2> HIDE DEF l, r
  <2>4. /\ l \o r \in Seq(S) /\ Len(l \o r) = Len(s)
        /\ \A i \in 1..Len(s) : (l \o r)[i] = IF i <= n THEN l[i] ELSE r[i - n]
    BY <1>1, <2>3
  <2>5. \A i \in 1..Len(s) : (l \o r)[i] = s[i]
    BY <1>1, <2>1, <2>2, <2>4
  <2>6. l \o r = s
    BY <2>4, <2>5, SeqEqual
  <2> QED BY <2>6 DEF l, r
<1> QED BY <1>2, <1>3, <1>4

\* Pieces may be joined from either end.
LEMMA Rejoin ==
  ASSUME NEW S, NEW a \in Seq(S), NEW b \in Seq(S), NEW c \in Seq(S)
  PROVE  (a \o b) \o c = a \o (b \o c)
OBVIOUS

\* The bytes after the first m of the stream continue it.
LEMMA Continues ==
  ASSUME NEW m \in Nat, NEW n \in Nat
  PROVE  [i \in 1..m |-> i] \o [i \in 1..n |-> m + i] = [i \in 1..(m + n) |-> i]
<1> DEFINE a == [i \in 1..m |-> i]
           b == [i \in 1..n |-> m + i]
           c == [i \in 1..(m + n) |-> i]
<1>1. a \in Seq(Nat) /\ Len(a) = m
  BY IsASeq
<1>2. b \in Seq(Nat) /\ Len(b) = n
  BY IsASeq
<1>3. c \in Seq(Nat) /\ Len(c) = m + n
  BY IsASeq
<1>4. /\ a \o b \in Seq(Nat) /\ Len(a \o b) = m + n
      /\ \A i \in 1..(m + n) : (a \o b)[i] = IF i <= m THEN a[i] ELSE b[i - m]
  BY <1>1, <1>2, ConcatProperties
<1>5. \A i \in 1..(m + n) : (a \o b)[i] = c[i]
  BY <1>4
<1> QED BY <1>3, <1>4, <1>5, SeqEqual

\* So are the bytes of a chunk.
LEMMA ChunkIsSeq ==
  ASSUME NEW t \in Nat, NEW n \in Nat, NEW m \in Nat, t + n <= m
  PROVE  [i \in 1..n |-> t + i] \in Seq(1..m) /\ Len([i \in 1..n |-> t + i]) = n
<1>1. \A i \in 1..n : t + i \in 1..m
  OBVIOUS
<1>2. [i \in 1..n |-> t + i] \in [1..n -> 1..m]
  BY <1>1
<1> QED BY <1>2

-----------------------------------------------------------------------------
(* What the steps that move bytes do                                       *)

\* The sequences of the relay have lengths, and its counts are numbers.
LEMMA Counts ==
  ASSUME TypeOK
  PROVE  /\ Len(bytes) \in Nat /\ Len(dest) \in Nat /\ Len(got) \in Nat
         /\ Bound \in Nat /\ Total \in Nat /\ want \in Nat /\ inFlight \in Nat
         /\ taken \in Nat /\ offer \in Nat
<1>1. bytes \in Seq(1..Total) /\ dest \in Seq(1..Total) /\ got \in Seq(1..Total)
  BY DEF TypeOK
<1>2. Len(bytes) \in Nat /\ Len(dest) \in Nat /\ Len(got) \in Nat
  BY <1>1, LenProperties
<1>3. want \in Nat
  BY SizesAssumption DEF TypeOK
<1>4. inFlight \in Nat /\ taken \in Nat /\ offer \in Nat
  BY BoundAssumption DEF TypeOK
<1> QED BY <1>2, <1>3, <1>4, BoundAssumption

\* An allowed chunk fits the relay and is what the source had next.
LEMMA AllowedChunk ==
  ASSUME TypeOK, SourceShape, DestShape, ConsumeAllowed
  PROVE  \E count \in Nat \ {0} :
           /\ count <= offer /\ Len(bytes) + count + inFlight <= Bound
           /\ taken' = taken + count /\ taken' \in 0..Total
           /\ bytes' = bytes \o [i \in 1..count |-> taken + i]
           /\ bytes' \in Seq(1..Total) /\ Len(bytes') = Len(bytes) + count
           /\ offer' \in 0..(offer - count)
           /\ \/ /\ Moving("consumer", "parked", {"producer"})
                 /\ Len(bytes') = Bound /\ offer' # 0
              \/ /\ Moving("consumer", "idle", {"producer"})
                 /\ offer' = 0
<1> DEFINE count == Smaller(offer, Available)
           chunk == [i \in 1..count |-> taken + i]
<1>1. /\ taken \in 0..Total /\ offer \in 0..Total /\ taken + offer <= Total
      /\ bytes \in Seq(1..Total) /\ inFlight \in Nat /\ Len(bytes) + inFlight <= Bound
  BY BoundAssumption DEF TypeOK, SourceShape, DestShape
<1>2. Len(bytes) \in Nat /\ Bound \in Nat /\ Total \in Nat
  BY <1>1, LenProperties, BoundAssumption
<1>3. offer # 0 /\ Available > 0
  BY DEF ConsumeAllowed
<1>4. /\ count \in Nat \ {0} /\ count <= offer
      /\ Len(bytes) + count + inFlight <= Bound
  BY <1>1, <1>2, <1>3 DEF Smaller, Available
<1>5. taken + count \in 0..Total
  BY <1>1, <1>2, <1>4
<1>6. chunk \in Seq(1..Total) /\ Len(chunk) = count
  <2> HIDE DEF count
  <2> QED BY <1>1, <1>2, <1>4, ChunkIsSeq
<1>7. /\ taken' = taken + count
      /\ bytes' = bytes \o chunk
      /\ IF Len(bytes') = Bound /\ count < offer
           THEN Moving("consumer", "parked", {"producer"}) /\ offer' = offer - count
           ELSE Moving("consumer", "idle", {"producer"}) /\ offer' = 0
  BY DEF ConsumeAllowed
<1> HIDE DEF count, chunk
<1>8. bytes' \in Seq(1..Total) /\ Len(bytes') = Len(bytes) + count
  BY <1>1, <1>6, <1>7, ConcatProperties
<1>9. /\ offer' \in 0..(offer - count)
      /\ \/ /\ Moving("consumer", "parked", {"producer"})
            /\ Len(bytes') = Bound /\ offer' # 0
         \/ /\ Moving("consumer", "idle", {"producer"})
            /\ offer' = 0
  BY <1>1, <1>2, <1>4, <1>7
<1>10. bytes' = bytes \o [i \in 1..count |-> taken + i]
  BY <1>7 DEF chunk
<1> QED BY <1>4, <1>5, <1>7, <1>8, <1>9, <1>10

\* What is handed over is the front of the queue, and is in flight.
LEMMA ProducedBytes ==
  ASSUME TypeOK, Produce
  PROVE  \E count \in 0..Len(bytes) :
           /\ dest' = SubSeq(bytes, 1, count)
           /\ bytes' = SubSeq(bytes, count + 1, Len(bytes))
           /\ dest' \in Seq(1..Total) /\ bytes' \in Seq(1..Total)
           /\ dest' \o bytes' = bytes
           /\ Len(dest') = count /\ Len(bytes') = Len(bytes) - count
           /\ inFlight' = count
<1>1. bytes \in Seq(1..Total) /\ want \in Nat /\ Len(bytes) \in Nat
  BY Counts DEF TypeOK
<1>2. Smaller(want, Len(bytes)) \in 0..Len(bytes)
  BY <1>1 DEF Smaller
<1>3. PICK count \in 0..Len(bytes) :
         /\ dest' = SubSeq(bytes, 1, count)
         /\ bytes' = SubSeq(bytes, count + 1, Len(bytes))
         /\ inFlight' = count
  BY <1>2 DEF Produce
<1> QED BY <1>1, <1>3, Cut

\* What is received is the front of the destination's buffer.
LEMMA ReceivedBytes ==
  ASSUME TypeOK, NEW n \in 1..Total, Receive(n)
  PROVE  /\ got' \in Seq(1..Total) /\ dest' \in Seq(1..Total)
         /\ Len(dest') <= Len(dest)
         /\ got' \o dest' = got \o dest
<1>1. dest \in Seq(1..Total) /\ got \in Seq(1..Total) /\ Len(dest) \in Nat
  BY LenProperties DEF TypeOK
<1>2. /\ n \in 0..Len(dest)
      /\ got' = got \o SubSeq(dest, 1, n) /\ dest' = SubSeq(dest, n + 1, Len(dest))
  BY <1>1 DEF Receive
<1> DEFINE l == SubSeq(dest, 1, n)
           r == SubSeq(dest, n + 1, Len(dest))
<1>3. l \in Seq(1..Total) /\ r \in Seq(1..Total) /\ Len(r) = Len(dest) - n /\ l \o r = dest
  BY <1>1, <1>2, Cut
<1>4. got' = got \o l /\ dest' = r
  BY <1>2
<1> HIDE DEF l, r
<1>5. got \o l \in Seq(1..Total)
  BY <1>1, <1>3, ConcatProperties
<1>6. (got \o l) \o r = got \o (l \o r)
  <2>1. \A a, b, c \in Seq(1..Total) : (a \o b) \o c = a \o (b \o c)
    OBVIOUS
  <2> QED BY <1>1, <1>3, <2>1
<1>7. got' \o dest' = got \o dest
  BY <1>3, <1>4, <1>6
<1>8. Len(dest') <= Len(dest)
  BY <1>1, <1>2, <1>3, <1>4
<1> QED BY <1>3, <1>4, <1>5, <1>7, <1>8

-----------------------------------------------------------------------------
(* The invariant is inductive                                              *)

\* Nothing has happened at first.
LEMMA Initial == Init => IInv
<1> SUFFICES ASSUME Init PROVE IInv
  OBVIOUS
<1>1. TypeOK
  <2>1. 0 \in 0..Bound /\ 0 \in 0..Total
    BY BoundAssumption
  <2>2. <<>> \in Seq(1..Total)
    OBVIOUS
  <2> QED BY <2>1, <2>2 DEF Init, TypeOK
<1>2. SourceShape /\ DestShape /\ EndShape /\ UpstreamShape /\ DenialShape
  BY BoundAssumption DEF Init, SourceShape, DestShape, EndShape, UpstreamShape, DenialShape, Tasks
<1>3. BytesConserved
  BY DEF Init, BytesConserved
<1>4. DenialOutranks /\ NoLostWakeup
  BY DEF Init, DenialOutranks, NoLostWakeup, Tasks
<1> QED BY <1>1, <1>2, <1>3, <1>4 DEF IInv

\* The types of what is kept, and the room there is for it.
LEMMA TypeKeeps ==
  ASSUME TypeOK, SourceShape, DestShape, [Next]_vars
  PROVE  TypeOK'
<1> USE DEF TypeOK
<1>1. CASE ConsumeAllowed
  <2>1. PICK count \in Nat \ {0} :
          /\ taken' \in 0..Total /\ bytes' \in Seq(1..Total) /\ offer' \in 0..(offer - count)
          /\ \/ Moving("consumer", "parked", {"producer"})
             \/ Moving("consumer", "idle", {"producer"})
    BY <1>1, AllowedChunk
  <2>2. offer' \in 0..Total
    BY <2>1, Counts
  <2>3. /\ task' \in [Tasks -> {"idle", "ready", "parked", "gone"}]
        /\ wakers' \subseteq Tasks /\ finish' \subseteq Tasks
    BY <2>1, MovingMoves DEF Tasks
  <2>4. UNCHANGED <<inFlight, inputClosed, outputClosed, completion, denial, denied,
                    direction, destVars, upstream, result>>
    BY <1>1 DEF ConsumeAllowed
  <2> QED BY <2>1, <2>2, <2>3, <2>4 DEF destVars
<1>2. CASE Produce
  <2>1. PICK count \in 0..Len(bytes) :
          dest' \in Seq(1..Total) /\ bytes' \in Seq(1..Total) /\ inFlight' = count
    BY <1>2, ProducedBytes
  <2>2. inFlight' \in 0..Bound
    BY <2>1, Counts DEF DestShape
  <2>3. /\ task' \in [Tasks -> {"idle", "ready", "parked", "gone"}]
        /\ wakers' \subseteq Tasks /\ finish' \subseteq Tasks
    BY <1>2, MovingMoves DEF Produce, Freed, Tasks
  <2> QED BY <1>2, <2>1, <2>2, <2>3 DEF Produce, sourceVars
<1>3. CASE \E n \in 1..Total : Receive(n)
  BY <1>3, ReceivedBytes DEF Receive, shared, sourceVars
<1>4. CASE ConsumeEmpty
  BY <1>4, MovingMoves DEF ConsumeEmpty, shared, sourceVars, destVars, Tasks
<1>5. CASE ConsumeNothing \/ SourceEnd
  <2>1. Moving("consumer", "gone", Tasks) /\ offer' = 0 /\ inputClosed' = TRUE
    BY <1>5 DEF ConsumeNothing, SourceEnd, ConsumerGone
  <2>2. UNCHANGED <<bytes, inFlight, outputClosed, completion, denial, denied,
                    direction, taken, destVars, upstream, result>>
    BY <1>5 DEF ConsumeNothing, SourceEnd
  <2>3. 0 \in 0..Total
    BY BoundAssumption
  <2> QED BY <2>1, <2>2, <2>3, MovingMoves DEF destVars, Tasks
<1>6. CASE ConsumeBlocked
  <2>1. /\ \/ Moving("consumer", "idle", {}) /\ offer' = 0
           \/ Moving("consumer", "parked", {}) /\ offer' = offer
        /\ UNCHANGED <<shared, direction, taken, destVars, upstream, result>>
    BY <1>6 DEF ConsumeBlocked
  <2>2. 0 \in 0..Total
    BY BoundAssumption
  <2> QED BY <2>1, <2>2, MovingMoves DEF shared, destVars, Tasks
<1>7. CASE ConsumeDenied
  <2>1. Moving("consumer", "gone", Tasks) /\ offer' = 0 /\ inputClosed' = TRUE /\ denied' = TRUE
    BY <1>7 DEF ConsumeDenied, ConsumerGone
  <2>2. completion' \in {"none", "ok", "error", "denial"} /\ denial' \in BOOLEAN
    BY <1>7 DEF ConsumeDenied, FinishDenial
  <2>3. 0 \in 0..Total
    BY BoundAssumption
  <2> QED BY <1>7, <2>1, <2>2, <2>3, MovingMoves DEF ConsumeDenied, destVars, Tasks
<1>8. CASE ProduceEnd
  <2>1. Moving("producer", "gone", Tasks) /\ inFlight' = 0
    BY <1>8 DEF ProduceEnd
  <2>2. completion' \in {"none", "ok", "error", "denial"} /\ denial' \in BOOLEAN
    BY <1>8 DEF ProduceEnd, FinishDenial
  <2>3. 0 \in 0..Bound
    BY BoundAssumption
  <2> QED BY <1>8, <2>1, <2>2, <2>3, MovingMoves DEF ProduceEnd, sourceVars, Tasks
<1>9. CASE ProduceNothing
  <2>1. /\ Moving("producer", IF "producer" \in finish THEN "idle" ELSE "parked", Freed)
        /\ inFlight' = 0
    BY <1>9 DEF ProduceNothing
  <2>2. 0 \in 0..Bound
    BY BoundAssumption
  <2>3. /\ Freed \in SUBSET Tasks /\ "producer" \in Tasks
        /\ (IF "producer" \in finish THEN "idle" ELSE "parked") \in {"idle", "ready", "parked", "gone"}
    BY DEF Freed, Tasks
  <2>4. /\ task' \in [Tasks -> {"idle", "ready", "parked", "gone"}]
        /\ wakers' \subseteq Tasks /\ finish' \subseteq Tasks
    BY <2>1, <2>3, MovingMoves
  <2> QED BY <1>9, <2>1, <2>2, <2>4 DEF ProduceNothing, sourceVars, destVars
<1>10. CASE Leave
  BY <1>10, MovingMoves DEF Leave, sourceVars, destVars, Tasks
<1>11. CASE \E v \in {"ok", "error"} : CompletionArrives(v)
  <2>1. PICK v \in {"ok", "error"} : CompletionArrives(v)
    BY <1>11
  <2>2. completion' \in {"none", "ok", "error", "denial"} /\ denial' \in BOOLEAN
    BY <2>1 DEF CompletionArrives, FinishDenial
  <2>3. /\ task' \in [Tasks -> {"idle", "ready", "parked", "gone"}]
        /\ wakers' \subseteq Tasks /\ finish' \subseteq Tasks
    BY <2>1 DEF CompletionArrives, Moving, Tasks
  <2> QED BY <2>1, <2>2, <2>3 DEF CompletionArrives, sourceVars, destVars
<1>12. CASE PollFuture
  <2>1. /\ task' \in [Tasks -> {"idle", "ready", "parked", "gone"}]
        /\ wakers' \subseteq Tasks /\ finish' \subseteq Tasks
    <3>1. PICK s \in {"gone", "idle", "parked"} : Moving("future", s, {})
      BY <1>12 DEF PollFuture
    <3>2. "future" \in Tasks /\ {} \in SUBSET Tasks
      BY DEF Tasks
    <3> QED BY <3>1, <3>2, MovingMoves
  <2>2. \/ completion' = completion /\ result' = result
        \/ completion' = "none" /\ result' = completion
    BY <1>12 DEF PollFuture
  <2>3. {completion', result'} \subseteq {"none", "ok", "error", "denial"}
    BY <2>2
  <2> QED BY <1>12, <2>1, <2>3 DEF PollFuture, sourceVars, destVars
<1>13. CASE \E n \in Writes : Offer(n)
  <2>1. PICK n \in Writes : Offer(n)
    BY <1>13
  <2>2. n \in 0..Total
    BY <2>1, SizesAssumption, Counts DEF Offer
  <2> QED BY <2>1, <2>2 DEF Offer, shared, destVars
<1>14. CASE \E n \in Reads : Read(n)
  BY <1>14 DEF Read, shared, sourceVars
<1>15. CASE ReadFuture \/ \E t \in Tasks : Cancel(t)
  BY <1>15 DEF ReadFuture, Cancel, shared, sourceVars, destVars
<1>16. CASE UNCHANGED vars
  BY <1>16 DEF vars, shared, sourceVars, destVars
<1> QED
  BY <1>1, <1>2, <1>3, <1>4, <1>5, <1>6, <1>7, <1>8, <1>9, <1>10, <1>11, <1>12, <1>13,
     <1>14, <1>15, <1>16 DEF Next, PollConsumer, PollProducer, Rest

\* What the source has given and may yet give is what it has.
LEMMA SourceKeeps ==
  ASSUME TypeOK, SourceShape, DestShape, [Next]_vars
  PROVE  SourceShape'
<1> USE DEF SourceShape
<1>1. CASE ConsumeAllowed
  <2>1. PICK count \in Nat \ {0} :
          count <= offer /\ taken' = taken + count /\ offer' \in 0..(offer - count)
    BY <1>1, AllowedChunk
  <2>2. direction' = direction /\ upstream' = upstream /\ offer # 0
    BY <1>1 DEF ConsumeAllowed
  <2>3. count \in Nat /\ offer \in Nat /\ taken \in Nat /\ Total \in Nat /\ offer' \in Nat
    BY <2>1, Counts
  <2>4. taken + offer <= Total
    OBVIOUS
  <2>5. offer' <= offer - count
    BY <2>1, <2>3
  <2>6. taken' + offer' <= Total
    <3>1. \A a, b, c, n, most \in Nat : a + b <= most /\ c <= b - n => (a + n) + c <= most
      OBVIOUS
    <3>2. taken' = taken + count
      BY <2>1
    <3>3. (taken + count) + offer' <= Total
      BY <2>3, <2>4, <2>5, <3>1
    <3> QED BY <3>2, <3>3
  <2> QED BY <2>2, <2>6
<1>2. CASE ConsumeNothing \/ SourceEnd \/ ConsumeDenied
  <2>1. offer' = 0 /\ taken' = taken
    BY <1>2 DEF ConsumeNothing, SourceEnd, ConsumeDenied, ConsumerGone
  <2> QED BY <2>1, Counts
<1>3. CASE ConsumeBlocked
  BY <1>3, Counts DEF ConsumeBlocked
<1>4. CASE \E v \in {"ok", "error"} : CompletionArrives(v)
  BY <1>4 DEF CompletionArrives, MayComplete, sourceVars
<1>5. CASE \E n \in Writes : Offer(n)
  BY <1>5 DEF Offer
<1>6. CASE UNCHANGED <<sourceVars, upstream>>
  BY <1>6 DEF sourceVars
<1>7. CASE PollProducer \/ Leave \/ PollFuture \/ ReadFuture \/ ConsumeEmpty \/ UNCHANGED vars
  BY <1>6, <1>7 DEF PollProducer, Produce, ProduceEnd, ProduceNothing, Leave, PollFuture,
                    ReadFuture, ConsumeEmpty, vars
<1>8. CASE \/ \E n \in Reads : Read(n)
           \/ \E n \in 1..Total : Receive(n)
           \/ \E t \in Tasks : Cancel(t)
  BY <1>6, <1>8 DEF Read, Receive, Cancel
<1> QED
  BY <1>1, <1>2, <1>3, <1>4, <1>5, <1>7, <1>8 DEF Next, PollConsumer, Rest

\* How a step may move a side that it does not poll: only to wake it.
LEMMA OthersWoken ==
  ASSUME TypeOK, NEW t \in Tasks, NEW s \in {"idle", "ready", "parked", "gone"},
         NEW ws \in SUBSET Tasks, Moving(t, s, ws), NEW u \in Tasks \ {t}
  PROVE  task'[u] = task[u] \/ (task[u] = "parked" /\ task'[u] = "ready")
<1>1. /\ task \in [Tasks -> {"idle", "ready", "parked", "gone"}]
      /\ wakers \subseteq Tasks /\ finish \subseteq Tasks
  BY DEF TypeOK
<1>2. \/ task'[u] = task[u] /\ (u \in ws /\ u \in wakers => task[u] # "parked")
      \/ task[u] = "parked" /\ task'[u] = "ready"
  BY <1>1, MovingMoves
<1> QED BY <1>2

\* The polls of the Consumer leave the destination alone and wake at most the
\* other sides.
LEMMA ConsumerMoves ==
  ASSUME TypeOK, PollConsumer \/ SourceEnd
  PROVE  /\ UNCHANGED <<inFlight, outputClosed, destVars, result, upstream, direction>>
         /\ \A u \in {"producer", "future"} :
              task'[u] = task[u] \/ (task[u] = "parked" /\ task'[u] = "ready")
<1>1. PICK s \in {"idle", "ready", "parked", "gone"}, ws \in SUBSET Tasks : Moving("consumer", s, ws)
  BY DEF PollConsumer, SourceEnd, ConsumeEmpty, ConsumeNothing, ConsumeBlocked, ConsumeAllowed,
         ConsumeDenied, ConsumerGone, Tasks
<1>2. UNCHANGED <<inFlight, outputClosed, destVars, result, upstream, direction>>
  BY DEF PollConsumer, SourceEnd, ConsumeEmpty, ConsumeNothing, ConsumeBlocked, ConsumeAllowed,
         ConsumeDenied, shared, sourceVars
<1> QED BY <1>1, <1>2, OthersWoken DEF Tasks

\* The destination's buffer, the bytes in flight and the queue.
LEMMA DestKeeps ==
  ASSUME TypeOK, SourceShape, DestShape, [Next]_vars
  PROVE  DestShape'
<1> USE DEF DestShape
<1>1. CASE PollConsumer \/ SourceEnd
  <2>1. Len(bytes') + inFlight <= Bound
    <3>1. CASE ConsumeAllowed
      BY <3>1, AllowedChunk
    <3>2. CASE ~ConsumeAllowed
      BY <1>1, <3>2 DEF PollConsumer, SourceEnd, ConsumeEmpty, ConsumeNothing, ConsumeBlocked,
                        ConsumeDenied, shared
    <3> QED BY <3>1, <3>2
  <2> QED BY <1>1, <2>1, ConsumerMoves DEF destVars
<1>2. CASE Produce
  <2>1. PICK count \in 0..Len(bytes) :
          Len(dest') = count /\ Len(bytes') = Len(bytes) - count /\ inFlight' = count
    BY <1>2, ProducedBytes
  <2>2. task'["producer"] = "idle"
    BY <1>2 DEF Produce, Moving, Tasks
  <2> QED BY <2>1, <2>2, Counts
<1>3. CASE \E n \in 1..Total : Receive(n)
  <2>1. PICK n \in 1..Total : Receive(n)
    BY <1>3
  <2>2. Len(dest') <= Len(dest) /\ Len(dest') \in Nat
    BY <2>1, ReceivedBytes, LenProperties
  <2>3. n \in 1..Len(dest)
    BY <2>1 DEF Receive
  <2>4. task["producer"] \notin {"ready", "parked"}
    BY <2>3, Counts
  <2>5. UNCHANGED <<bytes, inFlight, outputClosed, task>>
    BY <2>1 DEF Receive, shared
  <2> QED BY <2>2, <2>4, <2>5, Counts
<1>4. CASE ProduceEnd
  <2>1. task'["producer"] = "gone" /\ outputClosed' = TRUE
    BY <1>4 DEF ProduceEnd, Moving, Tasks
  <2>2. inFlight' = 0 /\ bytes' = bytes /\ dest' = dest /\ dest = <<>>
    BY <1>4 DEF ProduceEnd
  <2> QED BY <2>1, <2>2, Counts
<1>5. CASE ProduceNothing
  <2>1. inFlight' = 0 /\ bytes' = bytes /\ dest' = dest /\ dest = <<>>
        /\ outputClosed' = outputClosed
    BY <1>5 DEF ProduceNothing, destVars
  <2>2. task'["producer"] \in {"idle", "parked"}
    BY <1>5 DEF ProduceNothing, Moving, Tasks
  <2> QED BY <2>1, <2>2, Counts
<1>6. CASE Leave
  <2>1. task'["producer"] = "gone" /\ outputClosed' = TRUE
    BY <1>6 DEF Leave, Moving, Tasks
  <2> QED BY <1>6, <2>1 DEF Leave, destVars
<1>7. CASE \E v \in {"ok", "error"} : CompletionArrives(v)
  <2>1. task'["producer"] = task["producer"]
          \/ (task["producer"] = "parked" /\ task'["producer"] = "ready")
    BY <1>7 DEF CompletionArrives, Moving, Tasks
  <2> QED BY <1>7, <2>1 DEF CompletionArrives, destVars
<1>8. CASE PollFuture
  <2>1. task'["producer"] = task["producer"]
    BY <1>8 DEF PollFuture, Moving, Tasks
  <2> QED BY <1>8, <2>1 DEF PollFuture, destVars
<1>9. CASE \E n \in Reads : Read(n)
  BY <1>9 DEF Read, shared
<1>10. CASE \E n \in Writes : Offer(n)
  BY <1>10 DEF Offer, shared, destVars, TypeOK, Tasks
<1>11. CASE ReadFuture
  BY <1>11 DEF ReadFuture, shared, destVars, TypeOK, Tasks
<1>12. CASE \E t \in Tasks : Cancel(t)
  BY <1>12 DEF Cancel, shared, destVars, TypeOK, Tasks
<1>13. CASE UNCHANGED vars
  BY <1>13 DEF vars, shared, destVars
<1> QED
  BY <1>1, <1>2, <1>3, <1>4, <1>5, <1>6, <1>7, <1>8, <1>9, <1>10, <1>11, <1>12, <1>13
     DEF Next, PollProducer, Rest

\* After the end nothing is under way any more, and nothing comes after it.
LEMMA EndKeeps ==
  ASSUME TypeOK, DestShape, EndShape, [Next]_vars
  PROVE  EndShape'
<1> SUFFICES ASSUME ended' PROVE bytes' = <<>> /\ dest' = <<>> /\ task'["producer"] = "gone"
  BY DEF EndShape
<1>1. CASE ProduceEnd
  <2>1. task'["producer"] = "gone" /\ bytes' = <<>>
    BY <1>1 DEF ProduceEnd, Moving, Tasks
  <2>2. dest' = <<>>
    BY <1>1 DEF ProduceEnd, DestShape
  <2> QED BY <2>1, <2>2
<1>2. CASE ~ProduceEnd
  <2>1. ended /\ bytes = <<>> /\ dest = <<>> /\ task["producer"] = "gone" /\ outputClosed
    <3>1. ended
      BY <1>2 DEF Next, vars, shared, sourceVars, destVars, PollConsumer, ConsumeEmpty, ConsumeNothing,
        ConsumeBlocked, ConsumeAllowed, ConsumeDenied, PollProducer, Produce, ProduceNothing,
        Leave, SourceEnd, CompletionArrives, PollFuture, ReadFuture, Read, Receive, Offer, Cancel, Rest
    <3> QED BY <3>1 DEF EndShape, DestShape
  <2>2. CASE PollConsumer \/ SourceEnd
    <3>1. ~ConsumeAllowed
      BY <2>1 DEF ConsumeAllowed
    <3>2. bytes' = bytes
      BY <2>2, <3>1 DEF PollConsumer, SourceEnd, ConsumeEmpty, ConsumeNothing, ConsumeBlocked,
                        ConsumeDenied, shared
    <3> QED BY <2>1, <2>2, <3>2, ConsumerMoves DEF destVars
  <2>3. CASE PollProducer
    BY <1>2, <2>1, <2>3 DEF PollProducer, Produce, ProduceNothing
  <2>4. CASE Leave \/ (\E n \in Reads : Read(n))
    BY <2>1, <2>4 DEF Leave, Read
  <2>5. CASE \E n \in 1..Total : Receive(n)
    BY <2>1, <2>5 DEF Receive
  <2>6. CASE \E v \in {"ok", "error"} : CompletionArrives(v)
    <3>1. task'["producer"] = "gone"
      BY <2>1, <2>6 DEF CompletionArrives, Moving, Tasks
    <3> QED BY <2>1, <2>6, <3>1 DEF CompletionArrives, destVars
  <2>7. CASE PollFuture
    <3>1. task'["producer"] = "gone"
      BY <2>1, <2>7 DEF PollFuture, Moving, Tasks
    <3> QED BY <2>1, <2>7, <3>1 DEF PollFuture, destVars
  <2>8. CASE ReadFuture \/ (\E n \in Writes : Offer(n)) \/ (\E t \in Tasks : Cancel(t))
    BY <2>1, <2>8 DEF ReadFuture, Offer, Cancel, shared, destVars, TypeOK, Tasks
  <2>9. CASE UNCHANGED vars
    BY <2>1, <2>9 DEF vars, shared, destVars
  <2> QED BY <2>2, <2>3, <2>4, <2>5, <2>6, <2>7, <2>8, <2>9 DEF Next, Rest
<1> QED BY <1>1, <1>2

\* Before the upstream completion only a denial is reported.
LEMMA UpstreamKeeps ==
  ASSUME TypeOK, DestShape, UpstreamShape, [Next]_vars
  PROVE  UpstreamShape'
<1> USE DEF UpstreamShape
<1>1. CASE \E v \in {"ok", "error"} : CompletionArrives(v)
  BY <1>1 DEF CompletionArrives, MayComplete, DestShape, sourceVars
<1>2. CASE PollFuture
  <2>1. UNCHANGED <<upstream, direction, outputClosed>>
    BY <1>2 DEF PollFuture, sourceVars
  <2>2. {completion', result'} \subseteq {"none"} \cup {completion, result}
    BY <1>2 DEF PollFuture
  <2> QED BY <2>1, <2>2
<1>3. CASE ConsumeDenied \/ ProduceEnd
  <2>1. completion' \in {completion, "denial"}
    BY <1>3 DEF ConsumeDenied, ProduceEnd, FinishDenial
  <2>2. result' = result /\ upstream' = upstream /\ direction' = direction
          /\ (outputClosed => outputClosed')
    BY <1>3 DEF ConsumeDenied, ProduceEnd, sourceVars
  <2> QED BY <2>1, <2>2
<1>4. CASE UNCHANGED <<completion, result, upstream, direction>> /\ (outputClosed => outputClosed')
  BY <1>4
<1>5. CASE ConsumeEmpty \/ ConsumeNothing \/ ConsumeBlocked \/ ConsumeAllowed \/ SourceEnd
  BY <1>4, <1>5 DEF ConsumeEmpty, ConsumeNothing, ConsumeBlocked, ConsumeAllowed, SourceEnd,
                    shared, sourceVars
<1>6. CASE Produce \/ ProduceNothing \/ Leave
  BY <1>4, <1>6 DEF Produce, ProduceNothing, Leave, sourceVars
<1>7. CASE \/ \E n \in Reads : Read(n)
           \/ \E n \in 1..Total : Receive(n)
           \/ \E n \in Writes : Offer(n)
           \/ \E t \in Tasks : Cancel(t)
           \/ ReadFuture \/ UNCHANGED vars
  BY <1>4, <1>7 DEF Read, Receive, Offer, Cancel, ReadFuture, vars, shared, sourceVars
<1> QED
  BY <1>1, <1>2, <1>3, <1>5, <1>6, <1>7 DEF Next, PollConsumer, PollProducer, Rest

\* A side that has gone does not come back.
LEMMA GoneStays ==
  ASSUME TypeOK, [Next]_vars, NEW u \in Tasks, task[u] = "gone"
  PROVE  task'[u] = "gone"
<1>1. CASE PollConsumer \/ SourceEnd
  <2>1. PICK s \in {"idle", "ready", "parked", "gone"}, ws \in SUBSET Tasks : Moving("consumer", s, ws)
    BY <1>1 DEF PollConsumer, SourceEnd, ConsumeEmpty, ConsumeNothing, ConsumeBlocked,
                ConsumeAllowed, ConsumeDenied, ConsumerGone, Tasks
  <2>2. task["consumer"] # "gone"
    BY <1>1 DEF PollConsumer, SourceEnd, ConsumeEmpty, ConsumeNothing, ConsumeBlocked,
                ConsumeAllowed, ConsumeDenied
  <2> QED BY <2>1, <2>2 DEF Moving
<1>2. CASE PollProducer \/ Leave
  <2>1. PICK s \in {"idle", "ready", "parked", "gone"}, ws \in SUBSET Tasks : Moving("producer", s, ws)
    BY <1>2 DEF PollProducer, Produce, ProduceEnd, ProduceNothing, Leave, Freed, Tasks
  <2>2. task["producer"] # "gone" \/ Leave
    BY <1>2 DEF PollProducer, Produce, ProduceEnd, ProduceNothing
  <2> QED BY <2>1, <2>2 DEF Moving, Leave
<1>3. CASE PollFuture
  <2>1. PICK s \in {"idle", "parked", "gone"} : Moving("future", s, {})
    BY <1>3 DEF PollFuture
  <2>2. task["future"] # "gone"
    BY <1>3 DEF PollFuture
  <2> QED BY <2>1, <2>2 DEF Moving
<1>5. CASE \E v \in {"ok", "error"} : CompletionArrives(v)
  <2>1. Moving("none", "idle", Tasks)
    BY <1>5 DEF CompletionArrives
  <2> QED BY <2>1 DEF Moving, Tasks
<1>4. CASE \/ \E n \in Reads : Read(n)
           \/ \E n \in 1..Total : Receive(n)
           \/ \E n \in Writes : Offer(n)
           \/ \E t \in Tasks : Cancel(t)
           \/ ReadFuture \/ UNCHANGED vars
  BY <1>4 DEF Read, Receive, Offer, Cancel, ReadFuture, vars, TypeOK
<1> QED
  BY <1>1, <1>2, <1>3, <1>4, <1>5 DEF Next, Rest

\* A denial waits for what was approved before it, and outranks the rest.
LEMMA DenialKeeps ==
  ASSUME TypeOK, SourceShape, DestShape, EndShape, UpstreamShape, DenialShape, DenialOutranks,
         [Next]_vars
  PROVE  DenialShape' /\ DenialOutranks'
<1> USE DEF DenialShape, DenialOutranks
<1>1. CASE ConsumeDenied
  <2>1. upstream = "pending"
    BY <1>1, ModeAssumption DEF ConsumeDenied, SourceShape, UpstreamShape, TypeOK
  <2>2. {completion, result} \subseteq {"none", "denial"}
    BY <2>1 DEF UpstreamShape
  <2>3. ~denied /\ "denial" \notin {completion, result} /\ denial
    BY <1>1 DEF ConsumeDenied, TypeOK
  <2>4. completion = "none" /\ result = "none"
    BY <2>2, <2>3
  <2>5. denied' /\ inputClosed' /\ result' = "none" /\ bytes' = bytes /\ inFlight' = inFlight
          /\ dest' = dest
    BY <1>1, <2>4 DEF ConsumeDenied, ConsumerGone, destVars
  <2>6. IF bytes = <<>> /\ inFlight = 0 THEN completion' = "denial" ELSE completion' = "none" /\ denial'
    BY <1>1, <2>3, <2>4 DEF ConsumeDenied, FinishDenial
  <2>7. task'["consumer"] = "gone"
    BY <1>1 DEF ConsumeDenied, ConsumerGone, Moving, Tasks
  <2>8. inFlight = 0 => dest = <<>>
    BY Counts, EmptySeq DEF DestShape, TypeOK
  <2> QED BY <2>4, <2>5, <2>6, <2>7, <2>8
<1>2. CASE ~ConsumeDenied
  <2>1. denied' = denied
    BY <1>2 DEF Next, vars, shared, sourceVars, destVars, PollConsumer, ConsumeEmpty, ConsumeNothing,
      ConsumeBlocked, ConsumeAllowed, PollProducer, Produce, ProduceEnd, ProduceNothing,
      Leave, SourceEnd, CompletionArrives, PollFuture, ReadFuture, Read, Receive, Offer, Cancel, Rest
  <2>2. inputClosed => inputClosed'
    BY DEF Next, vars, shared, sourceVars, destVars, PollConsumer, ConsumeEmpty, ConsumeNothing,
      ConsumeBlocked, ConsumeAllowed, ConsumeDenied, ConsumerGone, PollProducer, Produce, ProduceEnd,
      ProduceNothing, Leave, SourceEnd, CompletionArrives, PollFuture, ReadFuture, Read, Receive,
      Offer, Cancel, Rest
  <2>3. denied' => task'["consumer"] = "gone" /\ inputClosed'
    BY <2>1, <2>2, GoneStays DEF Tasks
  <2>4. result # "none" => task'["future"] = "gone"
    BY GoneStays DEF Tasks
  <2>5. inFlight = 0 => dest = <<>>
    BY Counts, EmptySeq DEF DestShape, TypeOK
  <2>6. CASE ProduceEnd
    <3>1. /\ bytes = <<>> /\ bytes' = <<>> /\ dest = <<>> /\ dest' = <<>> /\ result' = result
          /\ FinishDenial(bytes, 0, denied)
      BY <2>6 DEF ProduceEnd, DestShape
    <3>2. \/ denied /\ completion = "none" /\ denial /\ completion' = "denial" /\ ~denial'
          \/ ~(denied /\ completion = "none" /\ denial) /\ completion' = completion /\ denial' = denial
      BY <3>1 DEF FinishDenial
    <3> QED BY <2>1, <2>3, <2>4, <3>1, <3>2
  <2>7. CASE \E v \in {"ok", "error"} : CompletionArrives(v)
    <3>1. PICK v \in {"ok", "error"} : CompletionArrives(v)
      BY <2>7
    <3>2. UNCHANGED <<bytes, inFlight, dest, result>>
      BY <3>1 DEF CompletionArrives, destVars
    <3>3. \/ ~denied /\ completion = "none" /\ completion' = v /\ denial' = denial
          \/ /\ denied /\ bytes = <<>> /\ inFlight = 0 /\ completion = "none" /\ denial
             /\ completion' = "denial" /\ ~denial'
          \/ /\ denied => ~(bytes = <<>> /\ inFlight = 0 /\ completion = "none" /\ denial)
             /\ completion' = completion /\ denial' = denial
      BY <3>1 DEF CompletionArrives, FinishDenial
    <3> QED BY <2>1, <2>3, <2>4, <2>5, <3>2, <3>3
  <2>8. CASE PollFuture
    <3>1. UNCHANGED <<bytes, inFlight, dest, denial>> /\ result = "none"
      BY <2>8 DEF PollFuture, destVars
    <3>2. \/ completion # "none" /\ result' = completion /\ completion' = "none"
             /\ task'["future"] = "gone"
          \/ completion = "none" /\ result' = result /\ completion' = completion
      BY <2>8 DEF PollFuture, Moving, Tasks
    <3> QED BY <2>1, <2>3, <3>1, <3>2
  <2>9. CASE UNCHANGED <<completion, result, denial>>
    <3>1. CASE UNCHANGED <<bytes, inFlight>> /\ (dest = <<>> => dest' = <<>>)
      BY <2>1, <2>3, <2>4, <2>9, <3>1
    <3>2. CASE Produce
      <4>1. "denial" \notin {completion, result} /\ Len(bytes) # 0
        BY <3>2, EmptySeq DEF Produce, TypeOK
      <4>2. ~(bytes' = <<>> /\ inFlight' = 0)
        BY <3>2, <4>1, ProducedBytes, Counts
      <4> QED BY <2>1, <2>3, <2>4, <2>9, <4>1, <4>2
    <3>3. CASE ~denied
      BY <2>1, <2>4, <2>9, <3>3
    <3>4. CASE \/ ConsumeEmpty \/ ConsumeNothing \/ ConsumeBlocked \/ ConsumeAllowed \/ SourceEnd
               \/ ProduceNothing
      <4>1. ~denied
        BY <3>4 DEF ConsumeEmpty, ConsumeNothing, ConsumeBlocked, ConsumeAllowed, SourceEnd, ProduceNothing
      <4> QED BY <3>3, <4>1
    <3>5. CASE \E n \in 1..Total : Receive(n)
      <4>1. dest # <<>> /\ UNCHANGED <<bytes, inFlight>>
        BY <3>5, Counts DEF Receive, shared
      <4> QED BY <3>1, <4>1
    <3>6. CASE \/ \E n \in Reads : Read(n)
               \/ \E n \in Writes : Offer(n)
               \/ \E t \in Tasks : Cancel(t)
               \/ Leave \/ ReadFuture \/ UNCHANGED vars
      BY <3>1, <3>6 DEF Read, Offer, Cancel, Leave, ReadFuture, vars, shared, destVars
    <3> QED
      BY <1>2, <2>6, <2>7, <2>8, <3>2, <3>4, <3>5, <3>6 DEF Next, PollConsumer, PollProducer, Rest
  <2>10. \/ ProduceEnd \/ PollFuture \/ (\E v \in {"ok", "error"} : CompletionArrives(v))
         \/ UNCHANGED <<completion, result, denial>>
    BY <1>2 DEF Next, vars, shared, PollConsumer, ConsumeEmpty, ConsumeNothing,
      ConsumeBlocked, ConsumeAllowed, PollProducer, Produce, ProduceNothing,
      Leave, SourceEnd, ReadFuture, Read, Receive, Offer, Cancel, Rest
  <2> QED BY <2>6, <2>7, <2>8, <2>9, <2>10
<1> QED BY <1>1, <1>2

\* The bytes received, handed over and queued are those acknowledged.
LEMMA BytesKept ==
  ASSUME TypeOK, SourceShape, DestShape, BytesConserved, [Next]_vars
  PROVE  BytesConserved'
<1> USE DEF BytesConserved
<1>1. bytes \in Seq(1..Total) /\ dest \in Seq(1..Total) /\ got \in Seq(1..Total)
  BY DEF TypeOK
<1>2. \A a, b, c \in Seq(1..Total) : (a \o b) \o c = a \o (b \o c)
  <2> SUFFICES ASSUME NEW a \in Seq(1..Total), NEW b \in Seq(1..Total), NEW c \in Seq(1..Total)
               PROVE  (a \o b) \o c = a \o (b \o c)
    OBVIOUS
  <2> HIDE DEF BytesConserved
  <2> QED BY ConcatAssociative
<1>3. CASE ConsumeAllowed
  <2>1. PICK count \in Nat \ {0} :
          /\ taken' = taken + count /\ taken' \in 0..Total
          /\ bytes' = bytes \o [i \in 1..count |-> taken + i]
    BY <1>3, AllowedChunk
  <2> DEFINE chunk == [i \in 1..count |-> taken + i]
  <2>2. chunk \in Seq(1..Total)
    <3>1. taken + count <= Total
      BY <2>1, Counts
    <3> QED BY <3>1, Counts, ChunkIsSeq
  <2>3. [i \in 1..taken |-> i] \o chunk = [i \in 1..(taken + count) |-> i]
    BY <2>1, Counts, Continues
  <2>4. bytes' = bytes \o chunk /\ got' = got /\ dest' = dest
    BY <1>3, <2>1 DEF ConsumeAllowed, destVars
  <2> HIDE DEF chunk
  <2>5. got \o dest \in Seq(1..Total)
    BY <1>1, ConcatProperties
  <2>6. ((got \o dest) \o bytes) \o chunk = (got \o dest) \o (bytes \o chunk)
    BY <1>1, <1>2, <2>2, <2>5
  <2> QED BY <2>1, <2>3, <2>4, <2>6
<1>4. CASE Produce
  <2>1. dest' \o bytes' = bytes /\ dest' \in Seq(1..Total) /\ bytes' \in Seq(1..Total)
    BY <1>4, ProducedBytes
  <2>2. dest = <<>> /\ got' = got /\ taken' = taken
    BY <1>4 DEF Produce, DestShape, sourceVars
  <2>3. got \o dest = got
    BY <1>1, <2>2, ConcatEmptySeq
  <2>4. (got \o dest') \o bytes' = got \o (dest' \o bytes')
    <3>1. got \in Seq(1..Total) /\ dest' \in Seq(1..Total) /\ bytes' \in Seq(1..Total)
      BY <1>1, <2>1
    <3> HIDE DEF BytesConserved
    <3> QED BY <1>2, <3>1
  <2>5. got \o (dest' \o bytes') = (got \o dest) \o bytes
    BY <2>1, <2>3
  <2> QED BY <2>2, <2>4, <2>5
<1>5. CASE \E n \in 1..Total : Receive(n)
  <2>1. bytes' = bytes /\ taken' = taken
    BY <1>5 DEF Receive, shared, sourceVars
  <2>2. got' \o dest' = got \o dest
    BY <1>5, ReceivedBytes
  <2> QED BY <2>1, <2>2
<1>6. CASE UNCHANGED <<bytes, dest, got, taken>>
  BY <1>6
<1>7. ConsumeAllowed \/ Produce \/ (\E n \in 1..Total : Receive(n)) \/ UNCHANGED <<bytes, dest, got, taken>>
  BY DEF Next, vars, shared, sourceVars, destVars, PollConsumer, ConsumeEmpty, ConsumeNothing,
      ConsumeBlocked, ConsumeDenied, PollProducer, ProduceEnd, ProduceNothing,
      Leave, SourceEnd, CompletionArrives, PollFuture, ReadFuture, Read, Offer, Cancel, Rest
<1> QED BY <1>3, <1>4, <1>5, <1>6, <1>7

\* Who sleeps left a waker and has nothing to do: what gives it something wakes it.
LEMMA WakeupsKeep ==
  ASSUME TypeOK, SourceShape, DestShape, NoLostWakeup, [Next]_vars, DenialShape'
  PROVE  NoLostWakeup'
<1> DEFINE Registered == \A t \in Tasks : task'[t] = "parked" => t \in wakers'
           Full == task'["consumer"] = "parked" => Available' = 0 /\ ~outputClosed'
           Empty == task'["producer"] = "parked" => bytes' = <<>> /\ inFlight' = 0 /\ ~inputClosed'
           Unresolved == task'["future"] = "parked" => completion' = "none"
<1>1. SUFFICES Registered /\ Full /\ Empty /\ Unresolved
  BY DEF NoLostWakeup, DenialShape
<1>2. /\ \A t \in Tasks : task[t] = "parked" => t \in wakers
      /\ task["consumer"] = "parked" => Available = 0 /\ ~outputClosed
      /\ task["producer"] = "parked" => bytes = <<>> /\ inFlight = 0 /\ ~inputClosed
      /\ task["future"] = "parked" => completion = "none"
  BY DEF NoLostWakeup
<1>3. \A t \in Tasks, s \in {"idle", "ready", "parked", "gone"}, ws \in SUBSET Tasks :
        Moving(t, s, ws) =>
          /\ Registered
          /\ task'[t] = s
          /\ \A u \in Tasks \ {t} : task'[u] = "parked" => task[u] = "parked" /\ u \notin ws
  <2> SUFFICES ASSUME NEW t \in Tasks, NEW s \in {"idle", "ready", "parked", "gone"},
                      NEW ws \in SUBSET Tasks, Moving(t, s, ws)
               PROVE  /\ Registered
                      /\ task'[t] = s
                      /\ \A u \in Tasks \ {t} : task'[u] = "parked" => task[u] = "parked" /\ u \notin ws
    OBVIOUS
  <2>1. task'[t] = s
    BY DEF Moving
  <2> QED BY <2>1, MovingKeepsWakers
<1>4. CASE ConsumeEmpty
  <2>1. Moving("consumer", "idle", {}) /\ UNCHANGED shared
    BY <1>4 DEF ConsumeEmpty
  <2> QED BY <1>2, <1>3, <2>1 DEF shared, Tasks
<1>5. CASE ConsumeNothing \/ ConsumeDenied \/ SourceEnd
  <2>1. Moving("consumer", "gone", Tasks)
    BY <1>5 DEF ConsumeNothing, ConsumeDenied, SourceEnd, ConsumerGone
  <2> QED BY <1>3, <2>1 DEF Tasks
<1>6. CASE ConsumeBlocked
  <2>1. Moving("consumer", "idle", {}) \/ Moving("consumer", "parked", {})
    BY <1>6 DEF ConsumeBlocked
  <2>2. UNCHANGED shared /\ Available = 0 /\ ~outputClosed
    BY <1>6 DEF ConsumeBlocked
  <2>3. Available' = Available
    BY <2>2 DEF shared, Available
  <2> QED BY <1>2, <1>3, <2>1, <2>2, <2>3 DEF shared, Tasks
<1>7. CASE ConsumeAllowed
  <2>1. /\ Len(bytes') + inFlight <= Bound
        /\ \/ Moving("consumer", "parked", {"producer"}) /\ Len(bytes') = Bound
           \/ Moving("consumer", "idle", {"producer"})
    BY <1>7, AllowedChunk
  <2>2. UNCHANGED <<inFlight, outputClosed, completion>> /\ ~outputClosed
    BY <1>7 DEF ConsumeAllowed
  <2>3. Len(bytes') = Bound => Available' = 0
    BY <2>1, <2>2, Counts DEF Available
  <2> QED BY <1>2, <1>3, <2>1, <2>2, <2>3 DEF Tasks
<1>8. CASE Produce
  <2>1. Moving("producer", "idle", Freed) /\ UNCHANGED <<outputClosed, completion>>
    BY <1>8 DEF Produce
  <2>2. "consumer" \notin Freed => inFlight = 0
    BY DEF Freed
  <2>3. Len(bytes') + inFlight' = Len(bytes)
    BY <1>8, ProducedBytes, Counts
  <2>4. Available = 0 /\ inFlight = 0 => Available' = 0
    BY <2>3, Counts DEF Available
  <2> QED BY <1>2, <1>3, <2>1, <2>2, <2>4 DEF Tasks, Freed
<1>9. CASE ProduceEnd \/ Leave
  <2>1. Moving("producer", "gone", Tasks)
    BY <1>9 DEF ProduceEnd, Leave
  <2> QED BY <1>3, <2>1 DEF Tasks
<1>10. CASE ProduceNothing
  <2>1. \/ Moving("producer", "idle", Freed)
        \/ Moving("producer", "parked", Freed)
    BY <1>10 DEF ProduceNothing
  <2>2. /\ bytes = <<>> /\ ~inputClosed /\ inFlight' = 0
        /\ UNCHANGED <<bytes, inputClosed, outputClosed, completion>>
    BY <1>10 DEF ProduceNothing
  <2>3. "consumer" \notin Freed => inFlight = 0
    BY DEF Freed
  <2>4. inFlight = 0 => Available' = Available
    BY <2>2 DEF Available
  <2> QED BY <1>2, <1>3, <2>1, <2>2, <2>3, <2>4 DEF Tasks, Freed
<1>11. CASE \E v \in {"ok", "error"} : CompletionArrives(v)
  <2>1. Moving("none", "idle", Tasks)
    BY <1>11 DEF CompletionArrives
  <2>2. \A t \in Tasks : task'[t] # "parked"
    BY <1>2, <2>1 DEF Moving, Tasks
  <2> QED BY <2>2 DEF Tasks
<1>12. CASE PollFuture
  <2>1. \/ Moving("future", "parked", {}) /\ completion = "none" /\ completion' = "none"
        \/ \E s \in {"idle", "gone"} : Moving("future", s, {})
    BY <1>12 DEF PollFuture
  <2>2. UNCHANGED <<bytes, inFlight, inputClosed, outputClosed>>
    BY <1>12 DEF PollFuture
  <2>3. Available' = Available
    BY <2>2 DEF Available
  <2> QED BY <1>2, <1>3, <2>1, <2>2, <2>3 DEF Tasks
<1>13. CASE UNCHANGED <<shared, wakers>> /\ \A t \in Tasks : task'[t] = "parked" => task[t] = "parked"
  <2>1. Available' = Available
    BY <1>13 DEF shared, Available
  <2> QED BY <1>2, <1>13, <2>1 DEF shared, Tasks
<1>14. CASE \/ \E n \in Reads : Read(n)
            \/ \E n \in 1..Total : Receive(n)
            \/ \E n \in Writes : Offer(n)
            \/ \E t \in Tasks : Cancel(t)
            \/ ReadFuture \/ UNCHANGED vars
  BY <1>13, <1>14 DEF Read, Receive, Offer, Cancel, ReadFuture, vars, TypeOK, Tasks
<1> QED
  BY <1>4, <1>5, <1>6, <1>7, <1>8, <1>9, <1>10, <1>11, <1>12, <1>14
     DEF Next, PollConsumer, PollProducer, Rest

\* A step keeps the invariant.
LEMMA Inductive == IInv /\ [Next]_vars => IInv'
<1> SUFFICES ASSUME IInv, [Next]_vars PROVE IInv'
  OBVIOUS
<1>1. TypeOK' /\ SourceShape' /\ DestShape'
  BY TypeKeeps, SourceKeeps, DestKeeps DEF IInv
<1>2. EndShape' /\ UpstreamShape'
  BY EndKeeps, UpstreamKeeps DEF IInv
<1>3. DenialShape' /\ DenialOutranks'
  BY DenialKeeps DEF IInv
<1>4. BytesConserved'
  BY BytesKept DEF IInv
<1>5. NoLostWakeup'
  BY <1>3, WakeupsKeep DEF IInv
<1> QED BY <1>1, <1>2, <1>3, <1>4, <1>5 DEF IInv

\* The invariant holds for ever.
LEMMA Invariance == Spec => []IInv
BY Initial, Inductive, PTL DEF Spec

-----------------------------------------------------------------------------
(* The theorems                                                            *)

\* Every variable keeps to its type: in particular the bytes in flight never
\* exceed the bound nor the acknowledged ones what the source had.
THEOREM Typing == Spec => []TypeOK
<1>1. IInv => TypeOK
  BY DEF IInv
<1> QED BY <1>1, Invariance, PTL

\* The queue, the bytes in flight and the destination's buffer stay within the
\* bound, for any bound (relay.rs, Consumer::poll_consume).
THEOREM BoundKept == Spec => []WithinBound
<1>1. IInv => WithinBound
  BY DEF IInv, DestShape, WithinBound
<1> QED BY <1>1, Invariance, PTL

\* Bytes arrive in order and once: those received, handed over and queued are
\* exactly those acknowledged to the source.
THEOREM BytesArrive == Spec => []BytesConserved
<1>1. IInv => BytesConserved
  BY DEF IInv
<1> QED BY <1>1, Invariance, PTL

\* What has been received is all that was acknowledged when nothing is queued
\* or in the destination's buffer.
LEMMA AllReceived ==
  ASSUME TypeOK, BytesConserved, bytes = <<>>, dest = <<>>
  PROVE  Len(got) = taken
<1>1. got \in Seq(1..Total) /\ taken \in Nat
  BY Counts DEF TypeOK
<1>2. got = [i \in 1..taken |-> i]
  BY <1>1, ConcatEmptySeq DEF BytesConserved
<1> QED BY <1>1, <1>2

\* The end of a stream comes after every acknowledged byte.
THEOREM EndAfterAll == Spec => []EndIsComplete
<1>1. IInv => EndIsComplete
  BY AllReceived DEF IInv, EndShape, EndIsComplete
<1> QED BY <1>1, Invariance, PTL

\* A denial is reported when every approved byte has arrived.
THEOREM DenialComesLast == Spec => []DenialAfterDrain
<1>1. IInv => DenialAfterDrain
  BY AllReceived DEF IInv, DenialShape, DenialAfterDrain
<1> QED BY <1>1, Invariance, PTL

\* Once a chunk is denied nothing but the denial is reported.
THEOREM DenialWins == Spec => []DenialOutranks
<1>1. IInv => DenialOutranks
  BY DEF IInv
<1> QED BY <1>1, Invariance, PTL

\* No side sleeps over something it could do.
THEOREM NobodyOversleeps == Spec => []NoLostWakeup
<1>1. IInv => NoLostWakeup
  BY DEF IInv
<1> QED BY <1>1, Invariance, PTL
-----------------------------------------------------------------------------
(* The relay implements the pipe                                           *)

\* The bytes on their way are those queued and those handed over, and the next
\* to be received are next in the stream.
LEMMA OnTheWay ==
  ASSUME TypeOK, BytesConserved
  PROVE  /\ Pipe!OnTheirWay = Len(dest) + Len(bytes)
         /\ \A i \in 1..Len(dest) : dest[i] = Len(got) + i
<1>1. /\ bytes \in Seq(1..Total) /\ dest \in Seq(1..Total) /\ got \in Seq(1..Total)
      /\ Len(bytes) \in Nat /\ Len(dest) \in Nat /\ Len(got) \in Nat /\ taken \in Nat
  BY Counts DEF TypeOK
<1> DEFINE front == got \o dest
           all == front \o bytes
<1>2. /\ front \in Seq(1..Total) /\ Len(front) = Len(got) + Len(dest)
      /\ \A i \in 1..Len(front) : front[i] = IF i <= Len(got) THEN got[i] ELSE dest[i - Len(got)]
  BY <1>1, ConcatProperties
<1>3. all = [i \in 1..taken |-> i]
  BY DEF BytesConserved
<1> HIDE DEF front
<1>4. /\ Len(all) = Len(front) + Len(bytes)
      /\ \A i \in 1..(Len(front) + Len(bytes)) :
           all[i] = IF i <= Len(front) THEN front[i] ELSE bytes[i - Len(front)]
  <2>1. front \in Seq(1..Total) /\ bytes \in Seq(1..Total)
    BY <1>1, <1>2
  <2> QED BY <2>1, ConcatProperties
<1>5. Len(all) = taken /\ \A i \in 1..taken : all[i] = i
  BY <1>1, <1>3
<1> HIDE DEF all
<1>6. taken = Len(got) + Len(dest) + Len(bytes)
  BY <1>2, <1>4, <1>5
<1>7. ASSUME NEW i \in 1..Len(dest) PROVE dest[i] = Len(got) + i
  <2> DEFINE k == Len(got) + i
  <2>1. /\ k \in 1..Len(front) /\ k \in 1..taken /\ k <= Len(front)
        /\ ~(k <= Len(got)) /\ k - Len(got) = i
    BY <1>1, <1>2, <1>6
  <2> HIDE DEF k
  <2>2. front[k] = dest[i]
    BY <1>2, <2>1
  <2>3. all[k] = front[k]
    BY <1>4, <1>5, <2>1
  <2>4. all[k] = k
    BY <1>5, <2>1
  <2> QED BY <2>2, <2>3, <2>4 DEF k
<1>8. Pipe!OnTheirWay = Len(dest) + Len(bytes)
  BY <1>1, <1>6 DEF Pipe!OnTheirWay
<1> QED BY <1>7, <1>8

\* The pipe is open while its source has something that somebody may read.
LEMMA OpenForChunks ==
  ASSUME IInv, task["consumer"] = "ready", offer # 0, ~outputClosed
  PROVE  Pipe!Open
<1>1. ~ended /\ ~denied
  BY DEF IInv, DestShape, EndShape, DenialShape
<1>2. upstream = "pending"
  BY ModeAssumption DEF IInv, TypeOK, SourceShape, UpstreamShape
<1>3. result = "none"
  BY <1>1, <1>2 DEF IInv, UpstreamShape, DenialShape
<1> QED BY <1>1, <1>3 DEF Pipe!Open

\* Each step of the relay is a step of the pipe or shows nothing at its ends:
\* an allowed chunk is accepted, a denied one denies, the destination's receipts
\* deliver, the end ends and the future reports.
LEMMA StepRefines == IInv /\ [Next]_vars => [Pipe!Next]_(Pipe!vars)
<1> SUFFICES ASSUME IInv, [Next]_vars PROVE [Pipe!Next]_(Pipe!vars)
  OBVIOUS
<1>1. TypeOK /\ SourceShape /\ DestShape /\ EndShape /\ DenialShape /\ BytesConserved
  BY DEF IInv
<1>2. /\ Len(bytes) \in Nat /\ Len(dest) \in Nat /\ inFlight \in Nat /\ Bound \in Nat
      /\ Len(bytes) + inFlight <= Bound /\ Len(dest) <= inFlight
  BY <1>1, Counts DEF DestShape
<1>3. Pipe!OnTheirWay = Len(dest) + Len(bytes)
  BY <1>1, OnTheWay
<1>4. CASE UNCHANGED <<taken, got, ended, denied, result>>
  BY <1>4 DEF Pipe!vars
<1>5. CASE ConsumeAllowed
  <2>1. PICK count \in Nat \ {0} :
          Len(bytes) + count + inFlight <= Bound /\ taken' = taken + count
    BY <1>1, <1>5, AllowedChunk
  <2>2. UNCHANGED <<got, ended, denied, result>> /\ Pipe!Open
    BY <1>5, OpenForChunks DEF ConsumeAllowed, destVars
  <2>3. count \in 1..Bound /\ Pipe!OnTheirWay + count <= Bound
    BY <1>2, <1>3, <2>1
  <2>4. Pipe!Accept(count)
    BY <2>1, <2>2, <2>3 DEF Pipe!Accept
  <2> QED BY <2>3, <2>4 DEF Pipe!Next
<1>6. CASE ConsumeDenied
  <2>1. Pipe!Deny
    BY <1>6, OpenForChunks DEF ConsumeDenied, destVars, Pipe!Deny
  <2> QED BY <2>1 DEF Pipe!Next
<1>7. ASSUME NEW n \in 1..Total, Receive(n) PROVE [Pipe!Next]_(Pipe!vars)
  <2>1. /\ n \in 1..Len(dest) /\ got' = got \o SubSeq(dest, 1, n)
        /\ UNCHANGED <<taken, ended, denied, result>>
    BY <1>7 DEF Receive, shared, sourceVars
  <2>2. dest # <<>>
    BY <1>2, <2>1
  <2>3. ~ended /\ result # "denial"
    BY <1>1, <2>2 DEF EndShape, DenialShape
  <2>4. SubSeq(dest, 1, n) = [i \in 1..n |-> Len(got) + i]
    <3>1. SubSeq(dest, 1, n) = [i \in 1..n |-> dest[i]]
      BY <1>2, <2>1
    <3>2. \A i \in 1..n : dest[i] = Len(got) + i
      <4>1. \A i \in 1..n : i \in 1..Len(dest)
        BY <1>2, <2>1
      <4> QED BY <1>1, <4>1, OnTheWay
    <3> QED BY <3>1, <3>2
  <2>5. n \in 1..Bound /\ n <= Pipe!OnTheirWay
    BY <1>2, <1>3, <2>1
  <2>6. Pipe!Deliver(n)
    BY <2>1, <2>3, <2>4, <2>5 DEF Pipe!Deliver
  <2> QED BY <2>5, <2>6 DEF Pipe!Next
<1>8. CASE ProduceEnd
  <2>1. /\ bytes = <<>> /\ task["producer"] = "ready" /\ ended' = TRUE
        /\ UNCHANGED <<taken, got, denied, result>>
    BY <1>8 DEF ProduceEnd, sourceVars
  <2>2. dest = <<>> /\ ~ended
    BY <1>1, <2>1 DEF DestShape, EndShape
  <2>3. Pipe!OnTheirWay = 0
    BY <1>3, <2>1, <2>2
  <2>4. Pipe!End
    BY <2>1, <2>2, <2>3 DEF Pipe!End
  <2> QED BY <2>4 DEF Pipe!Next
<1>9. CASE PollFuture
  <2>1. UNCHANGED <<taken, got, ended, denied>> /\ task["future"] = "ready"
    BY <1>9 DEF PollFuture, sourceVars, destVars
  <2>2. CASE completion = "none"
    BY <1>4, <1>9, <2>1, <2>2 DEF PollFuture
  <2>3. CASE completion # "none"
    <3>1. result' = completion /\ result = "none" /\ completion \in {"ok", "error", "denial"}
      BY <1>1, <1>9, <2>1, <2>3 DEF PollFuture, TypeOK, DenialShape
    <3>2. denied => completion = "denial"
      BY <2>3 DEF IInv, DenialOutranks
    <3>3. completion = "denial" => denied /\ bytes = <<>> /\ dest = <<>>
      BY <1>1 DEF DenialShape
    <3>4. bytes = <<>> /\ dest = <<>> => Pipe!OnTheirWay = 0
      BY <1>3
    <3>5. Pipe!Report(completion)
      BY <2>1, <3>1, <3>2, <3>3, <3>4 DEF Pipe!Report
    <3> QED BY <3>1, <3>5 DEF Pipe!Next
  <2> QED BY <2>2, <2>3
<1>10. \/ ConsumeAllowed \/ ConsumeDenied \/ (\E n \in 1..Total : Receive(n)) \/ ProduceEnd
       \/ PollFuture \/ UNCHANGED <<taken, got, ended, denied, result>>
  BY DEF Next, vars, shared, sourceVars, destVars, PollConsumer, ConsumeEmpty, ConsumeNothing,
      ConsumeBlocked, PollProducer, Produce, ProduceNothing, Leave, SourceEnd,
      CompletionArrives, ReadFuture, Read, Offer, Cancel, Rest
<1> QED BY <1>4, <1>5, <1>6, <1>7, <1>8, <1>9, <1>10

\* For any bound, sizes and direction, and whatever is cancelled or dropped, a
\* relayed stream behaves at its ends as one bounded queue with a single
\* completion.
THEOREM RelayImplementsPipe == Spec => PipeSpec
<1>1. Init => Pipe!Init
  BY DEF Init, Pipe!Init
<1> QED BY <1>1, StepRefines, Invariance, PTL DEF Spec, PipeSpec, Pipe!Spec
=============================================================================
