---------------------------- MODULE ChainProofs ----------------------------
(***************************************************************************)
(* What Chain guarantees for any number of calls, layers and kinds of      *)
(* dispatch.  The argument rests on one inductive invariant, IInv: the     *)
(* phase of a call determines what its layers know, and only the calls of  *)
(* dropped futures are ever queued or taken.                               *)
(***************************************************************************)
EXTENDS Chain, SequenceTheorems, TLAPS

\* What a call's history looks like in each phase.
PhaseShape ==
  \A c \in Calls :
    /\ phase[c] \in {"new", "delivering", "before"} =>
         /\ outcome[c] = "none" /\ c \notin ran
         /\ \A l \in Layers : l > Len(frames[c]) => view[c][l] = "none"
    /\ phase[c] \in {"new", "delivering", "draining", "done"} => frames[c] = <<>>
    /\ phase[c] = "body" =>
         outcome[c] = "none" /\ c \in ran /\ Len(frames[c]) = NLayers
    /\ phase[c] \in {"finishing", "after"} => outcome[c] \in {"returned", "failed"}
    /\ phase[c] = "dropped" => outcome[c] = "cancelled"

\* The queue and the batch hold calls of dropped futures only.
PendingAreDropped ==
  /\ \A i \in 1..Len(queue) : phase[queue[i]] = "dropped"
  /\ \A i \in 1..Len(batch) : phase[batch[i]] = "dropped"

IInv == TypeOK /\ FramesAreOpenLayers /\ PhaseShape /\ PendingAreDropped

-----------------------------------------------------------------------------
(* Sequences                                                               *)

\* The rest of a sequence after its first n elements.
LEMMA RestAfter ==
  ASSUME NEW S, NEW s \in Seq(S), NEW n \in 0..Len(s)
  PROVE  /\ SubSeq(s, n + 1, Len(s)) \in Seq(S)
         /\ Len(SubSeq(s, n + 1, Len(s))) = Len(s) - n
         /\ \A i \in 1..(Len(s) - n) : SubSeq(s, n + 1, Len(s))[i] = s[n + i]
OBVIOUS

\* Front drops the last element and nothing else.
LEMMA FrontProperties ==
  ASSUME NEW S, NEW s \in Seq(S), s # <<>>
  PROVE  /\ Front(s) \in Seq(S)
         /\ Len(Front(s)) = Len(s) - 1
         /\ \A i \in 1..(Len(s) - 1) : Front(s)[i] = s[i]
         /\ Last(s) \in S
         /\ Len(s) \in Nat \ {0}
<1>0. Len(s) \in Nat \ {0}
  BY EmptySeq
<1>1. \A i \in 1..(Len(s) - 1) : s[i] \in S
  BY <1>0, ElementOfSeq
<1>2. /\ Front(s) \in Seq(S)
      /\ Len(Front(s)) = Len(s) - 1
      /\ \A i \in 1..(Len(s) - 1) : Front(s)[i] = s[i]
  <2>1. PICK n \in Nat : n = Len(s) - 1
    BY <1>0
  <2>2. /\ SubSeq(s, 1, n) \in Seq(S)
        /\ Len(SubSeq(s, 1, n)) = IF 1 <= n THEN n - 1 + 1 ELSE 0
        /\ \A i \in 1..(n - 1 + 1) : SubSeq(s, 1, n)[i] = s[1 + i - 1]
    BY <1>1, <2>1, SubSeqProperties
  <2>3. (IF 1 <= n THEN n - 1 + 1 ELSE 0) = n
    OBVIOUS
  <2>4. \A i \in 1..n : 1 + i - 1 = i /\ i \in 1..(n - 1 + 1)
    OBVIOUS
  <2>5. Front(s) = SubSeq(s, 1, n)
    BY <2>1 DEF Front
  <2> QED BY <2>1, <2>2, <2>3, <2>4, <2>5
<1>3. Last(s) \in S
  BY <1>0, ElementOfSeq DEF Last
<1> QED BY <1>0, <1>2, <1>3

-----------------------------------------------------------------------------
(* The types                                                               *)

\* The dispatch that has the store is a call of the chain.
LEMMA HolderIsCall ==
  ASSUME TypeOK, NEW c \in Calls, Holds(c)
  PROVE  stack # <<>> /\ Front(stack) \in Seq(Calls)
BY FrontProperties DEF TypeOK, Holds

\* The initial states have the types.
LEMMA InitTypeOK == Init => TypeOK
BY EmptySeq, LayersAssumption DEF Init, TypeOK, Phases, Outcomes

\* Every step preserves the types.
LEMMA NextTypeOK == TypeOK /\ [Next]_vars => TypeOK'
<1> SUFFICES ASSUME TypeOK, [Next]_vars PROVE TypeOK'
  OBVIOUS
<1> USE DEF TypeOK, Phases, Outcomes
<1>1. ASSUME NEW c \in Calls, NEW k \in Kinds, Start(c, k) PROVE TypeOK'
  <2>1. k \in AllKinds
    BY KindsAssumption
  <2>2. stack' \in Seq(Calls)
    BY <1>1, AppendProperties DEF Start
  <2>3. ToSet(queue) \subseteq Calls
    BY ElementOfSeq, LenProperties DEF ToSet
  <2> QED BY <1>1, <2>1, <2>2, <2>3, EmptySeq DEF Start
<1>2. ASSUME NEW c \in Calls, DeliverHook(c) PROVE TypeOK'
  <2> DEFINE d == Head(batch)
  <2>1. d \in Calls
    BY <1>2, HeadTailProperties DEF DeliverHook
  <2>2. Front(frames[d]) \in Seq(Layers) /\ Innermost(d) \in Layers
    BY <1>2, <2>1, FrontProperties DEF DeliverHook, Innermost
  <2> QED BY <1>2, <2>1, <2>2 DEF DeliverHook
<1>3. ASSUME NEW c \in Calls, DeliverNext(c) PROVE TypeOK'
  BY <1>3, HeadTailProperties DEF DeliverNext
<1>4. ASSUME NEW c \in Calls, Ask(c) PROVE TypeOK'
  BY <1>4 DEF Ask
<1>5. ASSUME NEW c \in Calls, AllowHook(c) PROVE TypeOK'
  <2> DEFINE l == Len(frames[c]) + 1
  <2>1. l \in Layers
    BY <1>5, LenProperties, LayersAssumption DEF AllowHook, Layers
  <2>2. Append(frames[c], l) \in Seq(Layers)
    BY <2>1, AppendProperties
  <2> QED BY <1>5, <2>1, <2>2 DEF AllowHook
<1>6. ASSUME NEW c \in Calls, RefuseHook(c) PROVE TypeOK'
  <2>1. stack' \in Seq(Calls)
    BY <1>6, HolderIsCall DEF RefuseHook, Release
  <2>2. Len(frames[c]) + 1 \in Layers
    BY <1>6, LenProperties, LayersAssumption DEF RefuseHook, Layers
  <2> QED BY <1>6, <2>1, <2>2 DEF RefuseHook
<1>7. ASSUME NEW c \in Calls, EnterBody(c) PROVE TypeOK'
  <2>1. stack' \in Seq(Calls)
    BY <1>7, HolderIsCall DEF EnterBody, Release
  <2> QED BY <1>7, <2>1 DEF EnterBody
<1>8. ASSUME NEW c \in Calls, AfterHook(c) PROVE TypeOK'
  <2>1. Front(frames[c]) \in Seq(Layers) /\ Innermost(c) \in Layers
    BY <1>8, FrontProperties DEF AfterHook, Innermost
  <2> QED BY <1>8, <2>1 DEF AfterHook
<1>9. ASSUME NEW c \in Calls, Return(c) PROVE TypeOK'
  BY <1>9, HolderIsCall DEF Return
<1>10. ASSUME NEW c \in Calls, Drain(c) PROVE TypeOK'
  <2>1. ToSet(queue) \subseteq Calls
    BY ElementOfSeq, LenProperties DEF ToSet
  <2> QED BY <1>10, <2>1, EmptySeq DEF Drain
<1>11. ASSUME NEW c \in Calls, ReturnDrained(c) PROVE TypeOK'
  BY <1>11, HolderIsCall DEF ReturnDrained
<1>12. ASSUME NEW c \in Calls, Ended(c) PROVE TypeOK'
  BY <1>12 DEF Ended, EndBody
<1>13. ASSUME NEW c \in Calls, Finish(c) PROVE TypeOK'
  BY <1>13, AppendProperties DEF Finish
<1>14. ASSUME NEW c \in Calls, DropFuture(c) PROVE TypeOK'
  <2>1. stack' \in Seq(Calls)
    BY <1>14, HolderIsCall DEF DropFuture
  <2>2. queue' \in Seq(Calls) /\ drops' \in Seq(Calls)
    BY <1>14, AppendProperties DEF DropFuture
  <2> QED BY <1>14, <2>1, <2>2 DEF DropFuture
<1>15. ASSUME DropStore PROVE TypeOK'
  BY <1>15 DEF DropStore
<1>16. ASSUME UNCHANGED vars PROVE TypeOK'
  BY <1>16 DEF vars, code
<1> QED
  BY <1>1, <1>2, <1>3, <1>4, <1>5, <1>6, <1>7, <1>8, <1>9, <1>10, <1>11,
     <1>12, <1>13, <1>14, <1>15, <1>16 DEF Next, Hook, Rest

\* Every variable of the chain keeps its type.
THEOREM Typing == Spec => []TypeOK
BY InitTypeOK, NextTypeOK, PTL DEF Spec

-----------------------------------------------------------------------------
(* The inductive invariant                                                 *)

\* The frames of a call are the layers 1..Len(frames), in order.
LEMMA FramesShape ==
  ASSUME TypeOK, FramesAreOpenLayers, NEW c \in Calls
  PROVE  /\ Len(frames[c]) \in 0..NLayers
         /\ frames[c] # <<>> => Innermost(c) = Len(frames[c])
         /\ \A l \in Layers : view[c][l] = "open" <=> l <= Len(frames[c])
         /\ frames[c] = <<>> <=> Len(frames[c]) = 0
<1>1. frames[c] \in Seq(Layers)
  BY DEF TypeOK
<1>2. /\ Len(frames[c]) \in Nat
      /\ DOMAIN frames[c] = 1..Len(frames[c])
      /\ frames[c] = <<>> <=> Len(frames[c]) = 0
  BY <1>1, LenProperties, EmptySeq
<1>3. \A i \in 1..Len(frames[c]) : frames[c][i] = i /\ i \in Layers
  BY <1>1, <1>2, ElementOfSeq DEF FramesAreOpenLayers
<1>4. Len(frames[c]) \in 0..NLayers
  BY <1>2, <1>3, LayersAssumption DEF Layers
<1>5. frames[c] # <<>> => Innermost(c) = Len(frames[c])
  BY <1>2, <1>3 DEF Innermost, Last
<1>6. \A l \in Layers : view[c][l] = "open" <=> l <= Len(frames[c])
  BY <1>2 DEF FramesAreOpenLayers, Layers
<1> QED BY <1>2, <1>4, <1>5, <1>6

\* Initially no layer knows of any call.
LEMMA InitIInv == Init => IInv
<1> SUFFICES ASSUME Init PROVE IInv
  OBVIOUS
<1>1. TypeOK
  BY InitTypeOK
<1>2. FramesAreOpenLayers
  BY EmptySeq DEF Init, FramesAreOpenLayers
<1>3. PhaseShape
  BY DEF Init, PhaseShape
<1>4. PendingAreDropped
  BY EmptySeq DEF Init, PendingAreDropped
<1> QED BY <1>1, <1>2, <1>3, <1>4 DEF IInv

\* The frames survive a step that touches neither them nor the views.
LEMMA SameFrames ==
  ASSUME FramesAreOpenLayers, UNCHANGED <<frames, view>>
  PROVE  FramesAreOpenLayers'
BY DEF FramesAreOpenLayers

\* Consuming the innermost frame of d when its layer is told an outcome.
LEMMA TellKeepsFrames ==
  ASSUME TypeOK, FramesAreOpenLayers, NEW d \in Calls, frames[d] # <<>>,
         NEW o, o # "open",
         frames' = [frames EXCEPT ![d] = Front(@)],
         view' = [view EXCEPT ![d][Innermost(d)] = o]
  PROVE  FramesAreOpenLayers'
<1> DEFINE n == Len(frames[d])
<1>1. n \in 1..NLayers /\ Innermost(d) = n /\ n \in Layers
  BY FramesShape, LayersAssumption DEF Layers
<1>2. /\ Len(Front(frames[d])) = n - 1
      /\ DOMAIN Front(frames[d]) = 1..(n - 1)
      /\ \A i \in 1..(n - 1) : Front(frames[d])[i] = frames[d][i]
  <2>1. frames[d] \in Seq(Layers)
    BY DEF TypeOK
  <2>2. /\ Front(frames[d]) \in Seq(Layers)
        /\ Len(Front(frames[d])) = n - 1
        /\ \A i \in 1..(n - 1) : Front(frames[d])[i] = frames[d][i]
    BY <2>1, FrontProperties
  <2>3. DOMAIN Front(frames[d]) = 1..Len(Front(frames[d]))
    BY <2>2, LenProperties
  <2> QED BY <2>2, <2>3
<1>3. /\ DOMAIN frames[d] = 1..n
      /\ \A i \in 1..n : frames[d][i] = i
  BY LenProperties DEF TypeOK, FramesAreOpenLayers
<1>4. frames'[d] = Front(frames[d])
      /\ \A l \in Layers : view'[d][l] = IF l = n THEN o ELSE view[d][l]
  BY <1>1 DEF TypeOK
<1>5. \A i \in 1..(n - 1) : frames'[d][i] = i
  BY <1>1, <1>2, <1>3, <1>4
<1>6. \A l \in Layers : (view'[d][l] = "open") <=> (l \in 1..(n - 1))
  BY <1>1, <1>3, <1>4 DEF FramesAreOpenLayers, Layers
<1>7. ASSUME NEW c \in Calls, c # d
      PROVE  frames'[c] = frames[c] /\ view'[c] = view[c]
  BY <1>7 DEF TypeOK
<1> QED BY <1>2, <1>4, <1>5, <1>6, <1>7 DEF FramesAreOpenLayers

\* Every step keeps the frames and the open layers in agreement.
LEMMA NextFrames ==
  TypeOK /\ FramesAreOpenLayers /\ PhaseShape /\ PendingAreDropped /\ [Next]_vars
    => FramesAreOpenLayers'
<1> SUFFICES ASSUME TypeOK, FramesAreOpenLayers, PhaseShape, PendingAreDropped,
                    [Next]_vars
             PROVE  FramesAreOpenLayers'
  OBVIOUS
<1>1. ASSUME NEW c \in Calls, DeliverHook(c) PROVE FramesAreOpenLayers'
  <2>1. Head(batch) \in Calls
    BY <1>1, HeadTailProperties DEF DeliverHook, TypeOK
  <2> QED BY <1>1, <2>1, TellKeepsFrames DEF DeliverHook
<1>2. ASSUME NEW c \in Calls, AfterHook(c) PROVE FramesAreOpenLayers'
  <2>1. outcome[c] # "open"
    BY <1>2 DEF AfterHook, PhaseShape
  <2> QED BY <1>2, <2>1, TellKeepsFrames DEF AfterHook
<1>3. ASSUME NEW c \in Calls, AllowHook(c) PROVE FramesAreOpenLayers'
  <2> DEFINE n == Len(frames[c])
  <2>1. n \in 0..NLayers /\ n + 1 \in Layers
    BY <1>3, FramesShape, LayersAssumption DEF AllowHook, Layers
  <2>2. /\ frames[c] \in Seq(Layers)
        /\ frames'[c] = Append(frames[c], n + 1)
        /\ \A l \in Layers : view'[c][l] = IF l = n + 1 THEN "open" ELSE view[c][l]
    BY <1>3, <2>1 DEF AllowHook, TypeOK
  <2>3. /\ DOMAIN frames[c] = 1..n
        /\ \A i \in 1..n : frames[c][i] = i
    BY <2>2, LenProperties DEF FramesAreOpenLayers
  <2>4. /\ frames'[c] \in Seq(Layers) /\ Len(frames'[c]) = n + 1
        /\ \A i \in 1..n : frames'[c][i] = frames[c][i]
        /\ frames'[c][n + 1] = n + 1
    BY <2>1, <2>2, AppendProperties
  <2>5. DOMAIN frames'[c] = 1..(n + 1)
    BY <2>4, LenProperties
  <2>6. \A i \in 1..(n + 1) : frames'[c][i] = i
    BY <2>1, <2>3, <2>4
  <2>7. \A l \in Layers : (view'[c][l] = "open") <=> (l \in 1..(n + 1))
    BY <2>1, <2>2, <2>3 DEF FramesAreOpenLayers, Layers
  <2>8. ASSUME NEW d \in Calls, d # c
        PROVE  frames'[d] = frames[d] /\ view'[d] = view[d]
    BY <1>3, <2>8 DEF AllowHook, TypeOK
  <2> QED BY <2>5, <2>6, <2>7, <2>8 DEF FramesAreOpenLayers
<1>4. ASSUME NEW c \in Calls, RefuseHook(c) PROVE FramesAreOpenLayers'
  <2> DEFINE n == Len(frames[c])
  <2>1. n \in 0..NLayers /\ n + 1 \in Layers
    BY <1>4, FramesShape, LayersAssumption DEF RefuseHook, Layers
  <2>2. view[c][n + 1] = "none"
    BY <1>4, <2>1 DEF RefuseHook, PhaseShape
  <2>3. \A d \in Calls, l \in Layers :
          (view'[d][l] = "open") <=> (view[d][l] = "open")
    BY <1>4, <2>1, <2>2 DEF RefuseHook, TypeOK
  <2> QED BY <1>4, <2>3 DEF RefuseHook, FramesAreOpenLayers
<1>5. ASSUME UNCHANGED <<frames, view>> PROVE FramesAreOpenLayers'
  BY <1>5, SameFrames
<1> QED
  BY <1>1, <1>2, <1>3, <1>4, <1>5
  DEF Next, Hook, Ended, Rest, vars, code, Start, DeliverNext, Ask, EnterBody,
      EndBody, Finish, Return, Drain, ReturnDrained, DropFuture, DropStore

\* Every step keeps each call in the shape of its phase.
LEMMA NextShape ==
  TypeOK /\ FramesAreOpenLayers /\ PhaseShape /\ PendingAreDropped /\ [Next]_vars
    => PhaseShape'
<1> SUFFICES ASSUME TypeOK, FramesAreOpenLayers, PhaseShape, PendingAreDropped,
                    [Next]_vars
             PROVE  PhaseShape'
  OBVIOUS
<1>1. ASSUME NEW c \in Calls, NEW k \in Kinds, Start(c, k) PROVE PhaseShape'
  BY <1>1 DEF Start, PhaseShape, TypeOK
<1>2. ASSUME NEW c \in Calls, DeliverHook(c) PROVE PhaseShape'
  <2> DEFINE d == Head(batch)
  <2>1. d \in Calls /\ phase[d] = "dropped"
    <3>1. batch \in Seq(Calls) /\ batch # <<>>
      BY <1>2 DEF DeliverHook, TypeOK
    <3>2. d = batch[1] /\ 1 \in 1..Len(batch)
      BY <3>1, EmptySeq
    <3> QED BY <3>1, <3>2, HeadTailProperties DEF PendingAreDropped
  <2>2. ASSUME NEW e \in Calls, e # d
        PROVE  frames'[e] = frames[e] /\ view'[e] = view[e]
    BY <1>2, <2>2 DEF DeliverHook, TypeOK
  <2>3. UNCHANGED <<phase, outcome, ran>>
    BY <1>2 DEF DeliverHook
  <2> QED BY <2>1, <2>2, <2>3 DEF PhaseShape
<1>3. ASSUME NEW c \in Calls, Ask(c) PROVE PhaseShape'
  BY <1>3 DEF Ask, PhaseShape, TypeOK
<1>4. ASSUME NEW c \in Calls, AllowHook(c) PROVE PhaseShape'
  <2> DEFINE n == Len(frames[c])
  <2>1. n \in 0..NLayers /\ n + 1 \in Layers
    BY <1>4, FramesShape, LayersAssumption DEF AllowHook, Layers
  <2>2. Len(frames'[c]) = n + 1
    BY <1>4, <2>1, AppendProperties DEF AllowHook, TypeOK
  <2>3. \A l \in Layers : l > n + 1 => view'[c][l] = view[c][l]
    BY <1>4, <2>1 DEF AllowHook, TypeOK
  <2>4. \A l \in Layers : l > n + 1 => l > n
    BY <2>1 DEF Layers
  <2>5. \A l \in Layers : l > Len(frames'[c]) => view'[c][l] = "none"
    BY <1>4, <2>2, <2>3, <2>4 DEF AllowHook, PhaseShape
  <2>6. ASSUME NEW e \in Calls, e # c
        PROVE  frames'[e] = frames[e] /\ view'[e] = view[e]
    BY <1>4, <2>6 DEF AllowHook, TypeOK
  <2> QED BY <1>4, <2>5, <2>6 DEF AllowHook, PhaseShape
<1>5. ASSUME NEW c \in Calls, RefuseHook(c) PROVE PhaseShape'
  BY <1>5 DEF RefuseHook, PhaseShape, TypeOK
<1>6. ASSUME NEW c \in Calls, EnterBody(c) PROVE PhaseShape'
  BY <1>6 DEF EnterBody, PhaseShape, TypeOK
<1>7. ASSUME NEW c \in Calls, Ended(c) PROVE PhaseShape'
  BY <1>7 DEF Ended, EndBody, PhaseShape, TypeOK
<1>8. ASSUME NEW c \in Calls, Finish(c) PROVE PhaseShape'
  BY <1>8 DEF Finish, PhaseShape, TypeOK
<1>9. ASSUME NEW c \in Calls, AfterHook(c) PROVE PhaseShape'
  BY <1>9 DEF AfterHook, PhaseShape, TypeOK
<1>10. ASSUME NEW c \in Calls, Return(c) PROVE PhaseShape'
  BY <1>10 DEF Return, PhaseShape, TypeOK
<1>11. ASSUME NEW c \in Calls, Drain(c) PROVE PhaseShape'
  BY <1>11 DEF Drain, PhaseShape, TypeOK
<1>12. ASSUME NEW c \in Calls, ReturnDrained(c) PROVE PhaseShape'
  BY <1>12 DEF ReturnDrained, PhaseShape, TypeOK
<1>13. ASSUME NEW c \in Calls, DropFuture(c) PROVE PhaseShape'
  BY <1>13 DEF DropFuture, PhaseShape, TypeOK
<1>14. ASSUME UNCHANGED <<phase, frames, outcome, view, ran>> PROVE PhaseShape'
  BY <1>14 DEF PhaseShape
<1> QED
  BY <1>1, <1>2, <1>3, <1>4, <1>5, <1>6, <1>7, <1>8, <1>9, <1>10, <1>11,
     <1>12, <1>13, <1>14 DEF Next, Hook, Rest, vars, code, DeliverNext, DropStore

\* A dropped future is never run again.
LEMMA DroppedStays ==
  ASSUME TypeOK, [Next]_vars, NEW d \in Calls, phase[d] = "dropped"
  PROVE  phase'[d] = "dropped"
<1> USE DEF TypeOK
<1>1. CASE \E c \in Calls, k \in Kinds : Start(c, k)
  BY <1>1 DEF Start
<1>2. CASE \E c \in Calls : Hook(c)
  BY <1>2 DEF Hook, DeliverHook, DeliverNext, Ask, AllowHook, RefuseHook,
              EnterBody, AfterHook, Return, Drain, ReturnDrained
<1>3. CASE \E c \in Calls : Ended(c) \/ Finish(c) \/ DropFuture(c)
  BY <1>3 DEF Ended, EndBody, Finish, DropFuture
<1>4. CASE DropStore \/ Rest \/ UNCHANGED vars
  BY <1>4 DEF DropStore, Rest, vars, code
<1> QED BY <1>1, <1>2, <1>3, <1>4 DEF Next

\* Only dropped futures enter the queue, and the queue becomes the batch.
LEMMA NextPending ==
  TypeOK /\ PendingAreDropped /\ [Next]_vars => PendingAreDropped'
<1> SUFFICES ASSUME TypeOK, PendingAreDropped, [Next]_vars
             PROVE  PendingAreDropped'
  OBVIOUS
<1>1. /\ \A i \in 1..Len(queue) : queue[i] \in Calls /\ phase'[queue[i]] = "dropped"
      /\ \A i \in 1..Len(batch) : batch[i] \in Calls /\ phase'[batch[i]] = "dropped"
  BY DroppedStays, ElementOfSeq DEF TypeOK, PendingAreDropped
<1>2. CASE batch' = queue /\ queue' = <<>>
  BY <1>1, <1>2, EmptySeq DEF PendingAreDropped
<1>3. ASSUME NEW c \in Calls, DropFuture(c) PROVE PendingAreDropped'
  <2>1. /\ Len(queue) \in Nat
        /\ Len(queue') = Len(queue) + 1
        /\ \A i \in 1..Len(queue) : queue'[i] = queue[i]
        /\ queue'[Len(queue) + 1] = c
    BY <1>3, AppendProperties, LenProperties DEF DropFuture, TypeOK
  <2>2. phase'[c] = "dropped" /\ batch' = batch
    BY <1>3 DEF DropFuture, TypeOK
  <2> QED BY <1>1, <2>1, <2>2 DEF PendingAreDropped
<1>4. ASSUME NEW c \in Calls, DeliverNext(c) PROVE PendingAreDropped'
  <2>1. /\ Len(batch) \in Nat \ {0}
        /\ Len(batch') = Len(batch) - 1
        /\ \A i \in 1..Len(batch') : batch'[i] = batch[i + 1]
    BY <1>4, HeadTailProperties, EmptySeq DEF DeliverNext, TypeOK
  <2>2. queue' = queue
    BY <1>4 DEF DeliverNext
  <2> QED BY <1>1, <2>1, <2>2 DEF PendingAreDropped
<1>5. CASE UNCHANGED <<queue, batch>>
  BY <1>1, <1>5 DEF PendingAreDropped
<1> QED
  BY <1>2, <1>3, <1>4, <1>5
  DEF Next, Hook, Ended, Rest, vars, code, Start, DeliverHook, Ask, AllowHook,
      RefuseHook, EnterBody, EndBody, Finish, AfterHook, Return, Drain,
      ReturnDrained, DropStore

\* The inductive invariant holds of every behaviour.
THEOREM Invariance == Spec => []IInv
<1>1. IInv /\ [Next]_vars => IInv'
  BY NextTypeOK, NextFrames, NextShape, NextPending DEF IInv
<1> QED BY InitIInv, <1>1, PTL DEF Spec

\* For any number of calls and layers, a frame is held exactly for the layers
\* that allowed a call and were not told of its end, outermost first: none is
\* lost between dispatch, guard, queue and delivery, and none consumed twice.
THEOREM FramesMatchLayers == Spec => []FramesAreOpenLayers
<1>1. IInv => FramesAreOpenLayers
  BY DEF IInv
<1> QED BY <1>1, Invariance, PTL

\* A call that has returned to its caller has told every layer that allowed it.
THEOREM NoFrameOutlivesReturn == Spec => []ReturnedIsClosed
<1>1. IInv => ReturnedIsClosed
  BY DEF IInv, PhaseShape, ReturnedIsClosed
<1> QED BY <1>1, Invariance, PTL

-----------------------------------------------------------------------------
(* The chain implements the bracket                                        *)

\* Telling the innermost open layer of d its outcome is a step of the bracket.
LEMMA TellRefines ==
  ASSUME TypeOK, FramesAreOpenLayers, NEW d \in Calls, frames[d] # <<>>,
         outcome[d] # "none",
         view' = [view EXCEPT ![d][Innermost(d)] = outcome[d]],
         UNCHANGED <<ran, outcome>>
  PROVE  Bracket!Next
<1> DEFINE n == Len(frames[d])
<1>1. n \in Layers /\ Innermost(d) = n
  BY FramesShape, LayersAssumption DEF Layers
<1>2. view[d][n] = "open" /\ \A m \in Layers : m > n => view[d][m] # "open"
  <2>1. \A m \in Layers : view[d][m] = "open" <=> m <= n
    BY FramesShape
  <2>2. n <= n /\ \A m \in Layers : m > n => ~(m <= n)
    BY <1>1 DEF Layers
  <2> QED BY <1>1, <2>1, <2>2
<1>3. Bracket!Tell(d, n)
  BY <1>1, <1>2 DEF Bracket!Tell, Bracket!Layers, Layers
<1> QED BY <1>1, <1>3 DEF Bracket!Next, Bracket!Layers, Layers

\* Every step of the chain is a step of the bracket or leaves it unchanged.
LEMMA StepRefines == IInv /\ [Next]_vars => [Bracket!Next]_(Bracket!vars)
<1> SUFFICES ASSUME TypeOK, FramesAreOpenLayers, PhaseShape, PendingAreDropped,
                    [Next]_vars
             PROVE  Bracket!Next \/ UNCHANGED Bracket!vars
  BY DEF IInv
<1> USE DEF Bracket!Layers
<1>1. ASSUME NEW c \in Calls, DeliverHook(c) PROVE Bracket!Next
  <2> DEFINE d == Head(batch)
  <2>1. d \in Calls /\ outcome[d] = "cancelled"
    <3>1. batch \in Seq(Calls) /\ batch # <<>>
      BY <1>1 DEF DeliverHook, TypeOK
    <3>2. d = batch[1] /\ 1 \in 1..Len(batch)
      BY <3>1, EmptySeq
    <3> QED BY <3>1, <3>2, HeadTailProperties DEF PendingAreDropped, PhaseShape
  <2> QED BY <1>1, <2>1, TellRefines DEF DeliverHook
<1>2. ASSUME NEW c \in Calls, AfterHook(c) PROVE Bracket!Next
  <2>1. outcome[c] # "none"
    BY <1>2 DEF AfterHook, PhaseShape
  <2> QED BY <1>2, <2>1, TellRefines DEF AfterHook
<1>3. ASSUME NEW c \in Calls, phase[c] = "before", Len(frames[c]) < NLayers
      PROVE  Len(frames[c]) + 1 \in Layers /\ Bracket!MayAsk(c, Len(frames[c]) + 1)
  <2> DEFINE n == Len(frames[c])
  <2>1. n \in 0..NLayers /\ n + 1 \in Layers
    BY <1>3, FramesShape, LayersAssumption DEF Layers
  <2>2. \A m \in 1..(n + 1 - 1) : m \in Layers /\ m <= n
    BY <2>1, LayersAssumption DEF Layers
  <2>3. \A m \in 1..(n + 1 - 1) : view[c][m] = "open"
    BY <2>2, FramesShape
  <2>4. n + 1 > n
    BY <2>1
  <2>5. outcome[c] = "none" /\ view[c][n + 1] = "none"
    BY <1>3, <2>1, <2>4 DEF PhaseShape
  <2> QED BY <2>1, <2>3, <2>5 DEF Bracket!MayAsk
<1>4. ASSUME NEW c \in Calls, AllowHook(c) PROVE Bracket!Next
  <2>1. Len(frames[c]) + 1 \in Layers /\ Bracket!Allow(c, Len(frames[c]) + 1)
    BY <1>3, <1>4 DEF AllowHook, Bracket!Allow
  <2> QED BY <2>1 DEF Bracket!Next, Layers
<1>5. ASSUME NEW c \in Calls, RefuseHook(c) PROVE Bracket!Next
  <2>1. Len(frames[c]) + 1 \in Layers /\ Bracket!Refuse(c, Len(frames[c]) + 1)
    BY <1>3, <1>5 DEF RefuseHook, Bracket!Refuse
  <2> QED BY <2>1 DEF Bracket!Next, Layers
<1>6. ASSUME NEW c \in Calls, EnterBody(c) PROVE Bracket!Next
  <2>1. \A l \in Layers : l <= Len(frames[c])
    BY <1>6, LayersAssumption DEF EnterBody, Layers
  <2>2. \A l \in Layers : view[c][l] = "open"
    BY <2>1, FramesShape
  <2>3. Bracket!Run(c)
    BY <1>6, <2>2 DEF EnterBody, PhaseShape, Bracket!Run, Layers
  <2> QED BY <2>3 DEF Bracket!Next
<1>7. ASSUME NEW c \in Calls, Ended(c) PROVE Bracket!Next
  <2>1. \E o \in Bracket!Ends : Bracket!End(c, o)
    BY <1>7 DEF Ended, EndBody, PhaseShape, Bracket!End, Bracket!Ends
  <2> QED BY <2>1 DEF Bracket!Next
<1>8. ASSUME NEW c \in Calls, DropFuture(c) PROVE Bracket!Next
  <2>1. Bracket!End(c, "cancelled")
    BY <1>8 DEF DropFuture, PhaseShape, Bracket!End
  <2> QED BY <2>1 DEF Bracket!Next, Bracket!Ends
<1>9. CASE UNCHANGED <<view, ran, outcome>>
  BY <1>9 DEF Bracket!vars
<1> QED
  BY <1>1, <1>2, <1>4, <1>5, <1>6, <1>7, <1>8, <1>9
  DEF Next, Hook, Rest, vars, code, Start, DeliverNext, Ask, Finish, Return,
      Drain, ReturnDrained, DropStore

\* Every call is bracketed as the Layer contract promises, for any number of
\* calls and layers: layers are asked from the outside in, the body runs only
\* once all allowed it, and each of them hears of its end once, from the
\* inside out.
THEOREM ChainImplementsBracket == Spec => BracketSpec
<1>1. Init => Bracket!Init
  BY DEF Init, Bracket!Init, Bracket!Layers, Layers
<1> QED BY <1>1, StepRefines, Invariance, PTL DEF Spec, BracketSpec, Bracket!Spec

\* An event of one call leaves what the contract says of the others.
LEMMA OthersKept ==
  ASSUME NEW c \in Calls, NEW d \in Calls \ {c}, Bracket!Kept(d),
         view'[d] = view[d], outcome'[d] = outcome[d], d \in ran' <=> d \in ran
  PROVE  Bracket!Kept(d)'
BY DEF Bracket!Kept

\* Each event of the contract keeps what it promises of the call it is about.
LEMMA EventKeepsContract ==
  ASSUME Bracket!Contract, NEW c \in Calls,
         \/ Bracket!Run(c)
         \/ \E o \in Bracket!Ends : Bracket!End(c, o)
         \/ \E l \in Layers : Bracket!Allow(c, l) \/ Bracket!Refuse(c, l) \/ Bracket!Tell(c, l)
  PROVE  Bracket!Contract'
<1> USE DEF Bracket!Layers, Layers, Bracket!Ends
<1> DEFINE Views == {"none", "open", "refused"} \cup Bracket!Ends
<1>1. /\ NLayers \in Nat
      /\ view \in [Calls -> [Layers -> Views]]
      /\ outcome \in [Calls -> {"none"} \cup Bracket!Ends]
      /\ \A d \in Calls : Bracket!Kept(d)
  BY LayersAssumption DEF Bracket!Contract
<1>2. CASE Bracket!Run(c)
  <2>1. /\ view' = view /\ outcome' = outcome /\ ran' = ran \cup {c}
        /\ \A l \in Layers : view[c][l] = "open"
    BY <1>2 DEF Bracket!Run
  <2>2. Bracket!Kept(c)'
    BY <1>1, <2>1 DEF Bracket!Kept
  <2>3. \A d \in Calls \ {c} : Bracket!Kept(d)'
    BY <1>1, <2>1, OthersKept
  <2> QED BY <1>1, <2>1, <2>2, <2>3 DEF Bracket!Contract
<1>3. ASSUME NEW o \in Bracket!Ends, Bracket!End(c, o) PROVE Bracket!Contract'
  <2>1. /\ view' = view /\ ran' = ran /\ c \in ran /\ outcome[c] = "none"
        /\ outcome' = [outcome EXCEPT ![c] = o]
    BY <1>3 DEF Bracket!End
  <2>2. outcome' \in [Calls -> {"none"} \cup Bracket!Ends]
    BY <1>1, <2>1
  <2>3. Bracket!Kept(c)'
    BY <1>1, <2>1 DEF Bracket!Kept
  <2>4. \A d \in Calls \ {c} : Bracket!Kept(d)'
    BY <1>1, <2>1, OthersKept
  <2> QED BY <1>1, <2>1, <2>2, <2>3, <2>4 DEF Bracket!Contract
<1>4. ASSUME NEW l \in Layers, Bracket!Allow(c, l) PROVE Bracket!Contract'
  <2>1. /\ outcome' = outcome /\ ran' = ran /\ outcome[c] = "none"
        /\ view[c][l] = "none" /\ \A m \in 1..(l - 1) : view[c][m] = "open"
        /\ view' = [view EXCEPT ![c][l] = "open"]
    BY <1>4 DEF Bracket!Allow, Bracket!MayAsk
  <2>2. /\ view' \in [Calls -> [Layers -> Views]]
        /\ view'[c] = [view[c] EXCEPT ![l] = "open"]
        /\ \A d \in Calls \ {c} : view'[d] = view[d]
    BY <1>1, <2>1
  <2>3. /\ view'[c][l] = "open"
        /\ \A m \in Layers \ {l} : view'[c][m] = view[c][m]
        /\ \A m \in Layers : m < l => view[c][m] = "open"
        /\ \A m \in Layers : l < m => view[c][m] = "none"
    BY <1>1, <2>1, <2>2 DEF Bracket!Kept
  <2>4. Bracket!Kept(c)'
    BY <1>1, <2>1, <2>3 DEF Bracket!Kept
  <2>5. \A d \in Calls \ {c} : Bracket!Kept(d)'
    BY <1>1, <2>1, <2>2, OthersKept
  <2> QED BY <1>1, <2>1, <2>2, <2>4, <2>5 DEF Bracket!Contract
<1>5. ASSUME NEW l \in Layers, Bracket!Refuse(c, l) PROVE Bracket!Contract'
  <2>1. /\ outcome' = [outcome EXCEPT ![c] = "failed"] /\ ran' = ran /\ outcome[c] = "none"
        /\ view[c][l] = "none" /\ \A m \in 1..(l - 1) : view[c][m] = "open"
        /\ view' = [view EXCEPT ![c][l] = "refused"]
    BY <1>5 DEF Bracket!Refuse, Bracket!MayAsk
  <2>2. /\ view' \in [Calls -> [Layers -> Views]]
        /\ outcome' \in [Calls -> {"none"} \cup Bracket!Ends] /\ outcome'[c] = "failed"
        /\ view'[c] = [view[c] EXCEPT ![l] = "refused"]
        /\ \A d \in Calls \ {c} : view'[d] = view[d] /\ outcome'[d] = outcome[d]
    BY <1>1, <2>1
  <2>3. /\ view'[c][l] = "refused" /\ c \notin ran
        /\ \A m \in Layers \ {l} : view'[c][m] = view[c][m]
        /\ \A m \in Layers : m < l => view[c][m] = "open"
        /\ \A m \in Layers : l < m => view[c][m] = "none"
    BY <1>1, <2>1, <2>2 DEF Bracket!Kept
  <2>4. Bracket!Kept(c)'
    BY <1>1, <2>1, <2>2, <2>3 DEF Bracket!Kept
  <2>5. \A d \in Calls \ {c} : Bracket!Kept(d)'
    BY <1>1, <2>1, <2>2, OthersKept
  <2> QED BY <1>1, <2>2, <2>4, <2>5 DEF Bracket!Contract
<1>6. ASSUME NEW l \in Layers, Bracket!Tell(c, l) PROVE Bracket!Contract'
  <2>1. /\ outcome' = outcome /\ ran' = ran /\ outcome[c] # "none"
        /\ view[c][l] = "open" /\ \A m \in Layers : m > l => view[c][m] # "open"
        /\ view' = [view EXCEPT ![c][l] = outcome[c]]
    BY <1>6 DEF Bracket!Tell
  <2>2. /\ view' \in [Calls -> [Layers -> Views]]
        /\ view'[c] = [view[c] EXCEPT ![l] = outcome[c]]
        /\ outcome[c] \in Bracket!Ends
        /\ \A d \in Calls \ {c} : view'[d] = view[d]
    BY <1>1, <2>1
  <2>3. /\ view'[c][l] = outcome[c]
        /\ \A m \in Layers \ {l} : view'[c][m] = view[c][m]
    BY <1>1, <2>2
  <2>4. Bracket!Kept(c)'
    BY <1>1, <2>1, <2>2, <2>3 DEF Bracket!Kept
  <2>5. \A d \in Calls \ {c} : Bracket!Kept(d)'
    BY <1>1, <2>1, <2>2, OthersKept
  <2> QED BY <1>1, <2>1, <2>2, <2>4, <2>5 DEF Bracket!Contract
<1> QED BY <1>2, <1>3, <1>4, <1>5, <1>6

\* What CallBracket allows keeps the contract it spells out.
LEMMA BracketKeepsContract ==
  Bracket!Contract /\ [Bracket!Next]_(Bracket!vars) => Bracket!Contract'
<1> SUFFICES ASSUME Bracket!Contract, [Bracket!Next]_(Bracket!vars)
             PROVE  Bracket!Contract'
  OBVIOUS
<1>1. CASE Bracket!Next
  BY <1>1, EventKeepsContract DEF Bracket!Next, Bracket!Layers, Layers
<1>2. CASE UNCHANGED Bracket!vars
  BY <1>2 DEF Bracket!vars, Bracket!Contract, Bracket!Kept
<1> QED BY <1>1, <1>2

\* So, for any number of calls and layers and however the calls interleave,
\* fail or are dropped: a layer has been asked only when every layer outside
\* it allowed the call, it has been told only after every layer inside it, all
\* are told the same outcome, and a refused call never ran.
THEOREM ContractKept == Spec => []Bracket!Contract
<1>1. Bracket!Init => Bracket!Contract
  BY DEF Bracket!Init, Bracket!Contract, Bracket!Kept, Bracket!Ends
<1> QED BY <1>1, BracketKeepsContract, ChainImplementsBracket, PTL DEF BracketSpec, Bracket!Spec

-----------------------------------------------------------------------------
(* Cancellations                                                           *)

\* Only a dispatch that has the store and is delivering has a batch.
BatchIsHeld ==
  batch # <<>> => stack # <<>> /\ phase[Last(stack)] \in {"delivering", "draining"}

\* The cancellations that have been delivered.
Told == Len(drops) - Len(batch) - Len(queue)

\* Each future is dropped once.
DropsAreDropped ==
  /\ \A i \in 1..Len(drops) : phase[drops[i]] = "dropped"
  /\ \A i, j \in 1..Len(drops) : drops[i] = drops[j] => i = j

\* DropsAccounted, place by place.
Accounted ==
  /\ Told \in Nat
  /\ \A i \in 1..Len(batch) : drops[Told + i] = batch[i]
  /\ \A i \in 1..Len(queue) : drops[Told + Len(batch) + i] = queue[i]
  /\ \A i \in 1..Told : frames[drops[i]] = <<>>
  /\ \A i \in (Told + 1)..Len(drops) :
       (batch = <<>> \/ i > Told + 1) => Len(frames[drops[i]]) = NLayers

\* What a dispatch found in the queue and is not told yet is in its batch.
OwedIsPending ==
  \A c \in Calls : \A d \in owed[c] :
    /\ d \in Calls /\ phase[d] = "dropped"
    /\ frames[d] # <<>> =>
         /\ \E i \in 1..Len(batch) : batch[i] = d
         /\ Holds(c) /\ phase[c] \in {"delivering", "draining"}

DInv == IInv /\ BatchIsHeld /\ DropsAreDropped /\ Accounted /\ OwedIsPending

\* A dispatch that has the store and is not delivering finds no batch.
LEMMA NothingTaken ==
  ASSUME TypeOK, BatchIsHeld,
         Free \/ \E c \in Calls : Holds(c) /\ phase[c] \notin {"delivering", "draining"}
  PROVE  batch = <<>>
BY DEF BatchIsHeld, Free, Holds

\* Nothing is cancelled at first.
LEMMA DInvInit == Init => DInv
<1> SUFFICES ASSUME Init PROVE DInv
  OBVIOUS
<1>1. Len(drops) = 0 /\ Len(batch) = 0 /\ Len(queue) = 0
  BY EmptySeq DEF Init
<1>2. BatchIsHeld /\ OwedIsPending
  BY DEF Init, BatchIsHeld, OwedIsPending
<1>3. DropsAreDropped /\ Accounted
  BY <1>1 DEF DropsAreDropped, Accounted, Told
<1> QED BY InitIInv, <1>2, <1>3 DEF DInv

\* Steps that leave the store, the batch and its dispatch alone, or find no
\* batch and make none, keep it.
LEMMA NextBatchIsHeld ==
  ASSUME TypeOK, BatchIsHeld, [Next]_vars
  PROVE  BatchIsHeld'
<1>1. ASSUME NEW c \in Calls, NEW k \in Kinds, Start(c, k) PROVE BatchIsHeld'
  <2>1. stack' = Append(stack, c) /\ phase'[c] = "delivering"
    BY <1>1 DEF Start, TypeOK
  <2>2. stack' # <<>> /\ Last(stack') = c
    <3>1. /\ stack' \in Seq(Calls) /\ Len(stack) \in Nat
          /\ Len(stack') = Len(stack) + 1 /\ stack'[Len(stack) + 1] = c
      BY <2>1, AppendProperties, LenProperties DEF TypeOK
    <3>2. Len(stack') # 0
      BY <3>1
    <3> QED BY <3>1, <3>2, EmptySeq DEF Last
  <2> QED BY <2>1, <2>2 DEF BatchIsHeld
<1>2. ASSUME NEW c \in Calls, DeliverHook(c) PROVE BatchIsHeld'
  BY <1>2 DEF DeliverHook, BatchIsHeld
<1>3. ASSUME NEW c \in Calls, DeliverNext(c) PROVE BatchIsHeld'
  BY <1>3 DEF DeliverNext, BatchIsHeld
<1>4. ASSUME NEW c \in Calls, Drain(c) PROVE BatchIsHeld'
  BY <1>4 DEF Drain, BatchIsHeld, Holds, TypeOK
<1>5. ASSUME batch' = <<>> PROVE BatchIsHeld'
  BY <1>5 DEF BatchIsHeld
<1>6. ASSUME NEW c \in Calls, Ask(c) \/ ReturnDrained(c) PROVE BatchIsHeld'
  BY <1>5, <1>6 DEF Ask, ReturnDrained
<1>7. ASSUME NEW c \in Calls,
             AllowHook(c) \/ RefuseHook(c) \/ EnterBody(c) \/ AfterHook(c) \/ Return(c) \/ Finish(c)
      PROVE  BatchIsHeld'
  <2>1. Free \/ (Holds(c) /\ phase[c] \notin {"delivering", "draining"})
    BY <1>7 DEF AllowHook, RefuseHook, EnterBody, AfterHook, Return, Finish
  <2>2. batch' = batch
    BY <1>7 DEF AllowHook, RefuseHook, EnterBody, AfterHook, Return, Finish
  <2> QED BY <1>5, <2>1, <2>2, NothingTaken
<1>8. ASSUME NEW c \in Calls, Ended(c) \/ DropFuture(c) PROVE BatchIsHeld'
  <2>1. /\ phase[c] = "body" /\ batch' = batch
        /\ \A d \in Calls : d # c => phase'[d] = phase[d]
        /\ stack' = stack \/ Holds(c)
    BY <1>8 DEF Ended, EndBody, DropFuture, TypeOK
  <2>2. CASE Holds(c)
    BY <1>5, <2>1, <2>2, NothingTaken
  <2>3. CASE ~Holds(c)
    <3>1. stack # <<>> => Last(stack) \in Calls
      BY FrontProperties DEF TypeOK
    <3> QED BY <2>1, <2>3, <3>1 DEF Holds, BatchIsHeld
  <2> QED BY <2>2, <2>3
<1>9. ASSUME UNCHANGED <<batch, stack, phase>> PROVE BatchIsHeld'
  BY <1>9 DEF BatchIsHeld
<1> QED
  BY <1>1, <1>2, <1>3, <1>4, <1>6, <1>7, <1>8, <1>9 DEF Next, Hook, DropStore, Rest, vars, code

\* A future leaves its body when it is dropped, and never comes back.
LEMMA NextDropsAreDropped ==
  ASSUME TypeOK, DropsAreDropped, [Next]_vars
  PROVE  DropsAreDropped'
<1>1. \A i \in 1..Len(drops) : drops[i] \in Calls /\ phase'[drops[i]] = "dropped"
  BY DroppedStays, ElementOfSeq DEF TypeOK, DropsAreDropped
<1>2. ASSUME NEW c \in Calls, DropFuture(c) PROVE DropsAreDropped'
  <2>1. /\ Len(drops) \in Nat
        /\ Len(drops') = Len(drops) + 1
        /\ \A i \in 1..Len(drops) : drops'[i] = drops[i]
        /\ drops'[Len(drops) + 1] = c
    BY <1>2, AppendProperties, LenProperties DEF DropFuture, TypeOK
  <2>2. phase[c] = "body" /\ phase'[c] = "dropped"
    BY <1>2 DEF DropFuture, TypeOK
  <2>3. \A i \in 1..Len(drops') : i = Len(drops) + 1 \/ i \in 1..Len(drops)
    BY <2>1
  <2> QED BY <1>1, <2>1, <2>2, <2>3 DEF DropsAreDropped
<1>3. CASE UNCHANGED drops
  BY <1>1, <1>3 DEF DropsAreDropped
<1> QED
  BY <1>2, <1>3
  DEF Next, Hook, Ended, Rest, vars, code, Start, DeliverHook, DeliverNext, Ask, AllowHook,
      RefuseHook, EnterBody, EndBody, Finish, AfterHook, Return, Drain,
      ReturnDrained, DropStore

\* A step changes the frames of a dropped call only by telling the first of
\* the batch.
LEMMA DroppedFrames ==
  ASSUME TypeOK, PendingAreDropped, [Next]_vars, NEW d \in Calls, phase[d] = "dropped"
  PROVE  \/ frames'[d] = frames[d]
         \/ /\ batch # <<>> /\ batch[1] = d /\ frames[d] # <<>>
            /\ UNCHANGED <<batch, queue, drops, owed, stack, phase>>
<1>1. ASSUME NEW c \in Calls, DeliverHook(c)
      PROVE  \/ frames'[d] = frames[d]
             \/ /\ batch # <<>> /\ batch[1] = d /\ frames[d] # <<>>
                /\ UNCHANGED <<batch, queue, drops, owed, stack, phase>>
  BY <1>1, HeadTailProperties DEF DeliverHook, TypeOK
<1>2. ASSUME NEW c \in Calls, AllowHook(c) \/ AfterHook(c) PROVE frames'[d] = frames[d]
  BY <1>2 DEF AllowHook, AfterHook, TypeOK
<1>3. CASE UNCHANGED frames
  BY <1>3
<1> QED
  BY <1>1, <1>2, <1>3
  DEF Next, Hook, Ended, Rest, vars, code, Start, DeliverNext, Ask,
      RefuseHook, EnterBody, EndBody, Finish, Return, Drain,
      ReturnDrained, DropFuture, DropStore

\* The batch is taken when the last one has been delivered, and gives one
\* place up when its first has been.
LEMMA NextAccounted ==
  ASSUME IInv, BatchIsHeld, DropsAreDropped, Accounted, [Next]_vars
  PROVE  Accounted'
<1>1. /\ TypeOK /\ PendingAreDropped
      /\ Len(batch) \in Nat /\ Len(queue) \in Nat /\ Len(drops) \in Nat
      /\ Len(drops) = Told + Len(batch) + Len(queue) /\ Told \in Nat
      /\ batch = <<>> <=> Len(batch) = 0
  BY LenProperties, EmptySeq DEF IInv, TypeOK, Accounted, Told
<1>2. \A i \in 1..Len(drops) : drops[i] \in Calls /\ phase[drops[i]] = "dropped"
  BY <1>1, ElementOfSeq DEF TypeOK, DropsAreDropped
<1>3. CASE UNCHANGED <<batch, queue, drops>>
  <2>1. Told' = Told
    BY <1>3 DEF Told
  <2>2. \A i \in 1..Told : frames'[drops[i]] = <<>>
    <3>1. SUFFICES ASSUME NEW i \in 1..Told PROVE frames'[drops[i]] = <<>>
      OBVIOUS
    <3>2. i \in 1..Len(drops) /\ frames[drops[i]] = <<>>
      BY <1>1 DEF Accounted
    <3> QED BY <1>1, <1>2, <3>2, DroppedFrames
  <2>3. \A i \in (Told + 1)..Len(drops) :
          (batch = <<>> \/ i > Told + 1) => Len(frames'[drops[i]]) = NLayers
    <3>1. SUFFICES ASSUME NEW i \in (Told + 1)..Len(drops), batch = <<>> \/ i > Told + 1
                   PROVE  Len(frames'[drops[i]]) = NLayers
      OBVIOUS
    <3>2. i \in 1..Len(drops) /\ Len(frames[drops[i]]) = NLayers
      BY <1>1, <3>1 DEF Accounted
    <3>3. ~(batch # <<>> /\ batch[1] = drops[i])
      <4>1. batch # <<>> => drops[Told + 1] = batch[1] /\ Told + 1 \in 1..Len(drops)
        BY <1>1 DEF Accounted
      <4> QED BY <3>1, <3>2, <4>1 DEF DropsAreDropped
    <3> QED BY <1>1, <1>2, <3>2, <3>3, DroppedFrames
  <2> QED BY <1>3, <2>1, <2>2, <2>3 DEF Accounted
<1>4. CASE batch = <<>> /\ batch' = queue /\ queue' = <<>> /\ UNCHANGED <<drops, frames>>
  <2>1. Len(batch) = 0 /\ Len(batch') = Len(queue) /\ Len(queue') = 0 /\ Told' = Told
    BY <1>1, <1>4, EmptySeq DEF Told
  <2> QED BY <1>1, <1>4, <2>1 DEF Accounted
<1>5. ASSUME NEW c \in Calls, DeliverNext(c) PROVE Accounted'
  <2>1. batch # <<>> /\ frames[Head(batch)] = <<>> /\ batch' = Tail(batch)
        /\ UNCHANGED <<queue, drops, frames>>
    BY <1>5 DEF DeliverNext
  <2>2. /\ Len(batch) > 0 /\ Len(batch') = Len(batch) - 1
        /\ \A i \in 1..Len(batch') : batch'[i] = batch[i + 1]
        /\ Head(batch) = batch[1]
    BY <1>1, <2>1, HeadTailProperties DEF TypeOK
  <2>3. Told' = Told + 1
    BY <1>1, <2>1, <2>2 DEF Told
  <2>4. frames[drops[Told + 1]] = <<>>
    BY <1>1, <2>1, <2>2 DEF Accounted
  <2>5. \A i \in 1..Told' : i = Told + 1 \/ i \in 1..Told
    BY <1>1, <2>3
  <2>6. \A i \in 1..Len(batch') : drops[Told + 1 + i] = batch'[i]
    <3>1. \A i \in 1..Len(batch') : i + 1 \in 1..Len(batch) /\ Told + 1 + i = Told + (i + 1)
      BY <1>1, <2>2
    <3> QED BY <2>2, <3>1 DEF Accounted
  <2>7. \A i \in 1..Len(queue) : drops[Told + 1 + Len(batch') + i] = queue[i]
    <3>1. Told + 1 + Len(batch') = Told + Len(batch)
      BY <1>1, <2>2
    <3> QED BY <3>1 DEF Accounted
  <2>8. \A i \in (Told' + 1)..Len(drops) : i \in (Told + 1)..Len(drops) /\ i > Told + 1
    BY <1>1, <2>3
  <2> QED BY <1>1, <2>1, <2>3, <2>4, <2>5, <2>6, <2>7, <2>8 DEF Accounted
<1>6. ASSUME NEW c \in Calls, DropFuture(c) PROVE Accounted'
  <2>1. /\ queue' = Append(queue, c) /\ drops' = Append(drops, c) /\ phase[c] = "body"
        /\ UNCHANGED <<batch, frames>>
    BY <1>6 DEF DropFuture
  <2>2. /\ Len(drops') = Len(drops) + 1
        /\ \A i \in 1..Len(drops) : drops'[i] = drops[i]
        /\ drops'[Len(drops) + 1] = c
        /\ Len(queue') = Len(queue) + 1
        /\ \A i \in 1..Len(queue) : queue'[i] = queue[i]
        /\ queue'[Len(queue) + 1] = c
    <3>1. drops \in Seq(Calls) /\ queue \in Seq(Calls)
      BY <1>1 DEF TypeOK
    <3>2. /\ Len(drops') = Len(drops) + 1
          /\ \A i \in 1..Len(drops) : drops'[i] = drops[i]
          /\ drops'[Len(drops) + 1] = c
      BY <2>1, <3>1, AppendProperties
    <3>3. /\ Len(queue') = Len(queue) + 1
          /\ \A i \in 1..Len(queue) : queue'[i] = queue[i]
          /\ queue'[Len(queue) + 1] = c
      BY <2>1, <3>1, AppendProperties
    <3> QED BY <3>2, <3>3
  <2>3. Told' = Told
    BY <1>1, <2>1, <2>2 DEF Told
  <2>4. Len(frames[c]) = NLayers
    BY <2>1 DEF IInv, PhaseShape
  <2>5. \A i \in 1..Len(batch) : Told + i \in 1..Len(drops)
    BY <1>1
  <2>6. \A i \in 1..Len(queue') : drops'[Told + Len(batch) + i] = queue'[i]
    <3>1. SUFFICES ASSUME NEW i \in 1..Len(queue') PROVE drops'[Told + Len(batch) + i] = queue'[i]
      OBVIOUS
    <3>2. CASE i \in 1..Len(queue)
      <4>1. Told + Len(batch) + i \in 1..Len(drops)
        BY <1>1, <3>2
      <4> QED BY <2>2, <3>2, <4>1 DEF Accounted
    <3>3. CASE i = Len(queue) + 1
      <4>1. Told + Len(batch) + i = Len(drops) + 1
        BY <1>1, <3>3
      <4> QED BY <2>2, <3>3, <4>1
    <3> QED BY <1>1, <2>2, <3>2, <3>3
  <2>7. \A i \in 1..Told : i \in 1..Len(drops)
    BY <1>1
  <2>8. \A i \in (Told + 1)..Len(drops') :
          (i \in (Told + 1)..Len(drops) /\ i \in 1..Len(drops)) \/ i = Len(drops) + 1
    BY <1>1, <2>2
  <2>9. \A i \in (Told + 1)..Len(drops') :
          (batch = <<>> \/ i > Told + 1) => Len(frames[drops'[i]]) = NLayers
    BY <2>2, <2>4, <2>8 DEF Accounted
  <2>10. \A i \in 1..Len(batch) : drops'[Told + i] = batch[i]
    <3>1. \A i \in 1..Len(batch) : drops[Told + i] = batch[i]
      BY DEF Accounted
    <3> QED BY <2>2, <2>5, <3>1
  <2>11. \A i \in 1..Told : frames[drops'[i]] = <<>>
    <3>1. \A i \in 1..Told : frames[drops[i]] = <<>>
      BY DEF Accounted
    <3> QED BY <2>2, <2>7, <3>1
  <2> QED BY <1>1, <2>1, <2>3, <2>6, <2>9, <2>10, <2>11 DEF Accounted
<1>7. ASSUME NEW c \in Calls, NEW k \in Kinds, Start(c, k) PROVE Accounted'
  BY <1>1, <1>4, <1>7, NothingTaken DEF Start
<1>8. ASSUME NEW c \in Calls, Drain(c) PROVE Accounted'
  BY <1>1, <1>4, <1>8, NothingTaken DEF Drain
<1> QED
  BY <1>3, <1>5, <1>6, <1>7, <1>8
  DEF Next, Hook, Ended, Rest, vars, code, DeliverHook, Ask, AllowHook,
      RefuseHook, EnterBody, EndBody, Finish, AfterHook, Return, ReturnDrained, DropStore

\* What a dispatch found stays in its batch until it has been told, and no
\* other dispatch gets the store before that.
LEMMA NextOwed ==
  ASSUME IInv, BatchIsHeld, OwedIsPending, [Next]_vars
  PROVE  OwedIsPending'
<1>1. TypeOK /\ PendingAreDropped
  BY DEF IInv
<1>2. SUFFICES ASSUME NEW c \in Calls, NEW d \in owed'[c]
               PROVE  /\ d \in Calls /\ phase'[d] = "dropped"
                      /\ frames'[d] # <<>> =>
                           /\ \E i \in 1..Len(batch') : batch'[i] = d
                           /\ Holds(c)' /\ phase'[c] \in {"delivering", "draining"}
  BY DEF OwedIsPending
<1> DEFINE Fine == /\ d \in Calls /\ phase'[d] = "dropped"
                   /\ frames'[d] # <<>> =>
                        /\ \E i \in 1..Len(batch') : batch'[i] = d
                        /\ Holds(c)' /\ phase'[c] \in {"delivering", "draining"}
<1>3. ASSUME d \in owed[c]
      PROVE  /\ d \in Calls /\ phase'[d] = "dropped"
             /\ frames'[d] # <<>> =>
                  /\ \E i \in 1..Len(batch) : batch[i] = d
                  /\ Holds(c) /\ phase[c] \in {"delivering", "draining"}
  <2>1. d \in Calls /\ phase[d] = "dropped"
    BY <1>3 DEF OwedIsPending
  <2>2. phase'[d] = "dropped"
    BY <1>1, <2>1, DroppedStays
  <2>3. frames'[d] # <<>> => frames[d] # <<>>
    BY <1>1, <2>1, DroppedFrames
  <2> QED BY <1>3, <2>1, <2>2, <2>3 DEF OwedIsPending
<1>4. ASSUME d \in owed[c], batch = <<>> PROVE Fine
  <2>1. Len(batch) = 0
    BY <1>4, EmptySeq
  <2> QED BY <1>3, <1>4, <2>1
<1>5. ASSUME d \in ToSet(queue), batch' = queue
      PROVE  d \in Calls /\ phase'[d] = "dropped" /\ \E i \in 1..Len(batch') : batch'[i] = d
  <2>1. PICK i \in 1..Len(queue) : queue[i] = d
    BY <1>1, <1>5, LenProperties DEF ToSet, TypeOK
  <2>2. d \in Calls /\ phase[d] = "dropped"
    BY <1>1, <2>1, ElementOfSeq DEF TypeOK, PendingAreDropped
  <2> QED BY <1>1, <1>5, <2>1, <2>2, DroppedStays
<1>6. ASSUME NEW e \in Calls, NEW k \in Kinds, Start(e, k) PROVE Fine
  <2>1. batch = <<>>
    BY <1>1, <1>6, NothingTaken DEF Start
  <2>2. CASE c # e
    BY <1>1, <1>2, <1>4, <1>6, <2>1, <2>2 DEF Start, TypeOK
  <2>3. CASE c = e
    <3>1. d \in ToSet(queue) /\ batch' = queue /\ stack' = Append(stack, c) /\ phase'[c] = "delivering"
      BY <1>1, <1>2, <1>6, <2>3 DEF Start, TypeOK
    <3>2. /\ stack' \in Seq(Calls) /\ Len(stack) \in Nat
          /\ Len(stack') = Len(stack) + 1 /\ stack'[Len(stack) + 1] = c
      BY <1>1, <3>1, AppendProperties, LenProperties DEF TypeOK
    <3>3. Len(stack') # 0
      BY <3>2
    <3>4. Holds(c)'
      BY <3>2, <3>3, EmptySeq DEF Holds, Last
    <3> QED BY <1>5, <3>1, <3>4
  <2> QED BY <2>2, <2>3
<1>7. ASSUME NEW e \in Calls, Drain(e) PROVE Fine
  <2>1. batch = <<>>
    BY <1>1, <1>7, NothingTaken DEF Drain
  <2>2. CASE d \in owed[c]
    BY <1>4, <2>1, <2>2
  <2>3. CASE d \notin owed[c]
    <3>1. c = e /\ d \in ToSet(queue)
      BY <1>1, <1>2, <1>7, <2>3 DEF Drain, TypeOK
    <3>2. batch' = queue /\ Holds(c)' /\ phase'[c] = "draining"
      BY <1>1, <1>7, <3>1 DEF Drain, Holds, TypeOK
    <3> QED BY <1>5, <3>1, <3>2
  <2> QED BY <2>2, <2>3
<1>8. ASSUME NEW e \in Calls, DeliverNext(e) PROVE Fine
  <2>1. batch # <<>> /\ frames[Head(batch)] = <<>> /\ batch' = Tail(batch)
        /\ UNCHANGED <<owed, frames, stack, phase>>
    BY <1>8 DEF DeliverNext
  <2>2. /\ Len(batch) \in Nat /\ Len(batch') = Len(batch) - 1
        /\ \A i \in 1..Len(batch') : batch'[i] = batch[i + 1]
        /\ Head(batch) = batch[1]
    BY <1>1, <2>1, HeadTailProperties, LenProperties DEF TypeOK
  <2>3. ASSUME frames'[d] # <<>> PROVE \E i \in 1..Len(batch') : batch'[i] = d
    <3>1. PICK i \in 1..Len(batch) : batch[i] = d
      BY <1>2, <1>3, <2>1, <2>3
    <3>2. i # 1
      BY <2>1, <2>2, <2>3, <3>1
    <3>3. i - 1 \in 1..Len(batch') /\ (i - 1) + 1 = i
      BY <2>2, <3>1, <3>2
    <3> QED BY <2>2, <3>1, <3>3
  <2> QED BY <1>2, <1>3, <2>1, <2>3 DEF Holds
<1>9. ASSUME NEW e \in Calls,
             \/ AllowHook(e) \/ RefuseHook(e) \/ EnterBody(e) \/ AfterHook(e) \/ Return(e)
             \/ Finish(e) \/ Ask(e) \/ ReturnDrained(e)
      PROVE  Fine
  <2>1. batch = <<>> \/ Free \/ (Holds(e) /\ phase[e] \notin {"delivering", "draining"})
    BY <1>9 DEF AllowHook, RefuseHook, EnterBody, AfterHook, Return, Finish, Ask, ReturnDrained
  <2>2. owed' = owed
    BY <1>9 DEF AllowHook, RefuseHook, EnterBody, AfterHook, Return, Finish, Ask, ReturnDrained
  <2>3. batch = <<>>
    BY <1>1, <2>1, NothingTaken
  <2> QED BY <1>2, <1>4, <2>2, <2>3
<1>10. ASSUME NEW e \in Calls, Ended(e) \/ DropFuture(e) PROVE Fine
  <2>1. /\ phase[e] = "body" /\ UNCHANGED <<batch, owed>>
        /\ c # e => phase'[c] = phase[c]
        /\ stack' = stack \/ Holds(e)
    BY <1>1, <1>10 DEF Ended, EndBody, DropFuture, TypeOK
  <2>2. CASE Holds(e)
    BY <1>1, <1>2, <1>4, <2>1, <2>2, NothingTaken
  <2>3. CASE ~Holds(e)
    BY <1>2, <1>3, <2>1, <2>3 DEF Holds
  <2> QED BY <2>2, <2>3
<1>11. ASSUME UNCHANGED <<batch, owed, stack, phase>> PROVE Fine
  BY <1>2, <1>3, <1>11 DEF Holds
<1>12. Fine
  BY <1>6, <1>7, <1>8, <1>9, <1>10, <1>11
  DEF Next, Hook, Rest, vars, code, DeliverHook, DropStore
<1> QED BY <1>12

\* The invariant of cancellations holds in every behaviour.
LEMMA DeliveryInvariance == Spec => []DInv
<1>1. DInv /\ [Next]_vars => DInv'
  <2> SUFFICES ASSUME DInv, [Next]_vars PROVE DInv'
    OBVIOUS
  <2>1. IInv'
    BY NextTypeOK, NextFrames, NextShape, NextPending DEF DInv, IInv
  <2>2. TypeOK /\ IInv /\ BatchIsHeld /\ DropsAreDropped /\ Accounted /\ OwedIsPending
    BY DEF DInv, IInv
  <2>3. BatchIsHeld' /\ DropsAreDropped' /\ Accounted' /\ OwedIsPending'
    BY <2>2, NextBatchIsHeld, NextDropsAreDropped, NextAccounted, NextOwed
  <2> QED BY <2>1, <2>3 DEF DInv
<1> QED BY <1>1, DInvInit, PTL DEF Spec

\* For any number of calls, every cancellation is delivered or waits in its
\* order: none is lost, doubled or overtaken, and only the first that waits
\* may be half told.
THEOREM NoCancellationLost == Spec => []DropsAccounted
<1>1. ASSUME DInv PROVE DropsAccounted
  <2>1. /\ batch \in Seq(Calls) /\ queue \in Seq(Calls) /\ drops \in Seq(Calls)
        /\ Len(batch) \in Nat /\ Len(queue) \in Nat /\ Len(drops) \in Nat
        /\ Told \in Nat /\ Len(drops) = Told + Len(batch) + Len(queue)
    BY <1>1, LenProperties DEF DInv, IInv, TypeOK, Accounted, Told
  <2>2. SubSeq(drops, Told + 1, Len(drops)) = batch \o queue
    <3>1. /\ batch \o queue \in Seq(Calls)
          /\ Len(batch \o queue) = Len(batch) + Len(queue)
          /\ \A i \in 1..(Len(batch) + Len(queue)) :
               (batch \o queue)[i] = IF i <= Len(batch) THEN batch[i] ELSE queue[i - Len(batch)]
      BY <2>1, ConcatProperties
    <3>2. /\ Told \in 0..Len(drops)
          /\ Len(drops) - Told = Len(batch) + Len(queue)
      BY <2>1
    <3>3. /\ SubSeq(drops, Told + 1, Len(drops)) \in Seq(Calls)
          /\ Len(SubSeq(drops, Told + 1, Len(drops))) = Len(drops) - Told
          /\ \A i \in 1..(Len(drops) - Told) :
               SubSeq(drops, Told + 1, Len(drops))[i] = drops[Told + i]
      BY <2>1, <3>2, RestAfter
    <3>4. Len(SubSeq(drops, Told + 1, Len(drops))) = Len(batch) + Len(queue)
      BY <3>2, <3>3
    <3>5. ASSUME NEW i \in 1..(Len(batch) + Len(queue))
          PROVE  SubSeq(drops, Told + 1, Len(drops))[i] = (batch \o queue)[i]
      <4>1. SubSeq(drops, Told + 1, Len(drops))[i] = drops[Told + i]
        BY <3>2, <3>3
      <4>2. CASE i <= Len(batch)
        <5>1. i \in 1..Len(batch)
          BY <2>1, <4>2
        <5>2. drops[Told + i] = batch[i]
          BY <1>1, <5>1 DEF DInv, Accounted
        <5> QED BY <3>1, <4>1, <4>2, <5>2
      <4>3. CASE i > Len(batch)
        <5>1. i - Len(batch) \in 1..Len(queue)
              /\ Told + Len(batch) + (i - Len(batch)) = Told + i
          BY <2>1, <4>3
        <5>2. drops[Told + i] = queue[i - Len(batch)]
          BY <1>1, <5>1 DEF DInv, Accounted
        <5>3. ~(i <= Len(batch))
          BY <2>1, <4>3
        <5>4. (batch \o queue)[i] = queue[i - Len(batch)]
          BY <3>1, <5>3
        <5> QED BY <4>1, <5>1, <5>2, <5>4
      <4> QED BY <2>1, <4>2, <4>3
    <3> QED BY <3>1, <3>3, <3>4, <3>5, SeqEqual
  <2>3. Told \in 0..Len(drops)
    BY <2>1
  <2>4. /\ \A i \in 1..Told : frames[drops[i]] = <<>>
        /\ \A i \in (Told + 1)..Len(drops) :
             (batch = <<>> \/ i > Told + 1) => Len(frames[drops[i]]) = NLayers
    BY <1>1 DEF DInv, Accounted
  <2> QED BY <2>2, <2>3, <2>4 DEF DropsAccounted
<1> QED BY <1>1, DeliveryInvariance, PTL

\* For any number of calls and layers, what a dispatch finds cancelled is told
\* to every layer before they hear of the dispatch's own call, and an export
\* returns only when it has told what it found at its end.
THEOREM CancellationsComeFirst == Spec => []CancelledBeforeNextCall
<1>1. DInv => CancelledBeforeNextCall
  BY DEF DInv, OwedIsPending, CancelledBeforeNextCall
<1> QED BY <1>1, DeliveryInvariance, PTL
=============================================================================
