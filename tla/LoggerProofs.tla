---------------------------- MODULE LoggerProofs ----------------------------
(***************************************************************************)
(* Proofs about Logger, for any calls and any invocations.                 *)
(***************************************************************************)
EXTENDS Logger, FiniteSetTheorems, TLAPS

\* The calls of i in one of the phases ps.
Of(i, ps) == {c \in Calls : Inv[c] = i /\ phase[c] \in ps}

\* One hook of an invocation at a time.
InTurn ==
  \A c, d \in Calls :
    Inv[c] = Inv[d] /\ phase[c] \in {"beginning", "ending"}
      /\ phase[d] \in {"beginning", "ending"} => c = d

\* A dropped store has no hook in progress.
GoneIdle == \A c \in Calls : Inv[c] \in gone => phase[c] \notin {"beginning", "ending"}

\* The frame of a call whose opening line is not written yet.
FrameIsDepth ==
  \A c \in Calls : phase[c] = "beginning" =>
    frame[c] = Cardinality(Of(Inv[c], {"open", "cancelled", "lost"}))

\* The log tells where each call is.
LogTells ==
  /\ Lined(log, "opening") =
       {c \in Calls : phase[c] \in {"open", "cancelled", "ending", "closed", "lost"}}
  /\ Lined(log, "closing") = {c \in Calls : phase[c] = "closed"}

IInv ==
  /\ TypeOK /\ CountIsTold /\ InTurn /\ GoneIdle /\ FrameIsDepth /\ LogTells
  /\ IndentationIsNesting

Lines == [call : Calls, mark : {"opening", "closing"}, depth : Nat]

-----------------------------------------------------------------------------

\* Any set of calls is finite.
LEMMA CallsFinite ==
  ASSUME NEW S, S \subseteq Calls
  PROVE IsFiniteSet(S) /\ Cardinality(S) \in Nat
  BY CallsAssumption, FS_Subset, FS_CardinalityType

\* A set of calls is counted by zero just when it is empty.
LEMMA NoneCounted ==
  ASSUME NEW S, S \subseteq Calls
  PROVE Cardinality(S) = 0 <=> S = {}
  BY CallsFinite, FS_EmptySet

\* One more call counts one more, and one less counts one less.
LEMMA OneMore ==
  ASSUME NEW S, S \subseteq Calls, NEW c \in Calls, c \notin S
  PROVE Cardinality(S \cup {c}) = Cardinality(S) + 1
  BY CallsFinite, FS_AddElement

\* A call taken from the running ones counts one less.
LEMMA OneLess ==
  ASSUME NEW S, S \subseteq Calls, NEW c \in S
  PROVE Cardinality(S \ {c}) = Cardinality(S) - 1
  BY CallsFinite, FS_RemoveElement

\* What a line adds to the calls with a line of its mark.
LEMMA OneLine ==
  ASSUME NEW s \in Seq(Lines), NEW l \in Lines, NEW mark \in {"opening", "closing"}
  PROVE Lined(Append(s, l), mark) =
          Lined(s, mark) \cup (IF l.mark = mark THEN {l.call} ELSE {})
<1> DEFINE t == Append(s, l)
<1>1. /\ Len(s) \in Nat /\ DOMAIN s = 1..Len(s)
      /\ DOMAIN t = 1..(Len(s) + 1)
      /\ \A k \in 1..Len(s) : t[k] = s[k]
      /\ t[Len(s) + 1] = l
  OBVIOUS
<1> HIDE DEF t
<1>2. ASSUME NEW x PROVE x \in Lined(t, mark) <=>
        \E k \in 1..(Len(s) + 1) : t[k].mark = mark /\ t[k].call = x
  BY <1>1 DEF Lined
<1>3. ASSUME NEW x PROVE x \in Lined(s, mark) <=>
        \E k \in 1..Len(s) : s[k].mark = mark /\ s[k].call = x
  BY <1>1 DEF Lined
<1>4. ASSUME NEW x PROVE x \in Lined(t, mark) <=>
        x \in Lined(s, mark) \/ (l.mark = mark /\ x = l.call)
  <2>1. 1..(Len(s) + 1) = 1..Len(s) \cup {Len(s) + 1}
    BY <1>1
  <2> QED BY <1>1, <1>2, <1>3, <2>1
<1> QED BY <1>4 DEF t

\* The lines before a line stay the lines before it.
LEMMA SamePrefix ==
  ASSUME NEW s \in Seq(Lines), NEW l \in Lines, NEW k \in 1..(Len(s) + 1)
  PROVE SubSeq(Append(s, l), 1, k - 1) = SubSeq(s, 1, k - 1)
  OBVIOUS

\* A line written keeps the indentation right if its own is.
LEMMA LineKeepsIndentation ==
  ASSUME log \in Seq(Lines), IndentationIsNesting,
         NEW l \in Lines, log' = Append(log, l),
         l.mark = "opening" => l.depth = Cardinality(Shown(log, Inv[l.call]))
  PROVE IndentationIsNesting'
<1> SUFFICES ASSUME NEW k \in DOMAIN log', log'[k].mark = "opening"
             PROVE log'[k].depth = Cardinality(Shown(SubSeq(log', 1, k - 1), Inv[log'[k].call]))
  BY DEF IndentationIsNesting, Shown, Lined
<1>1. Len(log) \in Nat /\ DOMAIN log = 1..Len(log) /\ k \in 1..(Len(log) + 1)
  OBVIOUS
<1>2. SubSeq(log', 1, k - 1) = SubSeq(log, 1, k - 1)
  BY <1>1, SamePrefix
<1>3. CASE k = Len(log) + 1
  <2>1. SubSeq(log, 1, k - 1) = log
    BY <1>1, <1>3
  <2>2. log'[k] = l
    BY <1>3
  <2> QED BY <1>2, <2>1, <2>2
<1>4. CASE k # Len(log) + 1
  <2>1. k \in DOMAIN log /\ log'[k] = log[k]
    BY <1>1, <1>4
  <2> QED BY <1>2, <2>1 DEF IndentationIsNesting
<1> QED BY <1>3, <1>4
\* Without a new line the indentation stays as it is.
LEMMA NoLine ==
  ASSUME IndentationIsNesting, log' = log
  PROVE IndentationIsNesting'
BY DEF IndentationIsNesting

-----------------------------------------------------------------------------
(* The invariant is inductive                                              *)

\* Nothing runs and nothing is written at first.
LEMMA Initial == Init => IInv
<1> SUFFICES ASSUME Init PROVE IInv
  OBVIOUS
<1>1. TypeOK /\ InTurn /\ GoneIdle /\ FrameIsDepth /\ IndentationIsNesting
  BY DEF Init, TypeOK, Phases, InTurn, GoneIdle, FrameIsDepth, IndentationIsNesting
<1>2. LogTells
  BY DEF Init, LogTells, Lined
<1>3. ASSUME NEW i \in Invocations PROVE Counted(i) = {} /\ Depth(i) = 0
  BY DEF Init, Counted, Depth
<1>4. CountIsTold
  BY <1>3, NoneCounted DEF CountIsTold, Init
<1> QED BY <1>1, <1>2, <1>4 DEF IInv

\* A before hook counts its call.
LEMMA BeginCallKeeps ==
  ASSUME IInv, NEW c \in Calls, BeginCall(c)
  PROVE IInv'
<1> DEFINE i == Inv[c]
<1>1. i \in Invocations /\ phase \in [Calls -> Phases] /\ phase[c] = "new" /\ Free(i)
  BY CallsAssumption DEF IInv, TypeOK, BeginCall
<1>2. phase' = [phase EXCEPT ![c] = "beginning"] /\ phase' \in [Calls -> Phases]
  BY <1>1 DEF BeginCall, Move, Phases
<1>3. ASSUME NEW j \in Invocations
      PROVE Depth(j) \in Nat /\ Counted(j) \subseteq Calls
            /\ Depth(j) = Cardinality(Counted(j)) /\ (j \in DOMAIN depths <=> Counted(j) # {})
  BY CallsFinite DEF IInv, CountIsTold, Counted
<1>4. ASSUME NEW j \in Invocations
      PROVE Depth(j)' = (IF j = i THEN Depth(j) + 1 ELSE Depth(j))
  BY <1>1, <1>3 DEF BeginCall, Depth
<1>5. /\ Counted(i)' = Counted(i) \cup {c} /\ c \notin Counted(i)
      /\ \A j \in Invocations \ {i} : Counted(j)' = Counted(j)
  BY <1>1, <1>2 DEF Counted
<1>6. CountIsTold'
  <2> SUFFICES ASSUME NEW j \in Invocations
      PROVE Depth(j)' = Cardinality(Counted(j)') /\ (j \in DOMAIN depths' <=> Counted(j)' # {})
    BY DEF CountIsTold
  <2>1. DOMAIN depths' = DOMAIN depths \cup {i}
    BY DEF BeginCall
  <2>2. CASE j = i
    BY <1>1, <1>3, <1>4, <1>5, <2>1, <2>2, OneMore
  <2>3. CASE j # i
    BY <1>3, <1>4, <1>5, <2>1, <2>3
  <2> QED BY <2>2, <2>3
<1>7. TypeOK'
  <2>1. depths' \in [DOMAIN depths' -> Nat \ {0}] /\ DOMAIN depths' \subseteq Invocations
    <3>1. DOMAIN depths \subseteq Invocations /\ depths \in [DOMAIN depths -> Nat \ {0}]
      BY DEF IInv, TypeOK
    <3>2. ASSUME NEW j \in DOMAIN depths \cup {i}
          PROVE Depth(j) + (IF j = i THEN 1 ELSE 0) \in Nat \ {0}
      BY <1>1, <1>3, <3>1 DEF Depth
    <3> QED BY <1>1, <3>1, <3>2 DEF BeginCall
  <2>2. frame' \in [Calls -> Nat]
    BY <1>1, <1>3 DEF IInv, TypeOK, BeginCall
  <2> QED BY <1>2, <2>1, <2>2 DEF IInv, TypeOK, BeginCall
<1>8. InTurn' /\ GoneIdle'
  BY <1>1, <1>2 DEF IInv, InTurn, GoneIdle, Free, BeginCall
<1>9. FrameIsDepth'
  <2> SUFFICES ASSUME NEW d \in Calls, phase'[d] = "beginning"
      PROVE frame'[d] = Cardinality(Of(Inv[d], {"open", "cancelled", "lost"})')
    BY DEF FrameIsDepth
  <2>1. Of(Inv[d], {"open", "cancelled", "lost"})' = Of(Inv[d], {"open", "cancelled", "lost"})
    BY <1>1, <1>2 DEF Of
  <2>2. CASE d = c
    <3>1. Of(i, {"open", "cancelled", "lost"}) = Counted(i)
      BY <1>1 DEF Of, Counted, Free
    <3>2. frame'[c] = Depth(i)
      BY DEF IInv, TypeOK, BeginCall
    <3> QED BY <1>1, <1>3, <2>1, <2>2, <3>1, <3>2
  <2>3. CASE d # c
    BY <1>2, <2>1, <2>3 DEF IInv, TypeOK, FrameIsDepth, BeginCall
  <2> QED BY <2>2, <2>3
<1>10. LogTells' /\ IndentationIsNesting'
  <2>1. log' = log
    BY DEF BeginCall
  <2>2. LogTells'
    BY <1>1, <1>2, <2>1 DEF IInv, LogTells, Lined
  <2>3. IndentationIsNesting'
    BY <2>1, NoLine DEF IInv
  <2> QED BY <2>2, <2>3
<1> QED BY <1>6, <1>7, <1>8, <1>9, <1>10 DEF IInv
\* A line is written for a call in its own hook: it was counted as open
\* before an opening line only if it was told of.
LEMMA WriteOpeningKeeps ==
  ASSUME IInv, NEW c \in Calls, WriteOpening(c)
  PROVE IInv'
<1> DEFINE l == Line(c, "opening", frame[c])
<1>1. phase \in [Calls -> Phases] /\ phase[c] = "beginning" /\ log \in Seq(Lines)
  BY DEF IInv, TypeOK, WriteOpening, Lines
<1>2. phase' = [phase EXCEPT ![c] = "open"] /\ phase' \in [Calls -> Phases]
  BY <1>1 DEF WriteOpening, Move, Phases
<1>3. l \in Lines /\ l.call = c /\ l.mark = "opening" /\ l.depth = frame[c] /\ log' = Append(log, l)
  BY DEF IInv, TypeOK, WriteOpening, Lines, Line
<1> HIDE DEF l
<1>4. UNCHANGED <<depths, frame, gone>>
  BY DEF WriteOpening
<1>5. TypeOK'
  BY <1>1, <1>2, <1>3, <1>4 DEF IInv, TypeOK, Lines
<1>6. CountIsTold'
  <2>1. ASSUME NEW j \in Invocations PROVE Counted(j)' = Counted(j)
    BY <1>1, <1>2 DEF Counted
  <2> QED BY <1>4, <2>1 DEF IInv, CountIsTold, Depth
<1>7. InTurn' /\ GoneIdle'
  BY <1>1, <1>2, <1>4 DEF IInv, InTurn, GoneIdle
<1>8. FrameIsDepth'
  <2> SUFFICES ASSUME NEW d \in Calls, phase'[d] = "beginning"
      PROVE frame'[d] = Cardinality(Of(Inv[d], {"open", "cancelled", "lost"})')
    BY DEF FrameIsDepth
  <2>1. d # c /\ phase[d] = "beginning" /\ Inv[d] # Inv[c]
    BY <1>1, <1>2 DEF IInv, InTurn
  <2>2. Of(Inv[d], {"open", "cancelled", "lost"})' = Of(Inv[d], {"open", "cancelled", "lost"})
    BY <1>1, <1>2, <2>1 DEF Of
  <2> QED BY <1>4, <2>1, <2>2 DEF IInv, FrameIsDepth
<1>9. LogTells'
  <2>1. Lined(log', "opening") = Lined(log, "opening") \cup {c}
        /\ Lined(log', "closing") = Lined(log, "closing")
    <3>1. ASSUME NEW mark \in {"opening", "closing"}
          PROVE Lined(log', mark) =
                  Lined(log, mark) \cup (IF "opening" = mark THEN {c} ELSE {})
      BY <1>1, <1>3, OneLine
    <3> QED BY <3>1
  <2> QED BY <1>1, <1>2, <2>1 DEF IInv, LogTells
<1>10. IndentationIsNesting'
  <2>1. Shown(log, Inv[c]) = Of(Inv[c], {"open", "cancelled", "lost"})
    BY <1>1 DEF IInv, LogTells, InTurn, Shown, Of
  <2>2. frame[c] = Cardinality(Shown(log, Inv[c]))
    BY <1>1, <2>1 DEF IInv, FrameIsDepth
  <2>3. IndentationIsNesting /\ l.depth = Cardinality(Shown(log, Inv[l.call]))
    BY <1>3, <2>2 DEF IInv
  <2> QED BY <1>1, <1>3, <2>3, LineKeepsIndentation
<1> QED BY <1>5, <1>6, <1>7, <1>8, <1>9, <1>10 DEF IInv

\* A cancelled call stays counted.
LEMMA CancelKeeps ==
  ASSUME IInv, NEW c \in Calls, Cancel(c)
  PROVE IInv'
<1>1. phase \in [Calls -> Phases] /\ phase[c] = "open"
  BY DEF IInv, TypeOK, Cancel
<1>2. phase' = [phase EXCEPT ![c] = "cancelled"] /\ phase' \in [Calls -> Phases]
  BY <1>1 DEF Cancel, Move, Phases
<1>3. UNCHANGED <<depths, frame, log, gone>>
  BY DEF Cancel
<1>4. ASSUME NEW j PROVE Counted(j)' = Counted(j)
      /\ Of(j, {"open", "cancelled", "lost"})' = Of(j, {"open", "cancelled", "lost"})
  BY <1>1, <1>2 DEF Counted, Of
<1>5. TypeOK' /\ CountIsTold'
  BY <1>2, <1>3, <1>4 DEF IInv, TypeOK, CountIsTold, Depth
<1>6. InTurn' /\ GoneIdle'
  BY <1>1, <1>2, <1>3 DEF IInv, InTurn, GoneIdle
<1>7. FrameIsDepth'
  BY <1>1, <1>2, <1>3, <1>4 DEF IInv, FrameIsDepth
<1>8. LogTells'
  BY <1>1, <1>2, <1>3 DEF IInv, LogTells, Lined
<1> QED BY <1>3, <1>5, <1>6, <1>7, <1>8, NoLine DEF IInv

\* An after hook counts its call no longer, and forgets the invocation with
\* the last of its calls.
LEMMA EndCallKeeps ==
  ASSUME IInv, NEW c \in Calls, EndCall(c)
  PROVE IInv'
<1> DEFINE i == Inv[c]
<1>1. i \in Invocations /\ phase \in [Calls -> Phases]
      /\ phase[c] \in {"open", "cancelled"} /\ Free(i)
  BY CallsAssumption DEF IInv, TypeOK, EndCall
<1>2. phase' = [phase EXCEPT ![c] = "ending"] /\ phase' \in [Calls -> Phases]
  BY <1>1 DEF EndCall, Move, Phases
<1>3. UNCHANGED <<frame, log, gone>>
  BY DEF EndCall
<1>4. DOMAIN depths \subseteq Invocations /\ depths \in [DOMAIN depths -> Nat \ {0}]
  BY DEF IInv, TypeOK
<1>5. ASSUME NEW j \in Invocations
      PROVE Depth(j) \in Nat /\ Counted(j) \subseteq Calls
            /\ Depth(j) = Cardinality(Counted(j)) /\ (j \in DOMAIN depths <=> Counted(j) # {})
  BY CallsFinite DEF IInv, CountIsTold, Counted
<1>6. /\ Counted(i)' = Counted(i) \ {c} /\ c \in Counted(i)
      /\ \A j \in Invocations \ {i} : Counted(j)' = Counted(j)
  BY <1>1, <1>2 DEF Counted
<1>7. i \in DOMAIN depths /\ Depth(i) = depths[i] /\ depths[i] \in Nat \ {0}
      /\ Cardinality(Counted(i)') = depths[i] - 1
  BY <1>1, <1>4, <1>5, <1>6, OneLess DEF Depth
<1>8. depths' \in [DOMAIN depths' -> Nat \ {0}] /\ DOMAIN depths' \subseteq Invocations
      /\ (i \in DOMAIN depths' <=> depths[i] > 1)
      /\ Depth(i)' = depths[i] - 1
      /\ \A j \in Invocations \ {i} :
           (j \in DOMAIN depths' <=> j \in DOMAIN depths) /\ Depth(j)' = Depth(j)
  <2>1. CASE depths[i] > 1
    <3>1. depths' = [depths EXCEPT ![i] = @ - 1]
      BY <1>7, <2>1 DEF EndCall
    <3> QED BY <1>4, <1>7, <2>1, <3>1 DEF Depth
  <2>2. CASE ~(depths[i] > 1)
    <3>1. depths' = [j \in DOMAIN depths \ {i} |-> depths[j]]
      BY <1>7, <2>2 DEF EndCall
    <3>2. depths[i] = 1
      BY <1>7, <2>2
    <3> QED BY <1>4, <1>7, <3>1, <3>2 DEF Depth
  <2> QED BY <2>1, <2>2
<1>9. CountIsTold'
  <2> SUFFICES ASSUME NEW j \in Invocations
      PROVE Depth(j)' = Cardinality(Counted(j)') /\ (j \in DOMAIN depths' <=> Counted(j)' # {})
    BY DEF CountIsTold
  <2>1. CASE j = i
    <3>1. Counted(i)' \subseteq Calls
      BY DEF Counted
    <3>2. Counted(i)' # {} <=> depths[i] > 1
      BY <1>7, <3>1, NoneCounted
    <3> QED BY <1>7, <1>8, <2>1, <3>2
  <2>2. CASE j # i
    BY <1>5, <1>6, <1>8, <2>2
  <2> QED BY <2>1, <2>2
<1>10. TypeOK'
  BY <1>2, <1>3, <1>8 DEF IInv, TypeOK
<1>11. InTurn' /\ GoneIdle'
  BY <1>1, <1>2, <1>3 DEF IInv, InTurn, GoneIdle, Free
<1>12. FrameIsDepth'
  <2> SUFFICES ASSUME NEW d \in Calls, phase'[d] = "beginning"
      PROVE frame'[d] = Cardinality(Of(Inv[d], {"open", "cancelled", "lost"})')
    BY DEF FrameIsDepth
  <2>1. d # c /\ phase[d] = "beginning" /\ Inv[d] # i
    BY <1>1, <1>2 DEF Free
  <2>2. Of(Inv[d], {"open", "cancelled", "lost"})' = Of(Inv[d], {"open", "cancelled", "lost"})
    BY <1>1, <1>2, <2>1 DEF Of
  <2> QED BY <1>3, <2>1, <2>2 DEF IInv, FrameIsDepth
<1>13. LogTells'
  BY <1>1, <1>2, <1>3 DEF IInv, LogTells, Lined
<1> QED BY <1>3, <1>9, <1>10, <1>11, <1>12, <1>13, NoLine DEF IInv

\* A closing line says that its call is open no more.
LEMMA WriteClosingKeeps ==
  ASSUME IInv, NEW c \in Calls, WriteClosing(c)
  PROVE IInv'
<1> DEFINE l == Line(c, "closing", frame[c])
<1>1. phase \in [Calls -> Phases] /\ phase[c] = "ending" /\ log \in Seq(Lines)
  BY DEF IInv, TypeOK, WriteClosing, Lines
<1>2. phase' = [phase EXCEPT ![c] = "closed"] /\ phase' \in [Calls -> Phases]
  BY <1>1 DEF WriteClosing, Move, Phases
<1>3. l \in Lines /\ l.call = c /\ l.mark = "closing" /\ log' = Append(log, l)
  BY DEF IInv, TypeOK, WriteClosing, Lines, Line
<1> HIDE DEF l
<1>4. UNCHANGED <<depths, frame, gone>>
  BY DEF WriteClosing
<1>5. ASSUME NEW j PROVE Counted(j)' = Counted(j)
      /\ Of(j, {"open", "cancelled", "lost"})' = Of(j, {"open", "cancelled", "lost"})
  BY <1>1, <1>2 DEF Counted, Of
<1>6. TypeOK'
  BY <1>1, <1>2, <1>3, <1>4 DEF IInv, TypeOK, Lines
<1>7. CountIsTold'
  BY <1>4, <1>5 DEF IInv, CountIsTold, Depth
<1>8. InTurn' /\ GoneIdle'
  BY <1>1, <1>2, <1>4 DEF IInv, InTurn, GoneIdle
<1>9. FrameIsDepth'
  BY <1>1, <1>2, <1>4, <1>5 DEF IInv, FrameIsDepth
<1>10. LogTells'
  <2>1. Lined(log', "closing") = Lined(log, "closing") \cup {c}
        /\ Lined(log', "opening") = Lined(log, "opening")
    <3>1. ASSUME NEW mark \in {"opening", "closing"}
          PROVE Lined(log', mark) =
                  Lined(log, mark) \cup (IF "closing" = mark THEN {c} ELSE {})
      BY <1>1, <1>3, OneLine
    <3> QED BY <3>1
  <2> QED BY <1>1, <1>2, <2>1 DEF IInv, LogTells
<1>11. IndentationIsNesting'
  <2>1. IndentationIsNesting /\ l.mark # "opening"
    BY <1>3 DEF IInv
  <2> QED BY <1>1, <1>3, <2>1, LineKeepsIndentation
<1> QED BY <1>6, <1>7, <1>8, <1>9, <1>10, <1>11 DEF IInv

\* What a dropped store loses stays counted.
LEMMA DropStoreKeeps ==
  ASSUME IInv, NEW i \in Invocations, DropStore(i)
  PROVE IInv'
<1>1. phase \in [Calls -> Phases] /\ Free(i)
  BY DEF IInv, TypeOK, DropStore
<1>2. phase' \in [Calls -> Phases] /\ \A c \in Calls :
        phase'[c] = IF Inv[c] = i /\ phase[c] \in {"open", "cancelled"} THEN "lost" ELSE phase[c]
  BY <1>1 DEF DropStore, Phases
<1>3. UNCHANGED <<depths, frame, log>> /\ gone' = gone \cup {i}
  BY DEF DropStore
<1>4. ASSUME NEW j PROVE Counted(j)' = Counted(j)
      /\ Of(j, {"open", "cancelled", "lost"})' = Of(j, {"open", "cancelled", "lost"})
  BY <1>1, <1>2 DEF Counted, Of
<1>5. TypeOK' /\ CountIsTold'
  BY <1>2, <1>3, <1>4 DEF IInv, TypeOK, CountIsTold, Depth
<1>6. InTurn' /\ GoneIdle'
  BY <1>1, <1>2, <1>3 DEF IInv, InTurn, GoneIdle, Free
<1>7. FrameIsDepth'
  BY <1>1, <1>2, <1>3, <1>4 DEF IInv, FrameIsDepth
<1>8. LogTells'
  BY <1>1, <1>2, <1>3 DEF IInv, LogTells, Lined
<1> QED BY <1>3, <1>5, <1>6, <1>7, <1>8, NoLine DEF IInv

\* Every step keeps the invariant.
LEMMA Inductive == IInv /\ [Next]_vars => IInv'
<1> SUFFICES ASSUME IInv, [Next]_vars PROVE IInv'
  OBVIOUS
<1>1. CASE \E c \in Calls :
        BeginCall(c) \/ WriteOpening(c) \/ Cancel(c) \/ EndCall(c) \/ WriteClosing(c)
  BY <1>1, BeginCallKeeps, WriteOpeningKeeps, CancelKeeps, EndCallKeeps, WriteClosingKeeps
<1>2. CASE \E i \in Invocations : DropStore(i)
  BY <1>2, DropStoreKeeps
<1>3. CASE UNCHANGED vars
  <2>1. UNCHANGED <<depths, phase, frame, log, gone>>
    BY <1>3 DEF vars
  <2>2. TypeOK' /\ CountIsTold'
    BY <2>1 DEF IInv, TypeOK, CountIsTold, Depth, Counted
  <2>3. InTurn' /\ GoneIdle' /\ FrameIsDepth' /\ LogTells'
    BY <2>1 DEF IInv, InTurn, GoneIdle, FrameIsDepth, LogTells, Of, Lined
  <2> QED BY <2>1, <2>2, <2>3, NoLine DEF IInv
<1> QED BY <1>1, <1>2, <1>3 DEF Next

-----------------------------------------------------------------------------

\* Every invocation's depth is the number of its calls told of before and
\* not after, whatever is cancelled or lost with its store.
THEOREM DepthIsTheCount == Spec => []CountIsTold
BY Initial, Inductive, PTL DEF Spec, IInv

\* The indentation of every opening line is the number of calls of its
\* invocation that the log shows to be open there.
THEOREM IndentationNests == Spec => []IndentationIsNesting
BY Initial, Inductive, PTL DEF Spec, IInv

\* The types of what the logger and its log keep.
THEOREM Typing == Spec => []TypeOK
BY Initial, Inductive, PTL DEF Spec, IInv

-----------------------------------------------------------------------------
(* The two lines of a call                                                 *)

\* A line has the depth of its call's frame, and a call one line of a mark.
LinesOfFrames ==
  \A j, k \in DOMAIN log :
    /\ log[j].depth = frame[log[j].call]
    /\ log[j].call = log[k].call /\ log[j].mark = log[k].mark => j = k

\* Only calls that were begun have lines, and those of a closed one only have
\* a closing line.
LEMMA LinedCalls ==
  ASSUME IInv, NEW j \in DOMAIN log
  PROVE  /\ log[j] \in Lines
         /\ phase[log[j].call] \notin {"new", "beginning"}
         /\ log[j].mark = "closing" => phase[log[j].call] = "closed"
<1>1. log[j] \in Lines
  <2>1. log \in Seq(Lines)
    BY DEF IInv, TypeOK, Lines
  <2> QED BY <2>1
<1>2. log[j].call \in Lined(log, log[j].mark)
  BY DEF Lined
<1> QED BY <1>1, <1>2 DEF Lines, IInv, LogTells

\* A new line of a call that has none of its mark keeps all lines as they are.
LEMMA NewLine ==
  ASSUME IInv, LinesOfFrames, LinesBalance, frame' = frame,
         NEW l \in Lines, log' = Append(log, l),
         l.depth = frame[l.call], l.call \notin Lined(log, l.mark),
         l.mark = "closing" => l.call \in Lined(log, "opening")
  PROVE  LinesOfFrames' /\ LinesBalance'
<1> DEFINE n == Len(log)
<1>1. /\ n \in Nat /\ DOMAIN log = 1..n /\ DOMAIN log' = 1..(n + 1)
      /\ \A k \in 1..n : log'[k] = log[k] /\ log[k] \in Lines
      /\ log'[n + 1] = l
  <2>1. log \in Seq(Lines)
    BY DEF IInv, TypeOK, Lines
  <2> QED BY <2>1
<1>2. \A k \in 1..n : ~(log[k].call = l.call /\ log[k].mark = l.mark)
  BY <1>1 DEF Lined
<1>3. \A k \in 1..(n + 1) : k = n + 1 \/ k \in 1..n
  BY <1>1
<1> HIDE DEF n
<1>4. LinesOfFrames'
  <2>1. \A k \in DOMAIN log' : log'[k].depth = frame[log'[k].call]
    BY <1>1, <1>3 DEF LinesOfFrames
  <2>2. \A j, k \in DOMAIN log' :
          log'[j].call = log'[k].call /\ log'[j].mark = log'[k].mark => j = k
    BY <1>1, <1>2, <1>3 DEF LinesOfFrames
  <2> QED BY <2>1, <2>2 DEF LinesOfFrames
<1>5. \A j, k \in DOMAIN log' : log'[j] = log'[k] => j = k
  BY <1>4 DEF LinesOfFrames
<1>6. ASSUME NEW k \in DOMAIN log', log'[k].mark = "closing"
      PROVE  \E j \in 1..(k - 1) : log'[j] = Line(log'[k].call, "opening", log'[k].depth)
  <2>1. CASE k \in 1..n
    <3>1. PICK j \in 1..(k - 1) : log[j] = Line(log[k].call, "opening", log[k].depth)
      BY <1>1, <1>6, <2>1 DEF LinesBalance
    <3>2. j \in 1..n
      BY <1>1, <2>1
    <3> QED BY <1>1, <2>1, <3>1, <3>2
  <2>2. CASE k = n + 1
    <3>1. PICK j \in 1..n : log[j].mark = "opening" /\ log[j].call = l.call
      BY <1>1, <1>6, <2>2 DEF Lined
    <3>2. log[j].depth = l.depth
      BY <1>1, <3>1 DEF LinesOfFrames
    <3>3. log[j] = Line(l.call, "opening", l.depth)
      BY <1>1, <3>1, <3>2 DEF Line, Lines
    <3>4. j \in 1..(k - 1)
      BY <1>1, <2>2
    <3> QED BY <1>1, <2>2, <3>3, <3>4
  <2> QED BY <1>1, <1>3, <1>6, <2>1, <2>2
<1> QED BY <1>4, <1>5, <1>6 DEF LinesBalance

\* Every step keeps the lines balanced.
LEMMA BalanceKept ==
  ASSUME IInv, LinesOfFrames, LinesBalance, [Next]_vars
  PROVE  LinesOfFrames' /\ LinesBalance'
<1>1. ASSUME NEW c \in Calls, WriteOpening(c) PROVE LinesOfFrames' /\ LinesBalance'
  <2> DEFINE l == Line(c, "opening", frame[c])
  <2>1. /\ l \in Lines /\ log' = Append(log, l) /\ frame' = frame
        /\ l.depth = frame[l.call] /\ l.call = c /\ l.mark = "opening"
    BY <1>1 DEF WriteOpening, Line, Lines, IInv, TypeOK
  <2>2. c \notin Lined(log, "opening")
    BY <1>1 DEF WriteOpening, IInv, LogTells
  <2> HIDE DEF l
  <2> QED BY <2>1, <2>2, NewLine
<1>2. ASSUME NEW c \in Calls, WriteClosing(c) PROVE LinesOfFrames' /\ LinesBalance'
  <2> DEFINE l == Line(c, "closing", frame[c])
  <2>1. /\ l \in Lines /\ log' = Append(log, l) /\ frame' = frame
        /\ l.depth = frame[l.call] /\ l.call = c /\ l.mark = "closing"
    BY <1>2 DEF WriteClosing, Line, Lines, IInv, TypeOK
  <2>2. c \notin Lined(log, "closing") /\ c \in Lined(log, "opening")
    BY <1>2 DEF WriteClosing, IInv, LogTells
  <2> HIDE DEF l
  <2> QED BY <2>1, <2>2, NewLine
<1>3. ASSUME log' = log, \A j \in DOMAIN log : frame'[log[j].call] = frame[log[j].call]
      PROVE  LinesOfFrames' /\ LinesBalance'
  BY <1>3 DEF LinesOfFrames, LinesBalance
<1>4. ASSUME NEW c \in Calls, BeginCall(c) PROVE LinesOfFrames' /\ LinesBalance'
  <2>1. log' = log /\ phase[c] = "new"
    BY <1>4 DEF BeginCall
  <2>2. \A j \in DOMAIN log : log[j].call # c
    BY <2>1, LinedCalls
  <2>3. \A j \in DOMAIN log : frame'[log[j].call] = frame[log[j].call]
    BY <1>4, <2>2, LinedCalls DEF BeginCall, IInv, TypeOK, Lines
  <2> QED BY <1>3, <2>1, <2>3
<1>5. CASE UNCHANGED <<log, frame>>
  BY <1>3, <1>5
<1> QED BY <1>1, <1>2, <1>4, <1>5 DEF Next, vars, Cancel, EndCall, DropStore

\* Overlapping calls that end in any order have two lines each at most, the
\* opening one first, indented alike (logger.rs).
THEOREM LinesAreBalanced == Spec => []LinesBalance
<1>1. Init => LinesOfFrames /\ LinesBalance
  BY DEF Init, LinesOfFrames, LinesBalance
<1>2. IInv /\ LinesOfFrames /\ LinesBalance /\ [Next]_vars => LinesOfFrames' /\ LinesBalance'
  BY BalanceKept
<1> QED BY <1>1, <1>2, Initial, Inductive, PTL DEF Spec
=============================================================================
