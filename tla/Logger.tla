------------------------------- MODULE Logger -------------------------------
(***************************************************************************)
(* The Logger layer: a depth per invocation, kept outside the stores and   *)
(* shared by every chain the logger is installed in.  A hook takes the     *)
(* lock of the depths and the lock of the writer one after the other, so   *)
(* that lines of other invocations come between.                           *)
(***************************************************************************)
EXTENDS Integers, Sequences, FiniteSets

CONSTANTS
  Calls,        \* the calls whose before hooks reach the logger
  Invocations,  \* the ids of the invocation contexts
  Inv           \* the invocation of each call

ASSUME CallsAssumption == IsFiniteSet(Calls) /\ Inv \in [Calls -> Invocations]

VARIABLES
  depths,  \* the map of invocations to depths, without entries for others
  phase,   \* where each call is
  frame,   \* the depth in each call's frame
  log,     \* the lines written
  gone     \* the invocations whose store was dropped

vars == <<depths, phase, frame, log, gone>>

Phases == {"new", "beginning", "open", "cancelled", "ending", "closed", "lost"}

Line(c, mark, depth) == [call |-> c, mark |-> mark, depth |-> depth]

Init ==
  /\ depths = [i \in {} |-> 0]
  /\ phase = [c \in Calls |-> "new"]
  /\ frame = [c \in Calls |-> 0]
  /\ log = <<>>
  /\ gone = {}

\* Hooks borrow their store, so that those of one invocation run in turn.
Free(i) ==
  /\ i \notin gone
  /\ \A c \in Calls : Inv[c] = i => phase[c] \notin {"beginning", "ending"}

Depth(i) == IF i \in DOMAIN depths THEN depths[i] ELSE 0

Move(c, to) == phase' = [phase EXCEPT ![c] = to]

-----------------------------------------------------------------------------
(* before                                                                  *)

\* Variant: the depth after the increment.
BeginCallInner(c) ==
  /\ phase[c] = "new" /\ Free(Inv[c])
  /\ depths' = [i \in DOMAIN depths \cup {Inv[c]} |-> Depth(i) + (IF i = Inv[c] THEN 1 ELSE 0)]
  /\ frame' = [frame EXCEPT ![c] = Depth(Inv[c]) + 1]
  /\ Move(c, "beginning")
  /\ UNCHANGED <<log, gone>>

\* A call dropped while earlier cancellations are delivered is still counted.
BeginCall(c) ==
  /\ phase[c] = "new" /\ Free(Inv[c])
  /\ depths' = [i \in DOMAIN depths \cup {Inv[c]} |-> Depth(i) + (IF i = Inv[c] THEN 1 ELSE 0)]
  /\ frame' = [frame EXCEPT ![c] = Depth(Inv[c])]
  /\ Move(c, "beginning")
  /\ UNCHANGED <<log, gone>>

WriteOpening(c) ==
  /\ phase[c] = "beginning"
  /\ log' = Append(log, Line(c, "opening", frame[c]))
  /\ Move(c, "open")
  /\ UNCHANGED <<depths, frame, gone>>

\* The call's future is dropped; after runs at the delivery, if ever.
Cancel(c) ==
  /\ phase[c] = "open" /\ Inv[c] \notin gone
  /\ Move(c, "cancelled")
  /\ UNCHANGED <<depths, frame, log, gone>>

-----------------------------------------------------------------------------
(* after                                                                   *)

\* Variant: the entry goes with the first of its calls to end.
EndCallForgetting(c) ==
  /\ phase[c] \in {"open", "cancelled"} /\ Free(Inv[c])
  /\ depths' = [i \in DOMAIN depths \ {Inv[c]} |-> depths[i]]
  /\ Move(c, "ending")
  /\ UNCHANGED <<frame, log, gone>>

\* Variant: an entry of zero stays in the map.
EndCallKeeping(c) ==
  /\ phase[c] \in {"open", "cancelled"} /\ Free(Inv[c])
  /\ depths' = [depths EXCEPT ![Inv[c]] = @ - 1]
  /\ Move(c, "ending")
  /\ UNCHANGED <<frame, log, gone>>

\* The entry is removed when it reaches zero.
EndCall(c) ==
  /\ phase[c] \in {"open", "cancelled"} /\ Free(Inv[c])
  /\ depths' = IF Inv[c] \in DOMAIN depths /\ depths[Inv[c]] > 1
                 THEN [depths EXCEPT ![Inv[c]] = @ - 1]
                 ELSE [i \in DOMAIN depths \ {Inv[c]} |-> depths[i]]
  /\ Move(c, "ending")
  /\ UNCHANGED <<frame, log, gone>>

\* Variant: the closing line at the depth that is left.
WriteClosingAtDepth(c) ==
  /\ phase[c] = "ending"
  /\ log' = Append(log, Line(c, "closing", Depth(Inv[c])))
  /\ Move(c, "closed")
  /\ UNCHANGED <<depths, frame, gone>>

WriteClosing(c) ==
  /\ phase[c] = "ending"
  /\ log' = Append(log, Line(c, "closing", frame[c]))
  /\ Move(c, "closed")
  /\ UNCHANGED <<depths, frame, gone>>

-----------------------------------------------------------------------------

\* The store goes: its calls in progress and its queue of cancellations go
\* with it, and no after hook runs for them.
DropStore(i) ==
  /\ Free(i)
  /\ phase' = [c \in Calls |->
       IF Inv[c] = i /\ phase[c] \in {"open", "cancelled"} THEN "lost" ELSE phase[c]]
  /\ gone' = gone \cup {i}
  /\ UNCHANGED <<depths, frame, log>>

Next ==
  \/ \E c \in Calls :
       BeginCall(c) \/ WriteOpening(c) \/ Cancel(c) \/ EndCall(c) \/ WriteClosing(c)
  \/ \E i \in Invocations : DropStore(i)

Spec == Init /\ [][Next]_vars

-----------------------------------------------------------------------------
(* Properties                                                              *)

TypeOK ==
  /\ depths \in [DOMAIN depths -> Nat \ {0}] /\ DOMAIN depths \subseteq Invocations
  /\ phase \in [Calls -> Phases]
  /\ frame \in [Calls -> Nat]
  /\ log \in Seq([call : Calls, mark : {"opening", "closing"}, depth : Nat])
  /\ gone \subseteq Invocations

Counted(i) == {c \in Calls : Inv[c] = i /\ phase[c] \in {"beginning", "open", "cancelled", "lost"}}

\* The depth of an invocation is the number of its calls whose before hook
\* ran and whose after hook did not, those a dropped store lost included,
\* and an invocation without such calls has no entry in the map (begin_call,
\* end_call).
CountIsTold == \A i \in Invocations :
  /\ Depth(i) = Cardinality(Counted(i))
  /\ i \in DOMAIN depths <=> Counted(i) # {}

Lined(lines, mark) == {lines[k].call : k \in {j \in DOMAIN lines : lines[j].mark = mark}}

\* The calls of i that the lines show to be open.
Shown(lines, i) ==
  {c \in Lined(lines, "opening") \ Lined(lines, "closing") : Inv[c] = i}

\* "Indentation is the number of calls this logger already has open for the
\* same invocation" (logger.rs), as the reader of the log counts them.
IndentationIsNesting == \A k \in DOMAIN log :
  log[k].mark = "opening" =>
    log[k].depth = Cardinality(Shown(SubSeq(log, 1, k - 1), Inv[log[k].call]))

\* "Overlapping sibling calls remain balanced even when they finish out of
\* order" (logger.rs): a call's two lines are indented alike, the opening one
\* first, and there are no more.
LinesBalance == \A k \in DOMAIN log :
  /\ \A j \in DOMAIN log : log[j] = log[k] => j = k
  /\ log[k].mark = "closing" =>
       \E j \in 1..(k - 1) : log[j] = Line(log[k].call, "opening", log[k].depth)
=============================================================================
