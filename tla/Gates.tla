-------------------------------- MODULE Gates --------------------------------
(***************************************************************************)
(* A guest calling gated functions: the host's resource table, the handles *)
(* the guest holds, and what the layers can know of both from the events   *)
(* the gates show them.  A gate is a record of GateCalls; which gates there *)
(* are is a parameter, so that one module serves every linker.             *)
(*                                                                         *)
(* Each call is a dispatch of Chain, seen here from the outside: the       *)
(* layers refuse it, or its delegate runs, and the layers learn its end.   *)
(***************************************************************************)
EXTENDS Naturals, GateCalls

CONSTANTS
  Reps,     \* resource representations, reused by the table
  Types,    \* the resource types
  Slots,    \* asynchronous calls that may be in progress at once
  Linkers,  \* the names of the linkers
  Offer     \* what each of them offers: its gates, and the types of what a
            \* refused call may leave out of reach (forfeited)

None == "none"
ASSUME NoneAssumption == None \notin Types

ASSUME OfferAssumption ==
  \A l \in Linkers : \A g \in Offer[l].gates :
    /\ g.takes \in Seq(Types) /\ g.owns \in Seq(Types) /\ g.gives \subseteq Seq(Types)
    /\ g.opens \in Streams

VARIABLES
  linker,    \* the linker that the guest was instantiated with
  table,     \* the ResourceTable: the type at each representation, or None
  held,      \* the representations the guest has a handle to
  known,     \* what a layer can know to be held: a type for each representation
  hidden,    \* history: those whose last coming or going no event showed
  pending,   \* the asynchronous calls in progress
  streams,   \* the kinds of streams left behind that carry resources
  trapped    \* the guest instance is gone

vars == <<linker, table, held, known, hidden, pending, streams, trapped>>

Idle == [gate |-> None]

Linked == Offer[linker].gates
Forfeited == Offer[linker].forfeited

Init ==
  /\ linker \in Linkers
  /\ table = [r \in Reps |-> None]
  /\ held = {}
  /\ known = [r \in Reps |-> None]
  /\ hidden = {}
  /\ pending = [c \in Slots |-> Idle]
  /\ streams = {}
  /\ trapped = FALSE

-----------------------------------------------------------------------------
(* Handles                                                                 *)

Busy == {c \in Slots : pending[c] # Idle}

\* A handle lent to a call in progress can neither be dropped nor moved.
Lent == UNION {Range(pending[c].lent) : c \in Busy}

\* The handles a guest may lend and move to a call of g.
Handles(g) ==
  {h \in [lent : [DOMAIN g.takes -> held], moved : [DOMAIN g.owns -> held \ Lent]] :
     /\ \A i \in DOMAIN h.lent : table[h.lent[i]] = g.takes[i]
     /\ \A i \in DOMAIN h.moved : table[h.moved[i]] = g.owns[i]
     /\ IsInjective(h.moved)
     /\ Range(h.lent) \cap Range(h.moved) = {}}

\* What the layers see of the handles moved.
Listed(g, h) == {h.moved[i] : i \in {j \in DOMAIN g.owns : g.owns[j] \notin g.omits}}

Strike(f, gone) == [r \in Reps |-> IF r \in gone THEN None ELSE f[r]]

\* Where the table may put resources of the types ts.
Places(t, ts) == {at \in [DOMAIN ts -> {r \in Reps : t[r] = None}] : IsInjective(at)}

Put(f, ts, at, only) ==
  [r \in Reps |-> IF \E i \in DOMAIN ts : at[i] = r /\ ts[i] \in only
                    THEN ts[CHOOSE i \in DOMAIN ts : at[i] = r] ELSE f[r]]

\* Of what is put in the places at, only that stays hidden that its gate hides.
Showing(before, ts, at, hides) ==
  (before \ Range(at)) \cup {at[i] : i \in {j \in DOMAIN ts : ts[j] \in hides}}

\* The chunks of a byte stream carry no resource to the guest.
Left(g) == {g.opens} \ {"nothing", "bytes"}

-----------------------------------------------------------------------------
(* The ends of a call                                                      *)

Dies == trapped' = TRUE /\ UNCHANGED <<table, held, known, hidden, pending, streams>>

\* The guest is left without what it moved: the delegate took `freed' of it,
\* and the layers saw `shown' of it go.
Loses(moved, freed, shown) ==
  /\ table' = Strike(table, freed)
  /\ held' = held \ moved
  /\ known' = Strike(known, shown)
  /\ hidden' = hidden \ shown
  /\ UNCHANGED <<pending, streams, trapped>>

\* last-operation-failed carries an error resource that no gate reports.
FailsOperation ==
  \E r \in Reps :
    /\ table[r] = None
    /\ table' = [table EXCEPT ![r] = "error"]
    /\ held' = held \cup {r}
    /\ hidden' = hidden \cup {r}
    /\ UNCHANGED <<known, pending, streams, trapped>>

\* The error of a call reaches the guest, or traps it.  A converted one is
\* the argument of one more dispatch, which the layers may refuse.
Answer(how, moved, freed, shown) ==
  \/ how \in {"trap", "converted"} /\ Dies
  \/ how \in {"error", "converted"} /\ Loses(moved, freed, shown)
  \/ how = "stream" /\ FailsOperation

\* A layer inside the one that refuses never sees the call.
Refused(g) ==
  /\ ~trapped
  /\ \E h \in Handles(g) : \E shown \in {{}, Listed(g, h)} :
       Answer(g.refusal, Range(h.moved), {}, shown)

\* Errors that are not of the interface's type trap whatever the gate.
Fails(g) ==
  /\ ~trapped /\ g.mode # "async"
  /\ \E h \in Handles(g) :
       \/ Answer(g.failure, Range(h.moved), Range(h.moved), Listed(g, h))
       \/ Dies

\* Variant: the guest keeps what it moved.
ReturnsKeeping(g) ==
  /\ ~trapped /\ g.mode # "async"
  /\ \E h \in Handles(g), ts \in g.gives :
       LET moved == Range(h.moved) IN
       \E at \in Places(Strike(table, moved), ts) :
         /\ table' = Put(Strike(table, moved), ts, at, Types)
         /\ held' = held \cup Range(at)
         /\ known' = Put(Strike(known, Listed(g, h)), ts, at, g.tells)
         /\ hidden' = Showing(hidden \ Listed(g, h), ts, at, g.hides)
         /\ streams' = streams \cup Left(g)
  /\ UNCHANGED <<pending, trapped>>

\* The delegate consumes what was moved and fills the table; what the gate
\* reports of it, the layers know.
Returns(g) ==
  /\ ~trapped /\ g.mode # "async"
  /\ \E h \in Handles(g), ts \in g.gives :
       LET moved == Range(h.moved) IN
       \E at \in Places(Strike(table, moved), ts) :
         /\ table' = Put(Strike(table, moved), ts, at, Types)
         /\ held' = (held \ moved) \cup Range(at)
         /\ known' = Put(Strike(known, Listed(g, h)), ts, at, g.tells)
         /\ hidden' = Showing(hidden \ Listed(g, h), ts, at, g.hides)
         /\ streams' = streams \cup Left(g)
  /\ UNCHANGED <<pending, trapped>>

\* A method that borrows the store is dropped with everything of the store.
Abandoned(g) == ~trapped /\ g.mode = "borrowed" /\ Handles(g) # {} /\ Dies

-----------------------------------------------------------------------------
(* Asynchronous calls                                                      *)

\* Variant: the guest keeps what it moved.
BeginsKeeping(c, g) ==
  /\ ~trapped /\ g.mode = "async" /\ c \notin Busy
  /\ \E h \in Handles(g) :
       /\ table' = Strike(table, Range(h.moved))
       /\ known' = Strike(known, Listed(g, h))
       /\ hidden' = hidden \ Listed(g, h)
       /\ pending' = [pending EXCEPT ![c] = [gate |-> g, lent |-> h.lent]]
  /\ UNCHANGED <<held, streams, trapped>>

\* The layers allow the call, and the delegate takes what was moved to it.
Begins(c, g) ==
  /\ ~trapped /\ g.mode = "async" /\ c \notin Busy
  /\ \E h \in Handles(g) :
       /\ table' = Strike(table, Range(h.moved))
       /\ held' = held \ Range(h.moved)
       /\ known' = Strike(known, Listed(g, h))
       /\ hidden' = hidden \ Listed(g, h)
       /\ pending' = [pending EXCEPT ![c] = [gate |-> g, lent |-> h.lent]]
  /\ UNCHANGED <<streams, trapped>>

Ends(c) ==
  /\ ~trapped /\ c \in Busy
  /\ LET g == pending[c].gate IN
     \E ts \in g.gives : \E at \in Places(table, ts) :
       /\ table' = Put(table, ts, at, Types)
       /\ held' = held \cup Range(at)
       /\ known' = Put(known, ts, at, g.tells)
       /\ hidden' = Showing(hidden, ts, at, g.hides)
       /\ streams' = streams \cup Left(g)
  /\ pending' = [pending EXCEPT ![c] = Idle]
  /\ UNCHANGED trapped

EndsInError(c) ==
  /\ ~trapped /\ c \in Busy
  /\ \/ trapped' = TRUE
     \/ pending[c].gate.failure # "trap" /\ UNCHANGED trapped
  /\ pending' = [pending EXCEPT ![c] = Idle]
  /\ UNCHANGED <<table, held, known, hidden, streams>>

\* The guest cancels the call: its future is dropped.
Cancelled(c) ==
  /\ ~trapped /\ c \in Busy
  /\ pending' = [pending EXCEPT ![c] = Idle]
  /\ UNCHANGED <<table, held, known, hidden, streams, trapped>>

-----------------------------------------------------------------------------
(* Streams                                                                 *)

\* A resource arrives inside a stream or a future, without a call.
Arrives(kind) ==
  /\ ~trapped /\ kind \in streams
  /\ \E r \in Reps :
       /\ table[r] = None
       /\ \/ kind = "sockets" /\ table' = [table EXCEPT ![r] = "tcp-socket"]
          \/ kind = "trailers" /\ table' = [table EXCEPT ![r] = "fields"]
       /\ held' = held \cup {r}
       /\ hidden' = hidden \cup {r}
  /\ UNCHANGED <<known, pending, streams, trapped>>

\* The guest sends trailers into the future it gave with its contents.
Departs(kind) ==
  /\ ~trapped /\ kind \in streams /\ kind = "given"
  /\ \E r \in held \ Lent :
       /\ table[r] = "fields"
       /\ table' = [table EXCEPT ![r] = None]
       /\ held' = held \ {r}
       /\ hidden' = hidden \cup {r}
  /\ UNCHANGED <<known, pending, streams, trapped>>

\* The last stream of its kind ends.
StreamEnds(kind) ==
  /\ ~trapped /\ kind \in streams
  /\ streams' = streams \ {kind}
  /\ UNCHANGED <<table, held, known, hidden, pending, trapped>>

\* A trapped guest makes no further call.
Rest == trapped /\ UNCHANGED <<table, held, known, hidden, pending, streams, trapped>>

Next ==
  /\ UNCHANGED linker
  /\ \/ \E g \in Linked :
          \/ Refused(g) \/ Fails(g) \/ Returns(g) \/ Abandoned(g)
          \/ \E c \in Slots : Begins(c, g)
     \/ \E c \in Slots : Ends(c) \/ EndsInError(c) \/ Cancelled(c)
     \/ \E kind \in streams : Arrives(kind) \/ Departs(kind) \/ StreamEnds(kind)
     \/ Rest

Spec == Init /\ [][Next]_vars

-----------------------------------------------------------------------------
(* Properties                                                              *)

TypeOK ==
  /\ linker \in Linkers
  /\ table \in [Reps -> Types \cup {None}]
  /\ held \subseteq {r \in Reps : table[r] # None}
  /\ known \in [Reps -> Types \cup {None}]
  /\ hidden \subseteq Reps
  /\ \A c \in Busy : pending[c].gate \in Linked /\ Range(pending[c].lent) \subseteq held
  /\ streams \subseteq {"sockets", "trailers", "given"}
  /\ trapped \in BOOLEAN

\* A layer that follows the handles and the produced resources of the calls
\* it sees knows the guest's handles and their types, although the table
\* reuses representations: each layer sees the resource handles a call took
\* and returned, and handle drops (README.md).  What it knows of is still in
\* the table, and the guest's unless a refusal gave it up.  A resource that
\* came or went behind its back is the one exception, and the exception ends
\* with the next call that gives or takes its representation.
LayersKnowGuest ==
  \A r \in Reps \ hidden :
    /\ r \in held => known[r] = table[r]
    /\ known[r] # None => table[r] = known[r] /\ (r \in held \/ known[r] \in Forfeited)

\* What a call takes by value and its refusal does not give back stays in the
\* table out of anybody's reach; that happens to the Forfeited types only.
NothingStranded ==
  \A r \in Reps : table[r] # None => r \in held \/ table[r] \in Forfeited
=============================================================================
