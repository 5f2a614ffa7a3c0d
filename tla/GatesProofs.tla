---------------------------- MODULE GatesProofs ----------------------------
(***************************************************************************)
(* What Gates guarantees for any table, any number of asynchronous calls   *)
(* and any set of gates that Reports: every handle it takes is listed,     *)
(* every resource it returns is told or known to be hidden, and a refusal  *)
(* that is answered gives up exempt types only.                            *)
(* The gates of GateLinkers, those of the code, are then shown to report.  *)
(***************************************************************************)
EXTENDS Gates, GateLinkers, TLAPS

\* What a stream of this kind carries is a resource.
Carries(kind) ==
  /\ kind = "sockets" => "tcp-socket" \in Types
  /\ kind \in {"trailers", "given"} => "fields" \in Types

Reporting(gates, forfeited) ==
  \A g \in gates :
    /\ g.omits = {}
    /\ \A ts \in g.gives : Range(ts) \subseteq g.tells \cup g.hides
    /\ g.refusal # "trap" => Range(g.owns) \subseteq forfeited
    /\ "stream" \in {g.refusal, g.failure} => "error" \in Types
    /\ Carries(g.opens)

Reports == \A l \in Linkers : Reporting(Offer[l].gates, Offer[l].forfeited)

\* The relation of table, handles and knowledge that every step keeps, but
\* for the hidden resources x.
Sound(t, h, k, x) ==
  /\ t \in [Reps -> Types \cup {None}]
  /\ k \in [Reps -> Types \cup {None}]
  /\ h \subseteq {r \in Reps : t[r] # None}
  /\ x \subseteq Reps
  /\ \A r \in Reps :
       /\ r \in h \ x => k[r] = t[r]
       /\ r \notin x /\ k[r] # None => t[r] = k[r] /\ (r \in h \/ k[r] \in Forfeited)
       /\ t[r] # None => r \in h \/ t[r] \in Forfeited

IInv ==
  /\ linker \in Linkers
  /\ Sound(table, held, known, hidden)
  /\ pending = [c \in Slots |-> pending[c]]
  /\ \A c \in Busy : pending[c].gate \in Linked
  /\ \A s \in streams : Carries(s)

-----------------------------------------------------------------------------
(* Operators                                                               *)

\* Put changes the places it is given, and there only for the types it may.
LEMMA PutProperties ==
  ASSUME NEW f, NEW ts, NEW only, NEW at \in [DOMAIN ts -> Reps], IsInjective(at)
  PROVE  /\ \A r \in Reps \ Range(at) : Put(f, ts, at, only)[r] = f[r]
         /\ \A i \in DOMAIN ts :
              Put(f, ts, at, only)[at[i]] = IF ts[i] \in only THEN ts[i] ELSE f[at[i]]
<1>1. \A r \in Reps \ Range(at) : Put(f, ts, at, only)[r] = f[r]
  BY DEF Put, Range
<1>2. ASSUME NEW i \in DOMAIN ts
      PROVE  Put(f, ts, at, only)[at[i]] = IF ts[i] \in only THEN ts[i] ELSE f[at[i]]
  <2>1. \A j \in DOMAIN ts : at[j] = at[i] => j = i
    BY <1>2 DEF IsInjective
  <2>2. at[i] \in Reps
    BY <1>2
  <2>3. (CHOOSE j \in DOMAIN ts : at[j] = at[i]) = i
    BY <1>2, <2>1
  <2>4. (\E j \in DOMAIN ts : at[j] = at[i] /\ ts[j] \in only) <=> ts[i] \in only
    BY <1>2, <2>1
  <2> QED BY <2>2, <2>3, <2>4 DEF Put
<1> QED BY <1>1, <1>2

\* What the delegate takes of the guest's resources leaves all in agreement.
LEMMA Taking ==
  ASSUME NEW t, NEW h, NEW k, NEW x, Sound(t, h, k, x), NEW moved \in SUBSET h
  PROVE  Sound(Strike(t, moved), h \ moved, Strike(k, moved), x \ moved)
BY NoneAssumption DEF Sound, Strike

\* So does what it gives, when all of it is told or hidden.
LEMMA Giving ==
  ASSUME NEW t, NEW h, NEW k, NEW x, Sound(t, h, k, x),
         NEW ts \in Seq(Types), NEW tells, NEW hides, Range(ts) \subseteq tells \cup hides,
         NEW at \in Places(t, ts)
  PROVE  Sound(Put(t, ts, at, Types), h \cup Range(at), Put(k, ts, at, tells),
               Showing(x, ts, at, hides))
<1> DEFINE t1 == Put(t, ts, at, Types)
           k1 == Put(k, ts, at, tells)
           x1 == Showing(x, ts, at, hides)
<1>1. /\ at \in [DOMAIN ts -> {r \in Reps : t[r] = None}]
      /\ at \in [DOMAIN ts -> Reps]
      /\ IsInjective(at)
  BY DEF Places
<1>2. \A i \in DOMAIN ts : ts[i] \in Types
  OBVIOUS
<1>3. \A r \in Reps \ Range(at) : t1[r] = t[r] /\ k1[r] = k[r]
  BY <1>1, PutProperties
<1>4. \A i \in DOMAIN ts :
        /\ t1[at[i]] = ts[i]
        /\ k1[at[i]] = IF ts[i] \in tells THEN ts[i] ELSE k[at[i]]
  BY <1>1, <1>2, PutProperties
<1>5. \A r \in Range(at) : \E i \in DOMAIN ts : r = at[i]
  BY <1>1 DEF Range
<1>6. \A i \in DOMAIN ts : ts[i] \notin tells => ts[i] \in hides
  BY DEF Range
<1>7. t1 = [r \in Reps |-> t1[r]] /\ k1 = [r \in Reps |-> k1[r]]
  BY DEF Put
<1>8. Range(at) \subseteq Reps
  BY <1>1 DEF Range
<1>9. /\ \A i \in DOMAIN ts : ts[i] \in hides => at[i] \in x1
      /\ \A r \in Reps \ Range(at) : r \in x1 <=> r \in x
      /\ x1 \subseteq Reps
  <2>1. \A i \in DOMAIN ts : at[i] \in Range(at)
    BY <1>1 DEF Range
  <2> QED BY <1>8, <2>1 DEF Showing, Sound
<1> HIDE DEF t1, k1, x1
<1>10. ASSUME NEW r \in Range(at)
       PROVE  /\ r \in Reps /\ t1[r] \in Types /\ k1[r] \in Types \cup {None}
              /\ r \notin x1 => k1[r] = t1[r]
  <2>1. PICK i \in DOMAIN ts : r = at[i]
    BY <1>5, <1>10
  <2>2. r \in Reps /\ k[r] \in Types \cup {None}
    BY <1>8, <1>10 DEF Sound
  <2>3. r \notin x1 => ts[i] \in tells
    BY <1>6, <1>9, <2>1
  <2> QED BY <1>2, <1>4, <2>1, <2>2, <2>3
<1>11. ASSUME NEW r \in Reps \ Range(at)
       PROVE  /\ t1[r] \in Types \cup {None} /\ k1[r] \in Types \cup {None}
              /\ r \in h \ x1 => k1[r] = t1[r]
              /\ r \notin x1 /\ k1[r] # None => t1[r] = k1[r] /\ (r \in h \/ k1[r] \in Forfeited)
              /\ t1[r] # None => r \in h \/ t1[r] \in Forfeited
              /\ r \in h => t1[r] # None
  BY <1>3, <1>9, <1>11 DEF Sound
<1>12. t1 \in [Reps -> Types \cup {None}] /\ k1 \in [Reps -> Types \cup {None}]
  BY <1>7, <1>10, <1>11
<1>13. h \cup Range(at) \subseteq {r \in Reps : t1[r] # None}
  BY <1>10, <1>11, NoneAssumption DEF Sound
<1>14. \A r \in Reps :
         /\ r \in (h \cup Range(at)) \ x1 => k1[r] = t1[r]
         /\ r \notin x1 /\ k1[r] # None
              => t1[r] = k1[r] /\ (r \in h \cup Range(at) \/ k1[r] \in Forfeited)
         /\ t1[r] # None => r \in h \cup Range(at) \/ t1[r] \in Forfeited
  BY <1>10, <1>11
<1>15. Sound(t1, h \cup Range(at), k1, x1)
  BY <1>9, <1>12, <1>13, <1>14 DEF Sound
<1> QED BY <1>15 DEF t1, k1, x1

\* A refused call gives up exempt types only.
LEMMA Forfeiting ==
  ASSUME NEW t, NEW h, NEW k, NEW x, Sound(t, h, k, x),
         NEW moved \in SUBSET h, \A r \in moved : t[r] \in Forfeited,
         NEW shown \in {{}, moved}
  PROVE  Sound(Strike(t, {}), h \ moved, Strike(k, shown), x \ shown)
BY NoneAssumption DEF Sound, Strike

\* A resource that nobody is told of may appear or go, hidden.
LEMMA Appearing ==
  ASSUME NEW t, NEW h, NEW k, NEW x, Sound(t, h, k, x),
         NEW r \in Reps, t[r] = None, NEW type \in Types
  PROVE  Sound([t EXCEPT ![r] = type], h \cup {r}, k, x \cup {r})
BY NoneAssumption DEF Sound

\* So may one that the guest holds.
LEMMA Departing ==
  ASSUME NEW t, NEW h, NEW k, NEW x, Sound(t, h, k, x), NEW r \in h
  PROVE  Sound([t EXCEPT ![r] = None], h \ {r}, k, x \cup {r})
BY NoneAssumption DEF Sound

\* The handles of a call are the guest's, and have the types the gate names.
LEMMA HandlesAreHeld ==
  ASSUME NEW g \in Linked, NEW h \in Handles(g)
  PROVE  /\ Range(h.moved) \in SUBSET held
         /\ \A r \in Range(h.moved) : table[r] \in Range(g.owns)
BY DEF Handles, Range

\* The layers see all the handles a call takes, if its gate lists them.
LEMMA AllListed ==
  ASSUME NEW g, NEW h \in Handles(g), g.omits = {}
  PROVE  Listed(g, h) = Range(h.moved)
<1>1. DOMAIN h.moved = DOMAIN g.owns
  BY DEF Handles
<1>2. {j \in DOMAIN g.owns : g.owns[j] \notin g.omits} = DOMAIN g.owns
  OBVIOUS
<1> QED BY <1>1, <1>2 DEF Listed, Range

\* The guest's linker is one that Reports.
LEMMA ThisReports ==
  ASSUME Reports, IInv
  PROVE  /\ Reporting(Linked, Forfeited)
         /\ \A g \in Linked : g.gives \subseteq Seq(Types)
BY OfferAssumption DEF Reports, IInv, Linked, Forfeited

\* The streams a call leaves behind are of the kind its gate names.
LEMMA StreamKinds ==
  ASSUME \A s \in streams : Carries(s), NEW g, Carries(g.opens),
         streams' = streams \cup Left(g)
  PROVE  \A s \in streams' : Carries(s)
BY DEF Left

-----------------------------------------------------------------------------
(* The steps                                                               *)

\* What a step has to show.
LEMMA Stepped ==
  ASSUME IInv, UNCHANGED linker, Sound(table', held', known', hidden'),
         pending' = [d \in Slots |-> pending'[d]],
         \A d \in Busy' : pending'[d].gate \in Linked,
         \A s \in streams' : Carries(s)
  PROVE  IInv'
BY DEF IInv, Sound, Linked, Forfeited

\* What both ends of a synchronous call leave as it was.
LEMMA Unmoved ==
  ASSUME IInv, UNCHANGED linker, Sound(table', held', known', hidden'), UNCHANGED pending,
         \A s \in streams' : Carries(s)
  PROVE  IInv'
<1>1. \A d \in Busy' : pending'[d].gate \in Linked
  BY DEF IInv, Busy
<1>2. pending' = [d \in Slots |-> pending'[d]]
  BY DEF IInv
<1> QED BY <1>1, <1>2, Stepped

\* A trap leaves everything as it was.
LEMMA DiesKeeps == ASSUME IInv, UNCHANGED linker, Dies PROVE IInv'
BY Unmoved DEF IInv, Dies, Sound

\* A call's answer keeps the invariant when the call gave up nothing, or the
\* delegate took what it gave up, or all of that is exempt.
LEMMA AnswerKeeps ==
  ASSUME IInv, UNCHANGED linker, NEW how, NEW moved \in SUBSET held, NEW freed, NEW shown,
         how = "stream" => "error" \in Types,
         \/ freed = moved /\ shown = moved
         \/ /\ freed = {} /\ shown \in {{}, moved}
            /\ how \in {"error", "converted"} => \A r \in moved : table[r] \in Forfeited,
         Answer(how, moved, freed, shown)
  PROVE  IInv'
<1>0. Sound(table, held, known, hidden) /\ \A s \in streams : Carries(s)
  BY DEF IInv
<1>1. CASE Dies
  BY <1>1, DiesKeeps
<1>2. CASE how \in {"error", "converted"} /\ Loses(moved, freed, shown)
  <2>1. Sound(table', held', known', hidden')
    <3>1. CASE freed = moved /\ shown = moved
      BY <1>0, <1>2, <3>1, Taking DEF Loses
    <3>2. CASE freed = {} /\ shown \in {{}, moved}
                 /\ \A r \in moved : table[r] \in Forfeited
      BY <1>0, <1>2, <3>2, Forfeiting DEF Loses
    <3> QED BY <1>2, <3>1, <3>2
  <2>2. \A s \in streams' : Carries(s)
    BY <1>0, <1>2 DEF Loses
  <2> QED BY <1>2, <2>1, <2>2, Unmoved DEF Loses
<1>3. CASE how = "stream" /\ FailsOperation
  <2>1. PICK r \in Reps : /\ table[r] = None
                          /\ table' = [table EXCEPT ![r] = "error"]
                          /\ held' = held \cup {r}
                          /\ hidden' = hidden \cup {r}
                          /\ UNCHANGED <<known, pending, streams, trapped>>
    BY <1>3 DEF FailsOperation
  <2>2. Sound(table', held', known', hidden')
    BY <1>0, <1>3, <2>1, Appearing
  <2> QED BY <1>0, <2>1, <2>2, Unmoved
<1> QED BY <1>1, <1>2, <1>3 DEF Answer

\* A gate that Reports keeps the invariant through its refusals and failures.
LEMMA RefusedKeeps ==
  ASSUME Reports, IInv, UNCHANGED linker, NEW g \in Linked, Refused(g) PROVE IInv'
<1>1. PICK h \in Handles(g) : \E shown \in {{}, Range(h.moved)} :
        Answer(g.refusal, Range(h.moved), {}, shown)
  BY AllListed, ThisReports DEF Refused, Reporting
<1>2. /\ Range(h.moved) \in SUBSET held
      /\ \A r \in Range(h.moved) : table[r] \in Range(g.owns)
  BY HandlesAreHeld
<1>3. /\ g.refusal \in {"error", "converted"}
           => \A r \in Range(h.moved) : table[r] \in Forfeited
      /\ g.refusal = "stream" => "error" \in Types
  BY <1>2, ThisReports DEF Reporting
<1> QED BY <1>1, <1>2, <1>3, AnswerKeeps

\* So does a delegate's error.
LEMMA FailsKeeps ==
  ASSUME Reports, IInv, UNCHANGED linker, NEW g \in Linked, Fails(g) PROVE IInv'
<1>1. PICK h \in Handles(g) :
        \/ Answer(g.failure, Range(h.moved), Range(h.moved), Range(h.moved))
        \/ Dies
  BY AllListed, ThisReports DEF Fails, Reporting
<1>2. Range(h.moved) \in SUBSET held
  BY HandlesAreHeld
<1>3. g.failure = "stream" => "error" \in Types
  BY ThisReports DEF Reporting
<1>4. CASE Dies
  BY <1>4, DiesKeeps
<1>5. CASE Answer(g.failure, Range(h.moved), Range(h.moved), Range(h.moved))
  BY <1>2, <1>3, <1>5, AnswerKeeps
<1> QED BY <1>1, <1>4, <1>5

\* What a delegate returns is told or exempt.
LEMMA ReturnsKeeps ==
  ASSUME Reports, IInv, UNCHANGED linker, NEW g \in Linked, Returns(g) PROVE IInv'
<1>1. PICK h \in Handles(g), ts \in g.gives :
        \E at \in Places(Strike(table, Range(h.moved)), ts) :
          /\ table' = Put(Strike(table, Range(h.moved)), ts, at, Types)
          /\ held' = (held \ Range(h.moved)) \cup Range(at)
          /\ known' = Put(Strike(known, Range(h.moved)), ts, at, g.tells)
          /\ hidden' = Showing(hidden \ Range(h.moved), ts, at, g.hides)
          /\ streams' = streams \cup Left(g)
  BY AllListed, ThisReports DEF Returns, Reporting
<1>2. Sound(Strike(table, Range(h.moved)), held \ Range(h.moved), Strike(known, Range(h.moved)),
            hidden \ Range(h.moved))
  BY Taking, HandlesAreHeld DEF IInv
<1>3. ts \in Seq(Types) /\ Range(ts) \subseteq g.tells \cup g.hides
  BY ThisReports DEF Reporting
<1>4. Sound(table', held', known', hidden')
  BY <1>1, <1>2, <1>3, Giving
<1>5. \A s \in streams' : Carries(s)
  BY <1>1, StreamKinds, ThisReports DEF IInv, Reporting
<1>6. UNCHANGED pending
  BY DEF Returns
<1> QED BY <1>4, <1>5, <1>6, Unmoved

\* An asynchronous call takes what was moved to it when it begins.
LEMMA BeginsKeeps ==
  ASSUME Reports, IInv, UNCHANGED linker, NEW g \in Linked, NEW c \in Slots, Begins(c, g)
  PROVE  IInv'
<1>1. PICK h \in Handles(g) :
        /\ table' = Strike(table, Range(h.moved))
        /\ held' = held \ Range(h.moved)
        /\ known' = Strike(known, Range(h.moved))
        /\ hidden' = hidden \ Range(h.moved)
        /\ pending' = [pending EXCEPT ![c] = [gate |-> g, lent |-> h.lent]]
        /\ streams' = streams
  BY AllListed, ThisReports DEF Begins, Reporting
<1>2. Sound(table', held', known', hidden')
  BY <1>1, Taking, HandlesAreHeld DEF IInv
<1>3. \A s \in streams' : Carries(s)
  BY <1>1 DEF IInv
<1>4. /\ pending' = [d \in Slots |-> pending'[d]]
      /\ \A d \in Slots : pending'[d] = IF d = c THEN [gate |-> g, lent |-> h.lent]
                                        ELSE pending[d]
  BY <1>1 DEF IInv
<1>5. \A d \in Busy' : pending'[d].gate \in Linked
  BY <1>4 DEF IInv, Busy, Linked
<1> QED BY <1>2, <1>3, <1>4, <1>5, Stepped

\* However a call in progress ends, its slot is idle and the others are not
\* touched.
LEMMA Idling ==
  ASSUME IInv, UNCHANGED linker, NEW c \in Slots, pending' = [pending EXCEPT ![c] = Idle]
  PROVE  /\ pending' = [d \in Slots |-> pending'[d]]
         /\ \A d \in Busy' : pending'[d].gate \in Linked
<1>1. /\ pending' = [d \in Slots |-> pending'[d]]
      /\ \A d \in Slots : pending'[d] = IF d = c THEN Idle ELSE pending[d]
  BY DEF IInv
<1> QED BY <1>1 DEF IInv, Busy, Linked

\* It gives what it returns when it ends.
LEMMA EndsKeeps ==
  ASSUME Reports, IInv, UNCHANGED linker, NEW c \in Slots, Ends(c) PROVE IInv'
<1>1. PICK g : g = pending[c].gate
  OBVIOUS
<1>2. g \in Linked
  BY <1>1 DEF IInv, Ends
<1>3. PICK ts \in g.gives : \E at \in Places(table, ts) :
        /\ table' = Put(table, ts, at, Types)
        /\ held' = held \cup Range(at)
        /\ known' = Put(known, ts, at, g.tells)
        /\ hidden' = Showing(hidden, ts, at, g.hides)
        /\ streams' = streams \cup Left(g)
  BY <1>1 DEF Ends
<1>4. ts \in Seq(Types) /\ Range(ts) \subseteq g.tells \cup g.hides
  BY <1>2, <1>3, ThisReports DEF Reporting
<1>5. Sound(table', held', known', hidden')
  BY <1>3, <1>4, Giving DEF IInv
<1>6. \A s \in streams' : Carries(s)
  BY <1>2, <1>3, StreamKinds, ThisReports DEF IInv, Reporting
<1>7. pending' = [pending EXCEPT ![c] = Idle]
  BY DEF Ends
<1> QED BY <1>5, <1>6, <1>7, Idling, Stepped

\* It gives nothing when it fails or is cancelled.
LEMMA OtherEndsKeep ==
  ASSUME IInv, UNCHANGED linker, NEW c \in Slots, EndsInError(c) \/ Cancelled(c) PROVE IInv'
<1>1. /\ pending' = [pending EXCEPT ![c] = Idle]
      /\ UNCHANGED <<table, held, known, hidden, streams>>
  BY DEF EndsInError, Cancelled
<1>2. Sound(table', held', known', hidden') /\ \A s \in streams' : Carries(s)
  BY <1>1 DEF IInv
<1> QED BY <1>1, <1>2, Idling, Stepped

\* What comes and goes with streams is hidden.
LEMMA StreamsKeep ==
  ASSUME IInv, UNCHANGED linker, NEW s \in streams, Arrives(s) \/ Departs(s) \/ StreamEnds(s) PROVE IInv'
<1>0. Carries(s) /\ Sound(table, held, known, hidden) /\ \A q \in streams : Carries(q)
  BY DEF IInv
<1>1. CASE Arrives(s)
  <2>1. PICK r \in Reps :
          /\ table[r] = None
          /\ \/ s = "sockets" /\ table' = [table EXCEPT ![r] = "tcp-socket"]
             \/ s = "trailers" /\ table' = [table EXCEPT ![r] = "fields"]
          /\ held' = held \cup {r}
          /\ hidden' = hidden \cup {r}
    BY <1>1 DEF Arrives
  <2>2. UNCHANGED <<known, pending>> /\ streams' \subseteq streams
    BY <1>1 DEF Arrives
  <2>3. Sound(table', held', known', hidden')
    BY <1>0, <2>1, <2>2, Appearing DEF Carries
  <2> QED BY <1>0, <2>2, <2>3, Unmoved
<1>2. CASE Departs(s)
  <2>1. PICK r \in held \ Lent :
          /\ table[r] = "fields"
          /\ table' = [table EXCEPT ![r] = None]
          /\ held' = held \ {r}
          /\ hidden' = hidden \cup {r}
    BY <1>2 DEF Departs
  <2>2. UNCHANGED <<known, pending>> /\ streams' \subseteq streams
    BY <1>2 DEF Departs
  <2>3. Sound(table', held', known', hidden')
    BY <1>0, <2>1, <2>2, Departing
  <2> QED BY <1>0, <2>2, <2>3, Unmoved
<1>3. CASE StreamEnds(s)
  BY <1>3, Unmoved DEF StreamEnds, IInv, Sound
<1> QED BY <1>1, <1>2, <1>3

\* IInv is inductive.
LEMMA Inductive == ASSUME Reports, IInv, [Next]_vars PROVE IInv'
<1>0. UNCHANGED linker
  BY DEF Next, vars
<1>1. CASE UNCHANGED vars
  BY <1>0, <1>1, Unmoved DEF vars, IInv, Sound
<1>2. ASSUME NEW g \in Linked,
             \/ Refused(g) \/ Fails(g) \/ Returns(g) \/ Abandoned(g)
             \/ \E c \in Slots : Begins(c, g)
      PROVE  IInv'
  BY <1>0, <1>2, RefusedKeeps, FailsKeeps, ReturnsKeeps, BeginsKeeps, DiesKeeps DEF Abandoned
<1>3. ASSUME NEW c \in Slots, Ends(c) \/ EndsInError(c) \/ Cancelled(c) PROVE IInv'
  BY <1>0, <1>3, EndsKeeps, OtherEndsKeep
<1>4. ASSUME NEW s \in streams, Arrives(s) \/ Departs(s) \/ StreamEnds(s) PROVE IInv'
  BY <1>0, <1>4, StreamsKeep
<1>5. CASE Rest
  BY <1>0, <1>1, <1>5 DEF Rest, vars
<1> QED BY <1>1, <1>2, <1>3, <1>4, <1>5 DEF Next

\* A new guest has nothing.
LEMMA Initial == Init => IInv
BY NoneAssumption DEF Init, IInv, Sound, Busy, Linked

\* The invariant holds always.
LEMMA Invariance == Reports => (Spec => []IInv)
<1> SUFFICES ASSUME Reports PROVE Spec => []IInv
  OBVIOUS
<1>1. IInv /\ [Next]_vars => IInv'
  BY Inductive
<1> QED BY <1>1, Initial, PTL DEF Spec

\* For any linker that Reports, a layer knows each of the guest's handles and
\* its type at any time, whatever the table does with representations.
THEOREM LayersKnowTheGuest == Reports => (Spec => []LayersKnowGuest)
<1>1. IInv => LayersKnowGuest
  BY DEF IInv, Sound, LayersKnowGuest
<1> QED BY <1>1, Invariance, PTL

\* For any linker that Reports, only the exempt types are ever left in the
\* table with nobody holding a handle.
THEOREM OnlyForfeitsStranded == Reports => (Spec => []NothingStranded)
<1>1. IInv => NothingStranded
  BY DEF IInv, Sound, NothingStranded
<1> QED BY <1>1, Invariance, PTL

-----------------------------------------------------------------------------
(* Types                                                                   *)

\* The guest holds what it lends until the call is over.
Lending ==
  /\ \A c \in Busy : Range(pending[c].lent) \subseteq held
  /\ streams \subseteq {"sockets", "trailers", "given"}
  /\ trapped \in BOOLEAN

\* A step that takes nothing lent and begins no call keeps what is lent.
LEMMA StillLent ==
  ASSUME IInv, Lending, held \cap Lent \subseteq held',
         \A c \in Busy' : c \in Busy /\ pending'[c] = pending[c]
  PROVE  \A c \in Busy' : Range(pending'[c].lent) \subseteq held'
BY DEF Lending, Lent

\* What a call moves is not lent.
LEMMA MovedIsNotLent ==
  ASSUME NEW g \in Linked, NEW h \in Handles(g)
  PROVE  Range(h.moved) \cap Lent = {} /\ Range(h.lent) \subseteq held
         /\ Range(h.lent) \cap Range(h.moved) = {}
BY DEF Handles, Range

\* A call leaves streams behind of the kinds there are.
LEMMA LeftKinds ==
  ASSUME IInv, NEW g \in Linked
  PROVE  Left(g) \subseteq {"sockets", "trailers", "given"}
BY OfferAssumption DEF IInv, Linked, Left, Streams

\* A guest that is answered keeps what it lends.
LEMMA AnswerLends ==
  ASSUME IInv, Lending, NEW how, NEW moved, NEW freed, NEW shown, moved \cap Lent = {},
         Answer(how, moved, freed, shown)
  PROVE  Lending'
<1>1. /\ streams' = streams /\ pending' = pending /\ trapped' \in BOOLEAN
      /\ held \ moved \subseteq held'
  BY DEF Answer, Dies, Loses, FailsOperation, Lending
<1>2. \A c \in Busy' : c \in Busy /\ pending'[c] = pending[c]
  BY <1>1 DEF Busy
<1>3. \A c \in Busy' : Range(pending'[c].lent) \subseteq held'
  BY <1>1, <1>2, StillLent
<1> QED BY <1>1, <1>3 DEF Lending

\* Lent handles are held.
LEMMA LendingIsInductive ==
  ASSUME IInv, Lending, [Next]_vars
  PROVE  Lending'
<1>1. ASSUME UNCHANGED <<pending, streams>>, trapped' \in BOOLEAN, held \subseteq held'
      PROVE  Lending'
  <2>1. \A c \in Busy' : c \in Busy /\ pending'[c] = pending[c]
    BY <1>1 DEF Busy
  <2> QED BY <1>1, <2>1, StillLent DEF Lending
<1>2. ASSUME NEW g \in Linked, Refused(g) PROVE Lending'
  BY <1>2, MovedIsNotLent, AnswerLends DEF Refused
<1>3. ASSUME NEW g \in Linked, Fails(g) PROVE Lending'
  BY <1>1, <1>3, MovedIsNotLent, AnswerLends DEF Fails, Dies
<1>4. ASSUME NEW g \in Linked, Returns(g) PROVE Lending'
  <2>1. PICK h \in Handles(g) : held \ Range(h.moved) \subseteq held'
    BY <1>4 DEF Returns
  <2>2. UNCHANGED <<pending, trapped>> /\ streams' = streams \cup Left(g)
    BY <1>4 DEF Returns
  <2>3. \A c \in Busy' : c \in Busy /\ pending'[c] = pending[c]
    BY <2>2 DEF Busy
  <2>4. held \cap Lent \subseteq held'
    BY <2>1, MovedIsNotLent
  <2> QED BY <2>2, <2>3, <2>4, StillLent, LeftKinds DEF Lending
<1>5. ASSUME NEW g \in Linked, NEW c \in Slots, Begins(c, g) PROVE Lending'
  <2>1. PICK h \in Handles(g) :
          /\ held' = held \ Range(h.moved)
          /\ pending' = [pending EXCEPT ![c] = [gate |-> g, lent |-> h.lent]]
    BY <1>5 DEF Begins
  <2>2. UNCHANGED <<streams, trapped>> /\ c \notin Busy
    BY <1>5 DEF Begins
  <2>3. \A d \in Slots : pending'[d] = IF d = c THEN [gate |-> g, lent |-> h.lent] ELSE pending[d]
    BY <2>1 DEF IInv
  <2>4. Range(h.lent) \subseteq held'
    BY <2>1, MovedIsNotLent
  <2>5. ASSUME NEW d \in Busy, d # c PROVE Range(pending[d].lent) \subseteq held'
    BY <2>1, <2>5, MovedIsNotLent DEF Lending, Lent
  <2>6. \A d \in Busy' : Range(pending'[d].lent) \subseteq held'
    BY <2>3, <2>4, <2>5 DEF Busy
  <2> QED BY <2>2, <2>6 DEF Lending
<1>6. ASSUME NEW c \in Slots, Ends(c) \/ EndsInError(c) \/ Cancelled(c) PROVE Lending'
  <2>1. /\ pending' = [pending EXCEPT ![c] = Idle] /\ held \subseteq held' /\ trapped' \in BOOLEAN
        /\ c \in Busy
    BY <1>6 DEF Ends, EndsInError, Cancelled, Lending
  <2>2. streams' \subseteq {"sockets", "trailers", "given"}
    BY <1>6, <2>1, LeftKinds DEF Ends, EndsInError, Cancelled, Lending, IInv
  <2>3. \A d \in Busy' : d \in Busy /\ pending'[d] = pending[d]
    BY <2>1 DEF IInv, Busy
  <2> QED BY <2>1, <2>2, <2>3, StillLent DEF Lending
<1>7. ASSUME NEW s \in streams, Arrives(s) \/ Departs(s) \/ StreamEnds(s) PROVE Lending'
  <2>1. /\ UNCHANGED <<pending, trapped>>
        /\ streams' \subseteq streams /\ held \cap Lent \subseteq held'
    BY <1>7 DEF Arrives, Departs, StreamEnds
  <2>2. \A c \in Busy' : c \in Busy /\ pending'[c] = pending[c]
    BY <2>1 DEF Busy
  <2> QED BY <2>1, <2>2, StillLent DEF Lending
<1>8. CASE Rest \/ UNCHANGED vars \/ Dies
  BY <1>1, <1>8 DEF Rest, vars, Dies, Lending
<1> QED BY <1>2, <1>3, <1>4, <1>5, <1>6, <1>7, <1>8 DEF Next, Abandoned

\* For any linker that Reports, the types of table, handles and knowledge: in
\* particular a guest still holds whatever a call in progress borrows.
THEOREM Typing == Reports => (Spec => []TypeOK)
<1>1. Init => Lending
  BY DEF Init, Lending, Busy
<1>2. IInv /\ Lending => TypeOK
  BY DEF IInv, Sound, Lending, TypeOK
<1>3. IInv /\ Lending /\ [Next]_vars => Lending'
  BY LendingIsInductive
<1> QED BY <1>1, <1>2, <1>3, Invariance, PTL DEF Spec

-----------------------------------------------------------------------------
(* The linkers of the crates satisfy Reports, gate by gate of every         *)
(* interface, whatever it is called: the theorems above are theirs.        *)

\* The types that streams and failed operations bring in.
Streamable == {"error", "tcp-socket", "fields"}

\* A gate is a record.
GateFields == {"name", "takes", "owns", "omits", "gives", "tells", "hides", "refusal", "failure", "mode", "opens"}

\* The gates of a union report when those of its parts do.
LEMMA BothReport ==
  ASSUME NEW G, NEW H, NEW f
  PROVE  Reporting(G \cup H, f) <=> Reporting(G, f) /\ Reporting(H, f)
BY DEF Reporting

\* The interfaces of Preview 2, synchronous and not.
InterfacesTwo ==
  {P2!DescriptorData, P2!AsyncDescriptorData, P2!DescriptorPaths, P2!AsyncDescriptorPaths,
   P2!DescriptorOpens, P2!AsyncDescriptorOpens, P2!DescriptorStreams,
   P2!AsyncDescriptorStreams, P2!DirectoryEntries, P2!AsyncDirectoryEntries, P2!Pollables,
   P2!AsyncPollables, P2!InputStreams, P2!AsyncInputStreams, P2!OutputStreams,
   P2!AsyncOutputStreams, P2!TcpConnections, P2!AsyncTcpConnections, P2!TcpOptions,
   P2!AsyncTcpOptions, P2!UdpSockets, P2!AsyncUdpSockets, P2!Datagrams, P2!AsyncDatagrams,
   P2!NameLookup, P2!AsyncNameLookup, P2!Networks, P2!Cli, P2!Terminals, P2!Clocks,
   P2!Preopens, P2!Errors, P2!Random}

\* Their gates report, one interface after the other.
LEMMA InterfacesOfTwo ==
  ASSUME Streamable \subseteq Types
  PROVE  \A G \in InterfacesTwo : Reporting(G, {})
<1> DEFINE Fine(G) == Reporting(G, {})
<1> USE DEF P2!Gate, P2!Trap, P2!Refusing, P2!Failing, P2!Typed, P2!Streamed, P2!Awaited,
            P2!Yielding, P2!Produced, P2!Perhaps, P2!Owning, P2!Drops, P2!Named, P2!Except,
            P2!Range, Range, Carries, Streamable
<1>1. Fine(P2!DescriptorData) /\ Fine(P2!AsyncDescriptorData)
  <2>1. Fine(P2!DescriptorData)
    BY DEF Reporting, P2!DescriptorData, P2!Fd
  <2>2. Fine(P2!AsyncDescriptorData)
    BY DEF Reporting, P2!DescriptorData, P2!AsyncDescriptorData, P2!Fd
  <2> QED BY <2>1, <2>2
<1>2. Fine(P2!DescriptorPaths) /\ Fine(P2!AsyncDescriptorPaths)
  <2>1. Fine(P2!DescriptorPaths)
    BY DEF Reporting, P2!DescriptorPaths, P2!Fd
  <2>2. Fine(P2!AsyncDescriptorPaths)
    BY DEF Reporting, P2!DescriptorPaths, P2!AsyncDescriptorPaths, P2!Fd
  <2> QED BY <2>1, <2>2
<1>3. Fine(P2!DescriptorOpens) /\ Fine(P2!AsyncDescriptorOpens)
  <2>1. Fine(P2!DescriptorOpens)
    BY DEF Reporting, P2!DescriptorOpens, P2!Fd
  <2>2. Fine(P2!AsyncDescriptorOpens)
    BY DEF Reporting, P2!DescriptorOpens, P2!AsyncDescriptorOpens, P2!Fd
  <2> QED BY <2>1, <2>2
<1>4. Fine(P2!DescriptorStreams) /\ Fine(P2!AsyncDescriptorStreams)
  <2>1. Fine(P2!DescriptorStreams)
    BY DEF Reporting, P2!DescriptorStreams, P2!Fd
  <2>2. Fine(P2!AsyncDescriptorStreams)
    BY DEF Reporting, P2!DescriptorStreams, P2!AsyncDescriptorStreams, P2!Fd
  <2> QED BY <2>1, <2>2
<1>5. Fine(P2!DirectoryEntries) /\ Fine(P2!AsyncDirectoryEntries)
  <2>1. Fine(P2!DirectoryEntries)
    BY DEF Reporting, P2!DirectoryEntries
  <2>2. Fine(P2!AsyncDirectoryEntries)
    BY DEF Reporting, P2!DirectoryEntries, P2!AsyncDirectoryEntries
  <2> QED BY <2>1, <2>2
<1>6. Fine(P2!Pollables) /\ Fine(P2!AsyncPollables)
  <2>1. Fine(P2!Pollables)
    BY DEF Reporting, P2!Pollables
  <2>2. Fine(P2!AsyncPollables)
    BY DEF Reporting, P2!Pollables, P2!AsyncPollables
  <2> QED BY <2>1, <2>2
<1>7. Fine(P2!InputStreams) /\ Fine(P2!AsyncInputStreams)
  <2>1. Fine(P2!InputStreams)
    BY DEF Reporting, P2!InputStreams
  <2>2. Fine(P2!AsyncInputStreams)
    BY DEF Reporting, P2!InputStreams, P2!AsyncInputStreams
  <2> QED BY <2>1, <2>2
<1>8. Fine(P2!OutputStreams) /\ Fine(P2!AsyncOutputStreams)
  <2>1. Fine(P2!OutputStreams)
    BY DEF Reporting, P2!OutputStreams
  <2>2. Fine(P2!AsyncOutputStreams)
    BY DEF Reporting, P2!OutputStreams, P2!AsyncOutputStreams
  <2> QED BY <2>1, <2>2
<1>9. Fine(P2!TcpConnections) /\ Fine(P2!AsyncTcpConnections)
  <2>1. Fine(P2!TcpConnections)
    BY DEF Reporting, P2!TcpConnections, P2!Tcp, P2!Halves
  <2>2. Fine(P2!AsyncTcpConnections)
    BY DEF Reporting, P2!TcpConnections, P2!AsyncTcpConnections, P2!Tcp, P2!Halves
  <2> QED BY <2>1, <2>2
<1>10. Fine(P2!TcpOptions) /\ Fine(P2!AsyncTcpOptions)
  <2>1. Fine(P2!TcpOptions)
    BY DEF Reporting, P2!TcpOptions, P2!Tcp
  <2>2. Fine(P2!AsyncTcpOptions)
    BY DEF Reporting, P2!TcpOptions, P2!AsyncTcpOptions, P2!Tcp
  <2> QED BY <2>1, <2>2
<1>11. Fine(P2!UdpSockets) /\ Fine(P2!AsyncUdpSockets)
  <2>1. Fine(P2!UdpSockets)
    BY DEF Reporting, P2!UdpSockets, P2!Udp, P2!Received, P2!Sent
  <2>2. Fine(P2!AsyncUdpSockets)
    BY DEF Reporting, P2!UdpSockets, P2!AsyncUdpSockets, P2!Udp, P2!Received, P2!Sent
  <2> QED BY <2>1, <2>2
<1>12. Fine(P2!Datagrams) /\ Fine(P2!AsyncDatagrams)
  <2>1. Fine(P2!Datagrams)
    BY DEF Reporting, P2!Datagrams, P2!Udp, P2!Received, P2!Sent
  <2>2. Fine(P2!AsyncDatagrams)
    BY DEF Reporting, P2!Datagrams, P2!AsyncDatagrams, P2!Udp, P2!Received, P2!Sent
  <2> QED BY <2>1, <2>2
<1>13. Fine(P2!NameLookup) /\ Fine(P2!AsyncNameLookup)
  <2>1. Fine(P2!NameLookup)
    BY DEF Reporting, P2!NameLookup
  <2>2. Fine(P2!AsyncNameLookup)
    BY DEF Reporting, P2!NameLookup, P2!AsyncNameLookup
  <2> QED BY <2>1, <2>2
<1>14. Fine(P2!Networks)
  BY DEF Reporting, P2!Networks, P2!Tcp
<1>15. Fine(P2!Cli)
  BY DEF Reporting, P2!Cli
<1>16. Fine(P2!Terminals)
  BY DEF Reporting, P2!Terminals
<1>17. Fine(P2!Clocks)
  BY DEF Reporting, P2!Clocks
<1>18. Fine(P2!Preopens)
  BY DEF Reporting, P2!Preopens, P2!Fd
<1>19. Fine(P2!Errors)
  BY DEF Reporting, P2!Errors
<1>20. Fine(P2!Random)
  BY DEF Reporting, P2!Random
<1> QED
  BY <1>1, <1>2, <1>3, <1>4, <1>5, <1>6, <1>7, <1>8, <1>9, <1>10,
     <1>11, <1>12, <1>13, <1>14, <1>15, <1>16, <1>17, <1>18, <1>19, <1>20 DEF InterfacesTwo

\* The linkers of Preview 2.
LEMMA PreviewTwo ==
  ASSUME Streamable \subseteq Types
  PROVE  /\ Reporting(P2!SyncLinker, {})
         /\ Reporting(P2!AsyncLinker, {})
         /\ Reporting(P2!ProxyLinkerSync, {})
         /\ Reporting(P2!ProxyLinkerAsync, {})
<1> DEFINE Fine(G) == Reporting(G, {})
<1>1. Fine(P2!ProxyStdio) /\ Fine(P2!ProxyRandom)
  BY InterfacesOfTwo DEF Reporting, P2!ProxyStdio, P2!ProxyRandom, P2!Named, InterfacesTwo
<1>2. \A G, H : Fine(G) /\ Fine(H) => Fine(G \cup H)
  BY BothReport
<1>3. \A G \in InterfacesTwo : Fine(G)
  BY InterfacesOfTwo
<1>4. Fine(P2!SyncLinker) /\ Fine(P2!AsyncLinker) /\ Fine(P2!ProxyLinkerSync)
        /\ Fine(P2!ProxyLinkerAsync)
  <2> HIDE DEF Fine
  <2>1. Fine(P2!Shared)
    BY <1>2, <1>3 DEF P2!Shared, InterfacesTwo
  <2>2. Fine(P2!Sockets) /\ Fine(P2!AsyncSockets)
    BY <1>2, <1>3 DEF P2!Sockets, P2!AsyncSockets, InterfacesTwo
  <2>3. Fine(P2!SyncLinker)
    BY <1>2, <1>3, <2>1, <2>2 DEF P2!SyncLinker, InterfacesTwo
  <2>4. Fine(P2!AsyncLinker)
    BY <1>2, <1>3, <2>1, <2>2 DEF P2!AsyncLinker, InterfacesTwo
  <2>5. Fine(P2!ProxyLinkerSync)
    BY <1>1, <1>2, <1>3 DEF P2!ProxyLinkerSync, InterfacesTwo
  <2>6. Fine(P2!ProxyLinkerAsync)
    BY <1>1, <1>2, <1>3 DEF P2!ProxyLinkerAsync, InterfacesTwo
  <2> QED BY <2>3, <2>4, <2>5, <2>6
<1> QED BY <1>4

\* The interfaces of Preview 3.
LEMMA InterfacesOfThree ==
  ASSUME Streamable \subseteq Types
  PROVE  \A G \in {P3!WritingStreams, P3!ReadingStreams, P3!DescriptorDrops, P3!DescriptorState,
                  P3!DescriptorTree, P3!DescriptorIdentity, P3!Environment, P3!Stdio,
                  P3!Terminals, P3!Clocks, P3!Random, P3!TcpOptions, P3!TcpTraffic,
                  P3!UdpSockets, P3!NameLookup} :
           Reporting(G, {}) /\ \A g \in G : DOMAIN g = GateFields
<1> DEFINE Fine(G) == Reporting(G, {}) /\ \A g \in G : DOMAIN g = GateFields
<1> USE DEF P3!Gate, P3!Trap, P3!Refusing, P3!Failing, P3!Typed, P3!Awaited, P3!Concurrent,
            P3!Yielding, P3!Produced, P3!Perhaps, P3!Owning, P3!Drops, P3!Opening,
            P3!Range, Range, Carries, Streamable, P3!Fd, P3!Tcp, P3!Udp, GateFields
<1>1. Fine(P3!WritingStreams)
  BY DEF Reporting, P3!WritingStreams
<1>2. Fine(P3!ReadingStreams)
  BY DEF Reporting, P3!ReadingStreams
<1>3. Fine(P3!DescriptorDrops)
  BY DEF Reporting, P3!DescriptorDrops
<1>4. Fine(P3!DescriptorState)
  BY DEF Reporting, P3!DescriptorState
<1>5. Fine(P3!DescriptorTree)
  BY DEF Reporting, P3!DescriptorTree
<1>6. Fine(P3!DescriptorIdentity)
  BY DEF Reporting, P3!DescriptorIdentity
<1>7. Fine(P3!Environment)
  BY DEF Reporting, P3!Environment
<1>8. Fine(P3!Stdio)
  BY DEF Reporting, P3!Stdio
<1>9. Fine(P3!Terminals)
  BY DEF Reporting, P3!Terminals
<1>10. Fine(P3!Clocks)
  BY DEF Reporting, P3!Clocks
<1>11. Fine(P3!Random)
  BY DEF Reporting, P3!Random
<1>12. Fine(P3!TcpOptions)
  BY DEF Reporting, P3!TcpOptions
<1>13. Fine(P3!TcpTraffic)
  BY DEF Reporting, P3!TcpTraffic
<1>14. Fine(P3!UdpSockets)
  BY DEF Reporting, P3!UdpSockets
<1>15. Fine(P3!NameLookup)
  BY DEF Reporting, P3!NameLookup
<1> QED
  BY <1>1, <1>2, <1>3, <1>4, <1>5, <1>6, <1>7, <1>8, <1>9, <1>10, <1>11, <1>12,
     <1>13, <1>14, <1>15

\* The linkers of Preview 3, with their byte streams relayed or not.
LEMMA PreviewThree ==
  ASSUME Streamable \subseteq Types
  PROVE  Reporting(P3!Relayed, {}) /\ Reporting(P3!Unrelayed, {})
<1> DEFINE Fine(G) == Reporting(G, {}) /\ \A g \in G : DOMAIN g = GateFields
<1>1. \A G, H : Fine(G) /\ Fine(H) => Fine(G \cup H)
  BY BothReport
<1>2. Fine(P3!Relayed)
  <2> HIDE DEF Fine
  <2>1. \A G \in {P3!WritingStreams, P3!ReadingStreams, P3!DescriptorDrops, P3!DescriptorState,
                   P3!DescriptorTree, P3!DescriptorIdentity, P3!Environment, P3!Stdio,
                   P3!Terminals, P3!Clocks, P3!Random, P3!TcpOptions, P3!TcpTraffic,
                   P3!UdpSockets, P3!NameLookup} :
          Fine(G)
    BY InterfacesOfThree DEF Fine
  <2> QED BY <1>1, <2>1 DEF P3!Relayed
<1>3. Fine(P3!Unrelayed)
  <2> DEFINE Deaf(g) == [g EXCEPT !.opens = "nothing"]
  <2>1. ASSUME NEW g, Fine({g}) PROVE Fine({Deaf(g)})
    <3>1. \A n \in GateFields \ {"opens"} : Deaf(g)[n] = g[n]
      BY <2>1 DEF GateFields
    <3>2. Deaf(g).opens = "nothing" /\ DOMAIN Deaf(g) = GateFields
      BY <2>1 DEF GateFields
    <3>3. /\ Deaf(g).gives = g.gives /\ Deaf(g).tells = g.tells /\ Deaf(g).owns = g.owns
          /\ Deaf(g).omits = g.omits /\ Deaf(g).hides = g.hides
          /\ Deaf(g).refusal = g.refusal /\ Deaf(g).failure = g.failure
      BY <3>1 DEF GateFields
    <3> HIDE DEF Deaf
    <3> QED BY <2>1, <3>2, <3>3 DEF Reporting, Carries
  <2> HIDE DEF Deaf
  <2>2. \A g \in P3!Relayed : Fine({g})
    BY <1>2 DEF Reporting
  <2>3. \A g \in P3!Unrelayed : \E o \in P3!Relayed : g = Deaf(o) \/ g = o
    BY DEF Deaf, P3!Unrelayed
  <2>4. \A g \in P3!Unrelayed : Fine({g})
    BY <2>1, <2>2, <2>3
  <2> QED BY <2>4 DEF Reporting
<1> QED BY <1>2, <1>3

\* The interfaces of wasi:http 0.2, and the handles a handler is entered with.
LEMMA HttpTwo ==
  ASSUME Streamable \subseteq Types
  PROVE  Reporting(HttpP2!OnlyHttp \cup HttpP2!HandlerEntered, {})
<1> DEFINE Fine(G) == Reporting(G, {})
<1> USE DEF HttpP2!Gate, HttpP2!Trap, HttpP2!Failing, HttpP2!Checked, HttpP2!Yielding, HttpP2!Hiding,
            HttpP2!Produced, HttpP2!Perhaps, HttpP2!Owning,
            HttpP2!OwningOption, HttpP2!Drops, HttpP2!Range, Range, Carries, Streamable,
            HttpP2!Fields
<1>1. Fine(HttpP2!Handler)
  BY DEF Reporting, HttpP2!Handler
<1>2. Fine(HttpP2!Errors)
  BY DEF Reporting, HttpP2!Errors
<1>3. Fine(HttpP2!FieldMaps)
  BY DEF Reporting, HttpP2!FieldMaps
<1>4. Fine(HttpP2!IncomingRequests)
  BY DEF Reporting, HttpP2!IncomingRequests
<1>5. Fine(HttpP2!OutgoingRequests)
  BY DEF Reporting, HttpP2!OutgoingRequests
<1>6. Fine(HttpP2!ResponseOutparams)
  BY DEF Reporting, HttpP2!ResponseOutparams
<1>7. Fine(HttpP2!IncomingResponses)
  BY DEF Reporting, HttpP2!IncomingResponses
<1>8. Fine(HttpP2!FutureTrailers)
  BY DEF Reporting, HttpP2!FutureTrailers
<1>9. Fine(HttpP2!IncomingBodies)
  BY DEF Reporting, HttpP2!IncomingBodies
<1>10. Fine(HttpP2!OutgoingResponses)
  BY DEF Reporting, HttpP2!OutgoingResponses
<1>11. Fine(HttpP2!FutureResponses)
  BY DEF Reporting, HttpP2!FutureResponses
<1>12. Fine(HttpP2!OutgoingBodies)
  BY DEF Reporting, HttpP2!OutgoingBodies
<1>13. Fine(HttpP2!RequestOptions)
  BY DEF Reporting, HttpP2!RequestOptions
<1>14. Fine(HttpP2!HandlerEntered)
  BY DEF Reporting, HttpP2!HandlerEntered
<1>15. \A G, H : Fine(G) /\ Fine(H) => Fine(G \cup H)
  BY BothReport
<1> HIDE DEF Fine
<1>16. Fine(HttpP2!OnlyHttp \cup HttpP2!HandlerEntered)
  BY <1>1, <1>2, <1>3, <1>4, <1>5, <1>6, <1>7, <1>8, <1>9, <1>10, <1>11, <1>12, <1>13, <1>14,
     <1>15 DEF HttpP2!OnlyHttp
<1> QED BY <1>16 DEF Fine

\* The interfaces of wasi:http 0.3.
LEMMA HttpThree ==
  ASSUME Streamable \subseteq Types
  PROVE  Reporting(HttpP3!Http, {"request"})
<1> DEFINE Fine(G) == Reporting(G, {"request"})
<1> USE DEF HttpP3!Gate, HttpP3!Trap, HttpP3!Refusing, HttpP3!Failing, HttpP3!Checked,
            HttpP3!Concurrent, HttpP3!Yielding, HttpP3!Hiding, HttpP3!Produced, HttpP3!Perhaps,
            HttpP3!Owning, HttpP3!OwningOption, HttpP3!Drops, HttpP3!Opening, HttpP3!Range,
            Range, Carries, Streamable, HttpP3!Fields, HttpP3!Options
<1>1. Fine(HttpP3!FieldMaps)
  BY DEF Reporting, HttpP3!FieldMaps
<1>2. Fine(HttpP3!Requests)
  BY DEF Reporting, HttpP3!Requests
<1>3. Fine(HttpP3!RequestOptions)
  BY DEF Reporting, HttpP3!RequestOptions
<1>4. Fine(HttpP3!Responses)
  BY DEF Reporting, HttpP3!Responses
<1>5. Fine(HttpP3!RequestBodies)
  BY DEF Reporting, HttpP3!RequestBodies
<1>6. Fine(HttpP3!ResponseBodies)
  BY DEF Reporting, HttpP3!ResponseBodies
<1>7. Fine(HttpP3!Client)
  BY DEF Reporting, HttpP3!Client
<1> QED BY <1>1, <1>2, <1>3, <1>4, <1>5, <1>6, <1>7 DEF Reporting, HttpP3!Http

-----------------------------------------------------------------------------
(* The linkers                                                             *)

\* Every linker of the crates reports what it gives.
LEMMA OfferingsReport ==
  ASSUME Streamable \subseteq Types, NEW o \in Offerings
  PROVE  Reporting(o.gates, o.forfeited)
<1>1. \A s \in {P2!SyncLinker, P2!ProxyLinkerAsync} :
        Reporting(Serving(s).gates, Serving(s).forfeited)
  BY PreviewTwo, HttpTwo, BothReport DEF Serving, Offering
<1>2. CASE o \in {SyncP2, AsyncP2, SyncProxyP2, AsyncProxyP2}
  BY <1>2, PreviewTwo DEF SyncP2, AsyncP2, SyncProxyP2, AsyncProxyP2, Offering
<1>3. CASE o \in {RelayedP3, UnrelayedP3}
  BY <1>3, PreviewThree DEF RelayedP3, UnrelayedP3, Offering
<1>4. CASE o \in {SyncHttpP2, AsyncHttpP2}
  BY <1>1, <1>4 DEF SyncHttpP2, AsyncHttpP2
<1>5. CASE o = OnlyHttpP3
  BY <1>5, HttpThree DEF OnlyHttpP3, Offering
<1> QED BY <1>2, <1>3, <1>4, <1>5 DEF Offerings

\* Whatever a guest calls through the crates' own linkers, in whatever order
\* and number, with whatever refused: a layer that follows the handles of the
\* calls it sees knows which resources the guest holds.
THEOREM LinkersTellTheLayers ==
  ASSUME Streamable \subseteq Types, \A l \in Linkers : Offer[l] \in Offerings
  PROVE  Spec => []LayersKnowGuest
<1>1. Reports
  BY OfferingsReport DEF Reports
<1> QED BY <1>1, LayersKnowTheGuest

\* The guest of these linkers still holds what a call in progress borrows.
THEOREM LinkersLend ==
  ASSUME Streamable \subseteq Types, \A l \in Linkers : Offer[l] \in Offerings
  PROVE  Spec => []TypeOK
<1>1. Reports
  BY OfferingsReport DEF Reports
<1> QED BY <1>1, Typing

\* And only the request of a refused send is left out of the guest's reach.
THEOREM LinkersStrandOnlyRequests ==
  ASSUME Streamable \subseteq Types, \A l \in Linkers : Offer[l] \in Offerings
  PROVE  Spec => [](NothingStranded /\ Forfeited \subseteq {"request"})
<1>1. Reports
  BY OfferingsReport DEF Reports
<1>2. Spec => []NothingStranded
  BY <1>1, OnlyForfeitsStranded
<1>3. Spec => [](linker \in Linkers)
  <2>1. Init => linker \in Linkers
    BY DEF Init
  <2>2. linker \in Linkers /\ [Next]_vars => (linker \in Linkers)'
    BY DEF Next, vars
  <2> QED BY <2>1, <2>2, PTL DEF Spec
<1>4. linker \in Linkers => Forfeited \subseteq {"request"}
  BY DEF Forfeited, Offerings, SyncP2, AsyncP2, SyncProxyP2, AsyncProxyP2, RelayedP3,
         UnrelayedP3, SyncHttpP2, AsyncHttpP2, OnlyHttpP3, Serving, Offering
<1> QED BY <1>2, <1>3, <1>4, PTL
=============================================================================
