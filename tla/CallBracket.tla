---------------------------- MODULE CallBracket ----------------------------
(***************************************************************************)
(* What the Layer contract promises for one call, whoever runs it and      *)
(* however it ends (types.rs, trait Layer and enum Outcome):               *)
(*   - layers are asked from the outside in, each at most once;            *)
(*   - the body runs only once every layer has allowed the call;           *)
(*   - a layer that allowed the call is told its outcome at most once,     *)
(*     after every layer inside it, and all of them are told the same one; *)
(*   - a layer that refused, or was never asked, is told nothing.          *)
(* Chain.tla is shown to implement this module.                            *)
(***************************************************************************)
EXTENDS Naturals

CONSTANTS
  Calls,    \* the calls made through the chain
  NLayers   \* layers 1..NLayers, 1 being the outermost

VARIABLES
  view,     \* view[c][l]: what layer l knows of call c
  ran,      \* the calls whose body has started
  outcome   \* how each call ended, "none" while it has not

vars == <<view, ran, outcome>>

Layers == 1..NLayers

Ends == {"returned", "failed", "cancelled"}

Init ==
  /\ view = [c \in Calls |-> [l \in Layers |-> "none"]]
  /\ ran = {}
  /\ outcome = [c \in Calls |-> "none"]

\* Layer l is the next to be asked about call c.
MayAsk(c, l) ==
  /\ outcome[c] = "none"
  /\ view[c][l] = "none"
  /\ \A m \in 1..(l - 1) : view[c][m] = "open"

Allow(c, l) ==
  /\ MayAsk(c, l)
  /\ view' = [view EXCEPT ![c][l] = "open"]
  /\ UNCHANGED <<ran, outcome>>

Refuse(c, l) ==
  /\ MayAsk(c, l)
  /\ view' = [view EXCEPT ![c][l] = "refused"]
  /\ outcome' = [outcome EXCEPT ![c] = "failed"]
  /\ UNCHANGED ran

Run(c) ==
  /\ c \notin ran
  /\ outcome[c] = "none"
  /\ \A l \in Layers : view[c][l] = "open"
  /\ ran' = ran \cup {c}
  /\ UNCHANGED <<view, outcome>>

End(c, o) ==
  /\ c \in ran
  /\ outcome[c] = "none"
  /\ outcome' = [outcome EXCEPT ![c] = o]
  /\ UNCHANGED <<view, ran>>

Tell(c, l) ==
  /\ outcome[c] # "none"
  /\ view[c][l] = "open"
  /\ \A m \in Layers : m > l => view[c][m] # "open"
  /\ view' = [view EXCEPT ![c][l] = outcome[c]]
  /\ UNCHANGED <<ran, outcome>>

Next ==
  \E c \in Calls :
    \/ Run(c)
    \/ \E o \in Ends : End(c, o)
    \/ \E l \in Layers : Allow(c, l) \/ Refuse(c, l) \/ Tell(c, l)

Spec == Init /\ [][Next]_vars

\* What the clauses above come to, as one invariant of a call c: whoever has
\* been asked was allowed by everyone outside it, whoever has been told comes
\* after everyone inside it and was told how the call ended, and a refusal is
\* a failure of a call that never ran.
Kept(c) ==
  /\ \A l, m \in Layers : (m < l /\ view[c][l] # "none") => view[c][m] \notin {"none", "refused"}
  /\ \A l, m \in Layers : (l < m /\ view[c][l] \in Ends) => view[c][m] # "open"
  /\ \A l \in Layers : view[c][l] \in Ends => view[c][l] = outcome[c]
  /\ \A l \in Layers : view[c][l] = "refused" => outcome[c] = "failed" /\ c \notin ran
  /\ c \in ran => \A l \in Layers : view[c][l] \notin {"none", "refused"}

Contract ==
  /\ view \in [Calls -> [Layers -> {"none", "open", "refused"} \cup Ends]]
  /\ outcome \in [Calls -> {"none"} \cup Ends]
  /\ \A c \in Calls : Kept(c)
=============================================================================
