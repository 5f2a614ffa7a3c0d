----------------------------- MODULE GateCalls -----------------------------
(***************************************************************************)
(* What a gate is: the part of a gated function that its layers, its guest *)
(* and the resource table can tell from another's.  The interfaces' gates  *)
(* are sets of these records, built by one operator per kind of the        *)
(* gate! macros.                                                           *)
(***************************************************************************)
EXTENDS Sequences, Functions

(* takes    types of the borrowed handles, in the order the call lists them *)
(* owns     types of the handles taken by value                             *)
(* omits    types of those that `handles' does not name                     *)
(* gives    what may be returned: a set of sequences of types               *)
(* tells    types of the returned resources that `produced' reports         *)
(* hides    types of those it is known not to report                        *)
(* refusal  how Denied comes back, one of Answers                           *)
(* failure  how an error of the delegate comes back, one of Answers         *)
(* mode     sync, borrowed (an async method that keeps the store) or async  *)
(* opens    a stream the call leaves behind, one of Streams                 *)
Answers == {"trap", "error", "stream", "converted"}
Modes == {"sync", "borrowed", "async"}
Streams == {"nothing", "bytes", "sockets", "trailers", "given"}

\* A gate of the kind trap: any error of chain or delegate traps the guest.
Gate(name, takes) ==
  [name |-> name, takes |-> takes, owns |-> <<>>, omits |-> {},
   gives |-> {<<>>}, tells |-> {}, hides |-> {},
   refusal |-> "trap", failure |-> "trap", mode |-> "sync", opens |-> "nothing"]

Trap(names, takes) == {Gate(n, takes) : n \in names}

\* How Denied, and how the delegate's error, comes back.
Refusing(gates, answer) == {[g EXCEPT !.refusal = answer] : g \in gates}
Failing(gates, answer) == {[g EXCEPT !.failure = answer] : g \in gates}

\* Denied becomes the interface's access error, its own errors pass through.
Typed(gates) == Refusing(Failing(gates, "error"), "error")

\* Denied becomes a last-operation-failed, with a new error resource.
Streamed(gates) == Refusing(Failing(gates, "stream"), "stream")

\* HTTP gates: Denied traps, the delegate's errors are converted by a gated
\* call of their own.
Checked(gates) == Failing(gates, "converted")

\* The asynchronous methods that borrow the store, and those that give it back.
Awaited(gates) == {[g EXCEPT !.mode = "borrowed"] : g \in gates}
Concurrent(gates) == {[g EXCEPT !.mode = "async"] : g \in gates}

\* A result whose resources are not reported, and one whose resources are.
Yielding(gates, types) == {[g EXCEPT !.gives = {types}] : g \in gates}
Produced(gates, types) ==
  {[g EXCEPT !.tells = Range(types)] : g \in Yielding(gates, types)}

\* Results that the code leaves out of what it reports.
Hiding(gates, types) ==
  {[g EXCEPT !.hides = Range(types)] : g \in Yielding(gates, types)}

\* The same for an Option or a Result inside the result.
Perhaps(gates) == {[g EXCEPT !.gives = @ \cup {<<>>}] : g \in gates}

\* Handles taken by value.
Owning(gates, types) == {[g EXCEPT !.owns = types] : g \in gates}

\* One handle taken by value, and another inside an Option or a Result.
OwningOption(gates, type, option) ==
  Owning(gates, <<type>>) \cup Owning(gates, <<type, option>>)

\* Variant: a refused drop is answered with an error.
DropsAnswered(types) == UNION {Typed(Owning(Trap({"drop"}, <<>>), <<t>>)) : t \in types}

Drops(types) == UNION {Owning(Trap({"drop"}, <<>>), <<t>>) : t \in types}

\* Calls that leave a stream behind.
Opening(gates, stream) == {[g EXCEPT !.opens = stream] : g \in gates}

Named(gates, names) == {g \in gates : g.name \in names}
Except(gates, names) == {g \in gates : g.name \notin names}
=============================================================================
