------------------------------ MODULE BytePipe ------------------------------
(***************************************************************************)
(* What a relayed byte stream promises to the guest and to the layers      *)
(* (p3/mod.rs, StreamRelay), whatever lies between its two ends:           *)
(*   - a byte acknowledged to the source arrives once, in its place;       *)
(*   - no more than Bound of them are on their way at a time;              *)
(*   - the end of the stream comes after all of them;                      *)
(*   - a denied chunk is the last thing that is asked of the layers, and   *)
(*     when everything acknowledged has arrived, the denial is the one     *)
(*     completion that is reported;                                        *)
(*   - nothing is acknowledged once the completion has been reported.      *)
(* Relay.tla is shown to implement this module.                            *)
(***************************************************************************)
EXTENDS Naturals, Sequences

CONSTANT Bound

VARIABLES
  accepted,  \* how many bytes the source knows to be taken
  received,  \* the bytes that have arrived, byte i being the number i
  ended,     \* the destination has seen the end
  denied,    \* a layer has refused a chunk
  result     \* the completion reported, "none" until then

vars == <<accepted, received, ended, denied, result>>

Init ==
  /\ accepted = 0 /\ received = <<>> /\ ended = FALSE
  /\ denied = FALSE /\ result = "none"

\* Bytes that have been acknowledged and have not arrived.
OnTheirWay == accepted - Len(received)

Open == ~ended /\ ~denied /\ result = "none"

Accept(n) ==
  /\ Open /\ OnTheirWay + n <= Bound
  /\ accepted' = accepted + n
  /\ UNCHANGED <<received, ended, denied, result>>

Deny ==
  /\ Open
  /\ denied' = TRUE
  /\ UNCHANGED <<accepted, received, ended, result>>

Deliver(n) ==
  /\ n <= OnTheirWay /\ ~ended
  /\ received' = received \o [i \in 1..n |-> Len(received) + i]
  /\ UNCHANGED <<accepted, ended, denied, result>>

End ==
  /\ ~ended /\ OnTheirWay = 0
  /\ ended' = TRUE
  /\ UNCHANGED <<accepted, received, denied, result>>

Report(completion) ==
  /\ result = "none"
  /\ IF denied THEN completion = "denial" /\ OnTheirWay = 0 ELSE completion # "denial"
  /\ result' = completion
  /\ UNCHANGED <<accepted, received, ended, denied>>

Next ==
  \/ \E n \in 1..Bound : Accept(n) \/ Deliver(n)
  \/ \E completion \in {"ok", "error", "denial"} : Report(completion)
  \/ Deny \/ End

Spec == Init /\ [][Next]_vars
=============================================================================
