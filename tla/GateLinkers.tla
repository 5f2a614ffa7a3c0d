---------------------------- MODULE GateLinkers ----------------------------
(***************************************************************************)
(* What each linker of the crates offers a guest: the gates of all the     *)
(* interfaces it installs, and the types that its refusals may strand.     *)
(***************************************************************************)
EXTENDS GateCalls

P2 == INSTANCE GatesP2Sockets
P3 == INSTANCE GatesP3
HttpP2 == INSTANCE GatesHttpP2
HttpP3 == INSTANCE GatesHttpP3

Offering(gates, forfeited) == [gates |-> gates, forfeited |-> forfeited]

SyncP2 == Offering(P2!SyncLinker, {})
AsyncP2 == Offering(P2!AsyncLinker, {})
SyncProxyP2 == Offering(P2!ProxyLinkerSync, {})
AsyncProxyP2 == Offering(P2!ProxyLinkerAsync, {})

RelayedP3 == Offering(P3!Relayed, {})
UnrelayedP3 == Offering(P3!Unrelayed, {})

\* Beside HTTP the synchronous linker installs every interface, the
\* asynchronous one those of a proxy.
Serving(gates) == Offering(HttpP2!OnlyHttp \cup HttpP2!HandlerEntered \cup gates, {})
SyncHttpP2 == Serving(P2!SyncLinker)
AsyncHttpP2 == Serving(P2!ProxyLinkerAsync)

\* A refused send gives its request up.
OnlyHttpP3 == Offering(HttpP3!Http, {"request"})

Offerings ==
  {SyncP2, AsyncP2, SyncProxyP2, AsyncProxyP2, RelayedP3, UnrelayedP3,
   SyncHttpP2, AsyncHttpP2, OnlyHttpP3}
=============================================================================
