--------------------------- MODULE GatesP2Sockets ---------------------------
(***************************************************************************)
(* The gates of wasi:sockets 0.2, file by file, and what each of the       *)
(* Preview 2 linkers installs.                                             *)
(***************************************************************************)
EXTENDS GatesP2

Tcp == <<"tcp-socket">>
Udp == <<"udp-socket">>
Halves == <<"input-stream", "output-stream">>
Received == <<"incoming-datagram-stream">>
Sent == <<"outgoing-datagram-stream">>

Networks ==
  Trap({"network-error-code"}, <<"error">>) \cup
  Drops({"network"}) \cup
  Produced(Trap({"instance-network"}, <<>>), <<"network">>) \cup
  Produced(Typed(Trap({"create-tcp-socket"}, <<>>)), Tcp)

NameLookup ==
  Produced(Typed(Trap({"resolve-addresses"}, <<"network">>)), <<"resolve-address-stream">>) \cup
  Typed(Trap({"resolve-next-address"}, <<"resolve-address-stream">>)) \cup
  Produced(Trap({"subscribe"}, <<"resolve-address-stream">>), <<"pollable">>) \cup
  Drops({"resolve-address-stream"})

-----------------------------------------------------------------------------
(* wasi:sockets/tcp                                                        *)

\* Variant: accept reports the socket and not its streams.
TcpConnectionsHalfTold ==
  Typed(Trap({"start-bind", "start-connect"}, Tcp \o <<"network">>)) \cup
  Typed(Trap({"finish-bind", "start-listen", "finish-listen"}, Tcp)) \cup
  Produced(Typed(Trap({"finish-connect"}, Tcp)), Halves) \cup
  {[g EXCEPT !.tells = Range(Tcp)] : g \in Yielding(Typed(Trap({"accept"}, Tcp)), Tcp \o Halves)}

TcpConnections ==
  Typed(Trap({"start-bind", "start-connect"}, Tcp \o <<"network">>)) \cup
  Typed(Trap({"finish-bind", "start-listen", "finish-listen"}, Tcp)) \cup
  Produced(Typed(Trap({"finish-connect"}, Tcp)), Halves) \cup
  Produced(Typed(Trap({"accept"}, Tcp)), Tcp \o Halves)

TcpOptions ==
  Trap({"is-listening", "address-family"}, Tcp) \cup
  Typed(Trap({"local-address", "remote-address", "set-listen-backlog-size",
              "keep-alive-enabled", "set-keep-alive-enabled",
              "keep-alive-idle-time", "set-keep-alive-idle-time",
              "keep-alive-interval", "set-keep-alive-interval",
              "keep-alive-count", "set-keep-alive-count",
              "hop-limit", "set-hop-limit",
              "receive-buffer-size", "set-receive-buffer-size",
              "send-buffer-size", "set-send-buffer-size", "shutdown"}, Tcp)) \cup
  Produced(Trap({"subscribe"}, Tcp), <<"pollable">>) \cup
  Drops({"tcp-socket"})

AsyncTcpConnections ==
  LET awaited == {"start-bind", "start-listen"} IN
  Awaited(Named(TcpConnections, awaited)) \cup Except(TcpConnections, awaited)

AsyncTcpOptions == TcpOptions

-----------------------------------------------------------------------------
(* wasi:sockets/udp                                                        *)

UdpSockets ==
  Typed(Trap({"start-bind"}, Udp \o <<"network">>)) \cup
  Produced(Typed(Trap({"stream"}, Udp)), Received \o Sent) \cup
  Trap({"address-family"}, Udp) \cup
  Typed(Trap({"finish-bind", "local-address", "remote-address",
              "unicast-hop-limit", "set-unicast-hop-limit",
              "receive-buffer-size", "set-receive-buffer-size",
              "send-buffer-size", "set-send-buffer-size"}, Udp)) \cup
  Produced(Trap({"subscribe"}, Udp), <<"pollable">>) \cup
  Drops({"udp-socket"})

Datagrams ==
  Typed(Trap({"receive"}, Received)) \cup
  Typed(Trap({"check-send", "send"}, Sent)) \cup
  Produced(Trap({"subscribe"}, Received) \cup Trap({"subscribe"}, Sent), <<"pollable">>) \cup
  Drops({"incoming-datagram-stream", "outgoing-datagram-stream"}) \cup
  Produced(Typed(Trap({"create-udp-socket"}, <<>>)), Udp)

AsyncUdpSockets ==
  LET awaited == {"start-bind", "stream"} IN
  Awaited(Named(UdpSockets, awaited)) \cup Except(UdpSockets, awaited)

AsyncDatagrams ==
  LET awaited == {"drop", "create-udp-socket"} IN
  Awaited(Named(Datagrams, awaited)) \cup Except(Datagrams, awaited)

AsyncNameLookup ==
  Awaited(Named(NameLookup, {"drop"})) \cup Except(NameLookup, {"drop"})

-----------------------------------------------------------------------------
(* The linkers                                                             *)

Sockets == TcpConnections \cup TcpOptions \cup UdpSockets \cup Datagrams \cup NameLookup

AsyncSockets ==
  AsyncTcpConnections \cup AsyncTcpOptions \cup AsyncUdpSockets \cup AsyncDatagrams
    \cup AsyncNameLookup

\* What the synchronous and the asynchronous linker share.
Shared == Networks \cup Cli \cup Terminals \cup Clocks \cup Preopens \cup Errors \cup Random

SyncLinker ==
  Shared \cup Sockets \cup Pollables \cup InputStreams \cup OutputStreams
    \cup DescriptorData \cup DescriptorPaths \cup DescriptorOpens \cup DescriptorStreams
    \cup DirectoryEntries

AsyncLinker ==
  Shared \cup AsyncSockets \cup AsyncPollables \cup AsyncInputStreams \cup AsyncOutputStreams
    \cup AsyncDescriptorData \cup AsyncDescriptorPaths \cup AsyncDescriptorOpens
    \cup AsyncDescriptorStreams \cup AsyncDirectoryEntries

\* The interfaces of wasi:http/proxy only.
ProxyStdio ==
  Named(Cli, {"get-stdin", "get-stdout", "get-stderr"})

ProxyRandom == Named(Random, {"get-random-bytes", "get-random-u64"})

ProxyLinkerSync ==
  Errors \cup Pollables \cup InputStreams \cup OutputStreams \cup Clocks
    \cup ProxyRandom \cup ProxyStdio

ProxyLinkerAsync ==
  Errors \cup AsyncPollables \cup AsyncInputStreams \cup AsyncOutputStreams \cup Clocks
    \cup ProxyRandom \cup ProxyStdio
=============================================================================
