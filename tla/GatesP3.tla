------------------------------ MODULE GatesP3 ------------------------------
(***************************************************************************)
(* The gates of the WASI Preview 3 interfaces, file by file.  Relayed      *)
(* linkers differ from plain ones in the byte streams they leave behind,   *)
(* whose chunks are calls of their own (Relay): only the relayed form is   *)
(* written with an opened stream.                                          *)
(***************************************************************************)
EXTENDS GateCalls

Fd == <<"descriptor">>
Tcp == <<"tcp-socket">>
Udp == <<"udp-socket">>

-----------------------------------------------------------------------------
(* wasi:filesystem                                                         *)

WritingStreams == Opening(Trap({"write-via-stream", "append-via-stream"}, Fd), "bytes")

DescriptorDrops == Drops({"descriptor"})

ReadingStreams == Opening(Trap({"read-via-stream"}, Fd), "bytes")

DescriptorState ==
  Concurrent(Typed(Trap({"advise", "sync-data", "get-flags", "get-type", "set-size",
                         "set-times", "sync", "create-directory-at", "stat"}, Fd))) \cup
  Trap({"read-directory"}, Fd)

\* Variant: the opened descriptor is not reported.
DescriptorTreeSilent ==
  Concurrent(Typed(
    Trap({"stat-at", "set-times-at", "readlink-at", "remove-directory-at", "symlink-at"}, Fd) \cup
    Trap({"link-at", "rename-at"}, Fd \o Fd) \cup
    Yielding(Trap({"open-at"}, Fd), Fd)))

DescriptorTree ==
  Concurrent(Typed(
    Trap({"stat-at", "set-times-at", "readlink-at", "remove-directory-at", "symlink-at"}, Fd) \cup
    Trap({"link-at", "rename-at"}, Fd \o Fd) \cup
    Produced(Trap({"open-at"}, Fd), Fd)))

DescriptorIdentity ==
  Concurrent(Typed(Trap({"unlink-file-at", "metadata-hash", "metadata-hash-at"}, Fd)) \cup
             Trap({"is-same-object"}, Fd \o Fd)) \cup
  Perhaps(Produced(Trap({"get-directories"}, <<>>), Fd))

-----------------------------------------------------------------------------
(* wasi:cli, wasi:clocks, wasi:random                                      *)

Environment ==
  Trap({"get-environment", "get-arguments", "get-initial-cwd", "exit", "exit-with-code"}, <<>>)

\* The chunks of standard input and output carry no handle.
Stdio == Trap({"read-via-stream", "write-via-stream"}, <<>>)

Terminals ==
  Drops({"terminal-input", "terminal-output"}) \cup
  Perhaps(Produced(Trap({"get-terminal-stdin"}, <<>>), <<"terminal-input">>)) \cup
  Perhaps(Produced(Trap({"get-terminal-stdout", "get-terminal-stderr"}, <<>>),
                   <<"terminal-output">>))

Clocks ==
  Trap({"now", "get-resolution"}, <<>>) \cup Concurrent(Trap({"wait-until", "wait-for"}, <<>>))

Random ==
  Trap({"get-random-bytes", "get-random-u64", "get-insecure-random-bytes",
        "get-insecure-random-u64", "get-insecure-seed"}, <<>>)

-----------------------------------------------------------------------------
(* wasi:sockets                                                            *)

TcpOptions ==
  Awaited(Typed(Trap({"bind"}, Tcp))) \cup
  Produced(Typed(Trap({"create"}, <<>>)), Tcp) \cup
  Trap({"get-is-listening", "get-address-family"}, Tcp) \cup
  Typed(Trap({"get-local-address", "get-remote-address", "set-listen-backlog-size",
              "get-keep-alive-enabled", "set-keep-alive-enabled",
              "get-keep-alive-idle-time", "set-keep-alive-idle-time",
              "get-keep-alive-interval", "set-keep-alive-interval",
              "get-keep-alive-count", "set-keep-alive-count",
              "get-hop-limit", "set-hop-limit",
              "get-receive-buffer-size", "set-receive-buffer-size",
              "get-send-buffer-size", "set-send-buffer-size"}, Tcp)) \cup
  Drops({"tcp-socket"})

TcpTraffic ==
  Concurrent(Typed(Trap({"connect"}, Tcp))) \cup
  Opening(Awaited(Typed(Trap({"listen"}, Tcp))), "sockets") \cup
  Opening(Trap({"send", "receive"}, Tcp), "bytes")

UdpSockets ==
  Awaited(Typed(Trap({"bind", "connect"}, Udp) \cup Produced(Trap({"create"}, <<>>), Udp))) \cup
  Typed(Trap({"disconnect", "get-local-address", "get-remote-address",
              "get-unicast-hop-limit", "set-unicast-hop-limit",
              "get-receive-buffer-size", "set-receive-buffer-size",
              "get-send-buffer-size", "set-send-buffer-size"}, Udp)) \cup
  Trap({"get-address-family"}, Udp) \cup
  Drops({"udp-socket"}) \cup
  Concurrent(Typed(Trap({"send", "receive"}, Udp)))

\* Its errors other than a refusal are results or traps.
NameLookup ==
  Refusing(Concurrent(Trap({"resolve-addresses"}, <<>>)), "error")

-----------------------------------------------------------------------------
(* The linkers                                                             *)

Relayed ==
  WritingStreams \cup ReadingStreams \cup DescriptorDrops \cup DescriptorState
    \cup DescriptorTree \cup DescriptorIdentity \cup Environment \cup Stdio \cup Terminals
    \cup Clocks \cup Random \cup TcpOptions \cup TcpTraffic \cup UdpSockets \cup NameLookup

Unrelayed ==
  {IF g.opens = "bytes" THEN [g EXCEPT !.opens = "nothing"] ELSE g : g \in Relayed}
=============================================================================
