------------------------------ MODULE GatesP2 ------------------------------
(***************************************************************************)
(* The gates of the WASI Preview 2 interfaces, file by file.  A list of    *)
(* pollables stands as one pollable, and get-directories returns at most   *)
(* two preopened directories.                                              *)
(***************************************************************************)
EXTENDS GateCalls

Fd == <<"descriptor">>

-----------------------------------------------------------------------------
(* wasi:filesystem                                                         *)

DescriptorData ==
  Trap({"filesystem-error-code"}, <<"error">>) \cup
  Typed(Trap({"advise", "sync-data", "get-flags", "get-type", "set-size",
              "set-times", "read", "write"}, Fd))

DescriptorPaths ==
  Produced(Typed(Trap({"read-directory"}, Fd)), <<"directory-entry-stream">>) \cup
  Typed(Trap({"sync", "create-directory-at", "stat", "stat-at", "set-times-at"}, Fd)) \cup
  Typed(Trap({"link-at"}, Fd \o Fd))

\* Variant: the opened descriptor is not reported.
DescriptorOpensSilent ==
  Yielding(Typed(Trap({"open-at"}, Fd)), Fd) \cup
  Drops({"descriptor"}) \cup
  Typed(Trap({"readlink-at", "remove-directory-at", "symlink-at", "unlink-file-at"}, Fd)) \cup
  Typed(Trap({"rename-at"}, Fd \o Fd))

DescriptorOpens ==
  Produced(Typed(Trap({"open-at"}, Fd)), Fd) \cup
  Drops({"descriptor"}) \cup
  Typed(Trap({"readlink-at", "remove-directory-at", "symlink-at", "unlink-file-at"}, Fd)) \cup
  Typed(Trap({"rename-at"}, Fd \o Fd))

DescriptorStreams ==
  Produced(Typed(Trap({"read-via-stream"}, Fd)), <<"input-stream">>) \cup
  Produced(Typed(Trap({"write-via-stream", "append-via-stream"}, Fd)), <<"output-stream">>) \cup
  Trap({"is-same-object"}, Fd \o Fd) \cup
  Typed(Trap({"metadata-hash", "metadata-hash-at"}, Fd))

DirectoryEntries ==
  Typed(Trap({"read-directory-entry"}, <<"directory-entry-stream">>)) \cup
  Drops({"directory-entry-stream"})

Preopens ==
  Perhaps(Produced(Trap({"get-directories"}, <<>>), Fd)) \cup
  Produced(Trap({"get-directories"}, <<>>), Fd \o Fd)

AsyncDescriptorData ==
  Named(DescriptorData, {"filesystem-error-code"}) \cup
  Awaited(Except(DescriptorData, {"filesystem-error-code"}))

AsyncDescriptorPaths == Awaited(DescriptorPaths)

AsyncDescriptorOpens ==
  Named(DescriptorOpens, {"drop"}) \cup Awaited(Except(DescriptorOpens, {"drop"}))

AsyncDescriptorStreams ==
  LET opening == {"read-via-stream", "write-via-stream", "append-via-stream"} IN
  Named(DescriptorStreams, opening) \cup Awaited(Except(DescriptorStreams, opening))

AsyncDirectoryEntries ==
  Named(DirectoryEntries, {"drop"}) \cup Awaited(Except(DirectoryEntries, {"drop"}))

-----------------------------------------------------------------------------
(* wasi:io                                                                 *)

Errors == Drops({"error"}) \cup Trap({"to-debug-string"}, <<"error">>)

Pollables == Trap({"poll", "ready", "block"}, <<"pollable">>) \cup Drops({"pollable"})

InputStreams ==
  Drops({"input-stream"}) \cup
  Streamed(Trap({"read", "blocking-read", "skip", "blocking-skip"}, <<"input-stream">>)) \cup
  Produced(Trap({"subscribe"}, <<"input-stream">>), <<"pollable">>)

OutputStreams ==
  Drops({"output-stream"}) \cup
  Streamed(Trap({"check-write", "write", "blocking-write-and-flush",
                 "blocking-write-zeroes-and-flush", "write-zeroes", "flush",
                 "blocking-flush"}, <<"output-stream">>)) \cup
  Produced(Trap({"subscribe"}, <<"output-stream">>), <<"pollable">>) \cup
  Streamed(Trap({"splice", "blocking-splice"}, <<"output-stream", "input-stream">>))

AsyncPollables ==
  Awaited(Except(Pollables, {"drop"})) \cup Named(Pollables, {"drop"})

AsyncInputStreams ==
  LET awaited == {"drop", "blocking-read", "blocking-skip"} IN
  Awaited(Named(InputStreams, awaited)) \cup Except(InputStreams, awaited)

AsyncOutputStreams ==
  LET awaited == {"drop", "blocking-write-and-flush", "blocking-write-zeroes-and-flush",
                  "blocking-flush", "blocking-splice"} IN
  Awaited(Named(OutputStreams, awaited)) \cup Except(OutputStreams, awaited)

-----------------------------------------------------------------------------
(* wasi:cli, wasi:clocks, wasi:random                                      *)

Cli ==
  Trap({"get-environment", "get-arguments", "initial-cwd", "exit", "exit-with-code"}, <<>>) \cup
  Produced(Trap({"get-stdin"}, <<>>), <<"input-stream">>) \cup
  Produced(Trap({"get-stdout", "get-stderr"}, <<>>), <<"output-stream">>)

Terminals ==
  Drops({"terminal-input", "terminal-output"}) \cup
  Perhaps(Produced(Trap({"get-terminal-stdin"}, <<>>), <<"terminal-input">>)) \cup
  Perhaps(Produced(Trap({"get-terminal-stdout", "get-terminal-stderr"}, <<>>),
                   <<"terminal-output">>))

Clocks ==
  Trap({"now", "resolution"}, <<>>) \cup
  Produced(Trap({"subscribe-instant", "subscribe-duration"}, <<>>), <<"pollable">>)

Random ==
  Trap({"get-random-bytes", "get-random-u64", "get-insecure-random-bytes",
        "get-insecure-random-u64", "insecure-seed"}, <<>>)
=============================================================================
