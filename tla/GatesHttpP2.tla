---------------------------- MODULE GatesHttpP2 ----------------------------
(***************************************************************************)
(* The gates of wasi:http 0.2.  An option or a result in the arguments     *)
(* gives a gate with the handle and one without it.                        *)
(***************************************************************************)
EXTENDS GateCalls

Fields == <<"fields">>

\* Variant: the future response is not reported.
HandlerSilent ==
  Checked(Yielding(OwningOption(Trap({"handle"}, <<>>), "outgoing-request", "request-options"),
                   <<"future-incoming-response">>))

Handler ==
  Checked(Produced(OwningOption(Trap({"handle"}, <<>>), "outgoing-request", "request-options"),
                   <<"future-incoming-response">>))

\* The conversions are calls too; Checked stands for them.
Errors == Trap({"http-error-code"}, <<"error">>)

FieldMaps ==
  Produced(Trap({"new"}, <<>>) \cup Checked(Trap({"from-list"}, <<>>)), Fields) \cup
  Produced(Trap({"clone"}, Fields), Fields) \cup
  Trap({"get", "has", "entries"}, Fields) \cup
  Checked(Trap({"set", "delete", "append"}, Fields)) \cup
  Drops({"fields"})

IncomingRequests ==
  LET request == <<"incoming-request">> IN
  Trap({"method", "path-with-query", "scheme", "authority"}, request) \cup
  Produced(Trap({"headers"}, request), Fields) \cup
  Perhaps(Produced(Trap({"consume"}, request), <<"incoming-body">>)) \cup
  Drops({"incoming-request"})

OutgoingRequests ==
  LET request == <<"outgoing-request">> IN
  Produced(Owning(Trap({"new"}, <<>>), Fields), request) \cup
  Perhaps(Produced(Trap({"body"}, request), <<"outgoing-body">>)) \cup
  Trap({"method", "set-method", "path-with-query", "set-path-with-query",
        "scheme", "set-scheme", "authority", "set-authority"}, request) \cup
  Produced(Trap({"headers"}, request), Fields) \cup
  Drops({"outgoing-request"})

ResponseOutparams ==
  Drops({"response-outparam"}) \cup
  OwningOption(Trap({"set"}, <<>>), "response-outparam", "outgoing-response") \cup
  Checked(Owning(Trap({"send-informational"}, <<"response-outparam">>), Fields))

IncomingResponses ==
  LET response == <<"incoming-response">> IN
  Trap({"status"}, response) \cup
  Produced(Trap({"headers"}, response), Fields) \cup
  Perhaps(Produced(Trap({"consume"}, response), <<"incoming-body">>)) \cup
  Drops({"incoming-response"})

FutureTrailers ==
  LET trailers == <<"future-trailers">> IN
  Produced(Trap({"subscribe"}, trailers), <<"pollable">>) \cup
  Perhaps(Produced(Trap({"get"}, trailers), Fields)) \cup
  Drops({"future-trailers"})

IncomingBodies ==
  Perhaps(Produced(Trap({"stream"}, <<"incoming-body">>), <<"input-stream">>)) \cup
  Produced(Owning(Trap({"finish"}, <<>>), <<"incoming-body">>), <<"future-trailers">>) \cup
  Drops({"incoming-body"})

OutgoingResponses ==
  LET response == <<"outgoing-response">> IN
  Produced(Owning(Trap({"new"}, <<>>), Fields), response) \cup
  Perhaps(Produced(Trap({"body"}, response), <<"outgoing-body">>)) \cup
  Trap({"status-code", "set-status-code"}, response) \cup
  Produced(Trap({"headers"}, response), Fields) \cup
  Drops({"outgoing-response"})

FutureResponses ==
  LET response == <<"future-incoming-response">> IN
  Perhaps(Produced(Trap({"get"}, response), <<"incoming-response">>)) \cup
  Produced(Trap({"subscribe"}, response), <<"pollable">>) \cup
  Drops({"future-incoming-response"})

OutgoingBodies ==
  Perhaps(Produced(Trap({"write"}, <<"outgoing-body">>), <<"output-stream">>)) \cup
  Checked(OwningOption(Trap({"finish"}, <<>>), "outgoing-body", "fields")) \cup
  Drops({"outgoing-body"})

RequestOptions ==
  LET options == <<"request-options">> IN
  Produced(Trap({"new"}, <<>>), options) \cup
  Trap({"connect-timeout", "set-connect-timeout", "first-byte-timeout",
        "set-first-byte-timeout", "between-bytes-timeout", "set-between-bytes-timeout"},
       options) \cup
  Drops({"request-options"})

\* The host calls the guest's handler with resources it made itself: the
\* export call that layers see lists no handles.
HandlerEntered ==
  Hiding(Trap({"incoming-handler"}, <<>>), <<"incoming-request", "response-outparam">>)

OnlyHttp ==
  Handler \cup Errors \cup FieldMaps \cup IncomingRequests \cup OutgoingRequests
    \cup ResponseOutparams \cup IncomingResponses \cup FutureTrailers \cup IncomingBodies
    \cup OutgoingResponses \cup FutureResponses \cup OutgoingBodies \cup RequestOptions
=============================================================================
