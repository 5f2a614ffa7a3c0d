---------------------------- MODULE GatesHttpP3 ----------------------------
(***************************************************************************)
(* The gates of wasi:http 0.3.                                             *)
(***************************************************************************)
EXTENDS GateCalls

Fields == <<"fields">>
Options == <<"request-options">>

FieldMaps ==
  Produced(Trap({"new"}, <<>>) \cup Checked(Trap({"from-list"}, <<>>)), Fields) \cup
  Trap({"get", "has", "copy-all"}, Fields) \cup
  Checked(Trap({"set", "delete", "get-and-delete", "append"}, Fields)) \cup
  Produced(Trap({"clone"}, Fields), Fields) \cup
  Drops({"fields"})

\* get-options returns a resource that its gate does not report.
Requests ==
  Trap({"get-method", "set-method", "get-path-with-query", "set-path-with-query",
        "get-scheme", "set-scheme", "get-authority", "set-authority"}, <<"request">>) \cup
  Perhaps(Hiding(Trap({"get-options"}, <<"request">>), Options)) \cup
  Produced(Trap({"get-headers"}, <<"request">>), Fields)

RequestOptions ==
  Produced(Trap({"new"}, <<>>), Options) \cup
  Trap({"get-connect-timeout", "get-first-byte-timeout", "get-between-bytes-timeout"},
       Options) \cup
  Checked(Trap({"set-connect-timeout", "set-first-byte-timeout",
                "set-between-bytes-timeout"}, Options)) \cup
  Produced(Trap({"clone"}, Options), Options) \cup
  Drops({"request-options"})

Responses ==
  Trap({"get-status-code", "set-status-code"}, <<"response">>) \cup
  Produced(Trap({"get-headers"}, <<"response">>), Fields)

-----------------------------------------------------------------------------
(* Contents: the guest gives a body with a future of its trailers, or      *)
(* consumes one and receives its trailers later, inside a future.          *)

\* Variant: a refused request.new is answered with an error.
RequestBodiesAnswered ==
  Opening(Produced(OwningOption(Typed(Trap({"new"}, <<>>)), "fields", "request-options"),
                   <<"request">>), "given") \cup
  Opening(Owning(Trap({"consume-body"}, <<>>), <<"request">>), "trailers") \cup
  Drops({"request"})

\* Variant: the options are not among the handles that request.new names.
RequestBodiesUnlisted ==
  {[g EXCEPT !.omits = {"request-options"}] :
     g \in Opening(Produced(OwningOption(Trap({"new"}, <<>>), "fields", "request-options"),
                            <<"request">>), "given")} \cup
  Opening(Owning(Trap({"consume-body"}, <<>>), <<"request">>), "trailers") \cup
  Drops({"request"})

RequestBodies ==
  Opening(Produced(OwningOption(Trap({"new"}, <<>>), "fields", "request-options"),
                   <<"request">>), "given") \cup
  Opening(Owning(Trap({"consume-body"}, <<>>), <<"request">>), "trailers") \cup
  Drops({"request"})

ResponseBodies ==
  Opening(Produced(Owning(Trap({"new"}, <<>>), Fields), <<"response">>), "given") \cup
  Opening(Owning(Trap({"consume-body"}, <<>>), <<"response">>), "trailers") \cup
  Drops({"response"})

\* Variant: the response is not reported.
ClientSilent ==
  Refusing(Checked(Concurrent(
    Yielding(Owning(Trap({"send"}, <<>>), <<"request">>), <<"response">>))), "converted")

Client ==
  Refusing(Checked(Concurrent(
    Produced(Owning(Trap({"send"}, <<>>), <<"request">>), <<"response">>))), "converted")

Http ==
  FieldMaps \cup Requests \cup RequestOptions \cup Responses \cup RequestBodies
    \cup ResponseBodies \cup Client
=============================================================================
