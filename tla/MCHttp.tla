------------------------------- MODULE MCHttp -------------------------------
(***************************************************************************)
(* Http for TLC.  Authorities: all of up to four characters, and some with *)
(* every part, ports that no int or no long holds among them.  Responses:  *)
(* headers of up to two fields, and chunked bodies of up to three chunks   *)
(* of up to two bytes, or of as many as a size_t can say.  A url other     *)
(* than the plain one meets the plain response only.                       *)
(***************************************************************************)
EXTENDS Http

MaxLen == 4

Authorities ==
    UNION {[1..n -> {"a", "0", "1", "!", ":", "@"}] : n \in 0..4}
      \cup {<<"a", ":", "b", "@", "c", ":", p>> : p \in {"0", "1", "!", ":", "@"}}
      \cup {<<"a", ":", "b", "@", "c">>, <<"a", ":", "1", "0", "1">>,
           <<"a", ":", "1", "1", "1", "1">>}
PlainUrl == [scheme |-> "http", authority |-> <<"a">>]
SomeUrls ==
    [scheme : {"http"}, authority : Authorities]
      \cup [scheme : {"ftp", "illegal", "missing", "noslash"}, authority : {<<"a">>}]

Field(k, v) == [key |-> k, value |-> v, space |-> FALSE]
SomeFields ==
    {Field("content-length", n) : n \in {-1, 0, 1, 5}} \cup {Field("transfer-encoding", n) : n \in -1..0}
      \cup {Field("other", 0), Field("illegal", 0)}
Chunked == <<Field("other", 0), Field("transfer-encoding", 0)>>
PlainResponse == [line |-> "ok", fields |-> <<Field("content-length", 1)>>, whole |-> TRUE,
                  chunks |-> <<>>]
Headers ==
    [line : {"ok"}, fields : UNION {[1..n -> SomeFields] : n \in 0..2}, whole : {TRUE},
     chunks : {<<>>}]
      \cup {[PlainResponse EXCEPT !.line = "illegal"], [PlainResponse EXCEPT !.whole = FALSE]}
Bodies ==
    [line : {"ok"}, fields : {Chunked}, whole : {TRUE},
     chunks : UNION {[1..n -> [length : (-1..2) \cup {SizeMax - 1, SizeMax}, crlf : {TRUE}]] : n \in 0..3}
                \cup {<<[length |-> 1, crlf |-> FALSE]>>}]

const_Inputs ==
    [url : SomeUrls, rsp : {PlainResponse}, size : {1}, plen : {0}]
      \cup [url : {PlainUrl}, rsp : Headers, size : {0, 1, MaxLen}, plen : {0, 1}]
      \cup [url : {PlainUrl}, rsp : Bodies, size : 0..MaxLen, plen : {0}]

\* A space at the end of a field.
spaced_Inputs ==
    [url : {PlainUrl}, rsp : {[PlainResponse EXCEPT !.fields[1].space = b] : b \in BOOLEAN},
     size : {1}, plen : {0}]
=============================================================================
