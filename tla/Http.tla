-------------------------------- MODULE Http --------------------------------
(***************************************************************************)
(* The http client of extensions/http/cocoflow-http.cc: one http::get or   *)
(* http::post task, from the parsing of its url to the value it returns.   *)
(* It uses getaddrinfo (EventTasks), connect and send (TcpConn) and        *)
(* recv_till (TcpRecvTill) one after the other; each await is a step whose *)
(* outcome the network decides, and the task may be canceled in each but   *)
(* send, which is uninterruptable.                                         *)
(*                                                                         *)
(* The authority of a url is a sequence of characters, one for each class  *)
(* the parser tells apart; of the scheme only what the parser makes of it  *)
(* matters, and path, query and comment are copied.  A header is a record  *)
(* of its status line and its fields, a body the lengths of its chunks as  *)
(* sscanf reads them, up to the largest size_t; a byte of the body is its  *)
(* position.  Headers fit the header buffer.  Messages (errmsg) are left   *)
(* out.                                                                    *)
(***************************************************************************)
EXTENDS Integers, FiniteSets, SequencesExt

CONSTANTS
    Inputs,     \* [url, rsp, size, plen]: what the program and the server chose
    MaxPort,    \* 65535
    IntMax,     \* INT_MAX, LONG_MAX and the largest size_t
    LongMax,
    SizeMax

ASSUME PortAssumption == MaxPort \in Nat /\ IntMax \in Nat /\ LongMax \in Nat
                            /\ MaxPort <= IntMax /\ IntMax <= LongMax
ASSUME SizeAssumption == SizeMax \in Nat

\* A response: whether its status line is legal, the fields of its header, whether
\* the header ends where it should, and the chunks of its body, with the length -1
\* for a size that is none.
Response == [line : {"ok", "illegal"},
             fields : Seq([key : STRING, value : Int, space : BOOLEAN]), whole : BOOLEAN,
             chunks : Seq([length : (0..SizeMax) \cup {-1}, crlf : BOOLEAN])]

ASSUME InputsAssumption ==
    \A i \in Inputs : /\ i.url.authority \in Seq(STRING) /\ i.rsp \in Response
                      /\ i.size \in 0..SizeMax /\ i.plen \in Nat

VARIABLES
    url,        \* [scheme, authority]
    rsp,        \* see Response
    size,       \* of the caller's buffer
    plen,       \* post: length of the body to send; get: 0
    \* members of the task
    ret, len,
    buf,        \* the bytes of the caller's buffer that were written
    \* locals of run() and the functions it calls
    pc,
    next_field, \* fields parsed so far, in http_rsp_parse
    header_fields,
    next_chunk, \* chunks begun so far
    cur, recved

inputs == <<url, rsp, size, plen>>
body == <<next_chunk, cur, recved, buf>>
httpVars == <<inputs, ret, len, pc, next_field, header_fields, body>>

Over == {"done", "canceled", "aborted", "overrun"}

-----------------------------------------------------------------------------
\* url_parse, the loop over user:password@host:port: one character.  A pointer
\* is a position, 0 for NULL; user_bgn is 1.
ScanChar(s, c) ==
    LET p == s.p
        t == [s EXCEPT !.p = p + 1]
        Colon == IF s.host_bgn = 0
                   THEN IF s.user_end = 0 THEN [t EXCEPT !.user_end = p, !.pass_bgn = p + 1]
                        ELSE [t EXCEPT !.err = -4]
                   ELSE IF s.host_end = 0 THEN [t EXCEPT !.host_end = p, !.port_bgn = p + 1]
                        ELSE [t EXCEPT !.err = -5]
        At == IF s.user_end = 0 THEN [t EXCEPT !.user_end = p, !.host_bgn = p + 1]
              ELSE IF s.pass_bgn # 0 /\ s.pass_end = 0
                THEN [t EXCEPT !.pass_end = p, !.host_bgn = p + 1]
              ELSE [t EXCEPT !.err = -6]
    IN  IF s.err # 0 THEN s
        ELSE IF c = ":" THEN Colon ELSE IF c = "@" THEN At ELSE t

NoPointers == [p |-> 1, err |-> 0, user_bgn |-> 1, user_end |-> 0, pass_bgn |-> 0,
               pass_end |-> 0, host_bgn |-> 0, host_end |-> 0, port_bgn |-> 0, port_end |-> 0]

\* The loop, up to each character; and what it does at the end of the text.
Scan(a) ==
    LET scan[n \in 0..Len(a)] == IF n = 0 THEN NoPointers ELSE ScanChar(scan[n - 1], a[n])
    IN  scan

ScanEnd(s) ==
    LET p == s.p
    IN  IF p = 1 THEN [s EXCEPT !.user_bgn = 0]
        ELSE IF s.user_end = 0 THEN [s EXCEPT !.host_bgn = 1, !.host_end = p, !.user_bgn = 0]
        ELSE IF s.pass_bgn # 0 /\ s.pass_end = 0
          THEN [s EXCEPT !.host_bgn = 1, !.host_end = s.user_end, !.port_bgn = s.pass_bgn,
                         !.port_end = p, !.user_bgn = 0, !.pass_bgn = 0]
        ELSE IF s.host_end = 0 THEN [s EXCEPT !.host_end = p] ELSE [s EXCEPT !.port_end = p]

\* std::string(bgn, end); the number some digits write, and what atoi makes of
\* them: a long that stays at its largest value, of which int keeps the low bits.
Text(a, bgn, end) == IF bgn = 0 THEN <<>> ELSE SubSeq(a, bgn, end - 1)
DigitValue == [c \in {"0", "1"} |-> IF c = "1" THEN 1 ELSE 0]
Number(digits) ==
    LET value[n \in 0..Len(digits)] ==
            IF n = 0 THEN 0 ELSE 10 * value[n - 1] + DigitValue[digits[n]]
    IN  value[Len(digits)]
ToInt(n) == ((n + IntMax + 1) % (2 * (IntMax + 1))) - (IntMax + 1)
Atoi(digits) == ToInt(IF Number(digits) > LongMax THEN LongMax ELSE Number(digits))

\* url_parse after the loop.
Fields(a, s) ==
    LET host == Text(a, s.host_bgn, s.host_end)
        port == Text(a, s.port_bgn, s.port_end)
        error == IF s.err # 0 THEN s.err
                 ELSE IF "!" \in Range(host) THEN -7
                 ELSE IF ~(Range(port) \subseteq {"0", "1"}) THEN -8
                 ELSE IF port # <<>> /\ ~(Atoi(port) \in 1..MaxPort) THEN -9
                 ELSE 0
    IN  IF error # 0 THEN [err |-> error]
        ELSE [err |-> 0, host |-> host, port |-> Atoi(port),
              user |-> Text(a, s.user_bgn, s.user_end),
              password |-> Text(a, s.pass_bgn, s.pass_end)]
url_parse(u) ==
    CASE u.scheme = "illegal"  -> [err |-> -1]
      [] u.scheme = "missing"  -> [err |-> -2]
      [] u.scheme = "noslash"  -> [err |-> -3]
      [] OTHER -> LET a == u.authority
                      s == Scan(a)[Len(a)]
                  IN  Fields(a, IF s.err = 0 THEN ScanEnd(s) ELSE s)

-----------------------------------------------------------------------------
\* The constructors of get and post.
HttpInit ==
    /\ \E i \in Inputs : url = i.url /\ rsp = i.rsp /\ size = i.size /\ plen = i.plen
    /\ ret = "unfinished" /\ len = size
    /\ buf = [i \in 1..size |-> 0]
    /\ pc = "url"
    /\ next_field = 0 /\ header_fields = {}
    /\ next_chunk = 0 /\ cur = 1 /\ recved = 0

\* Every error but one returns no body.
Fail(err) ==
    /\ ret' = err /\ len' = 0 /\ pc' = "done"
    /\ UNCHANGED <<inputs, next_field, header_fields, body>>
Goto(l) == pc' = l /\ UNCHANGED <<inputs, ret, len, next_field, header_fields, body>>

\* __url_parse
UrlParse ==
    /\ pc = "url"
    /\ \E u \in {url_parse(url)} :
        IF u.err # 0 \/ url.scheme # "http" THEN Fail("err_url_parse")
        ELSE IF u.user # <<>> \/ u.password # <<>> \/ u.host = <<>> THEN Fail("err_url_parse")
        ELSE Goto("dns")

\* __dns_resolve, __connect, and the send of get::run and post::run
DnsResolve(ok) == pc = "dns" /\ IF ok THEN Goto("connect") ELSE Fail("err_dns_resolve")
Connect(ok) == pc = "connect" /\ IF ok THEN Goto("send") ELSE Fail("err_tcp_connect")
SendHeader(ok) ==
    /\ pc = "send"
    /\ IF ok THEN Goto(IF plen > 0 THEN "send_body" ELSE "head") ELSE Fail("err_send_request")
SendBody(ok) ==
    pc = "send_body" /\ IF ok THEN Goto("head") ELSE Fail("err_send_request")

\* __recv: the header arrives; http_rsp_parse of its status line.
StatusLineLegal == rsp.line = "ok"
RecvHeader(ok) ==
    /\ pc = "head"
    /\ IF ~ok THEN Fail("err_recv_response")
       ELSE IF ~StatusLineLegal THEN Fail("err_response_header_parse")
       ELSE Goto("fields")

\* http_rsp_parse, one field: whether it goes into the map, whether its value is
\* as it must be (the number of a content-length, 0 for a transfer-encoding
\* "chunked", -1 for any other text), and whether it is there already.  (Seeded
\* bug: duplicates are not noticed.)
Needed(f) == f.key \in {"content-length", "transfer-encoding"}
GoodValue(f) == Needed(f) => f.value >= 0
NeverDuplicate(f) == FALSE
Duplicate(f) == Needed(f) /\ \E g \in header_fields : g.key = f.key

\* The CRLF after a field is skipped.  (Seeded bug: it is not.)
SameField == next_field
NextField == next_field + 1

\* The loop that trims a value which ends in a space has no body: it is never
\* left, and "trimming" has no next step.
ParseField ==
    LET f == rsp.fields[next_field + 1]
    IN  /\ pc = "fields" /\ next_field < Len(rsp.fields)
        /\ IF f.key = "illegal" THEN Fail("err_response_header_parse")
           ELSE IF f.space THEN Goto("trimming")
           ELSE IF ~GoodValue(f) \/ Duplicate(f) THEN Fail("err_response_header_parse")
           ELSE /\ next_field' = NextField
                /\ header_fields' = header_fields \cup (IF Needed(f) THEN {f} ELSE {})
                /\ UNCHANGED <<inputs, ret, len, pc, body>>

Has(key) == \E f \in header_fields : f.key = key
BodyLen == (CHOOSE f \in header_fields : f.key = "content-length").value

\* The end of http_rsp_parse, and what __recv does with the fields.
HeaderParsed ==
    /\ pc = "fields" /\ next_field = Len(rsp.fields)
    /\ IF ~rsp.whole THEN Fail("err_response_header_parse")
       ELSE IF len = 0 THEN Goto("finish")
       ELSE IF Has("transfer-encoding") THEN Goto("chunk_size")
       ELSE IF ~Has("content-length") THEN Fail("err_response_header_parse")
       ELSE /\ len' = IF BodyLen < len THEN BodyLen ELSE len
            /\ pc' = IF BodyLen = 0 THEN "finish" ELSE "body"
            /\ UNCHANGED <<inputs, ret, next_field, header_fields, body>>

\* The bytes of the body after the first n, written to the buffer from position at.
Stored(at, n, count) ==
    [i \in 1..size |-> IF i \in at..(at + count - 1) THEN n + (i - at + 1) ELSE buf[i]]

RecvBody(ok) ==
    /\ pc = "body"
    /\ IF ~ok THEN Fail("err_recv_response")
       ELSE /\ buf' = Stored(1, 0, len)
            /\ IF len < BodyLen THEN ret' = "err_response_body_too_long" /\ pc' = "done"
                                ELSE pc' = "finish" /\ UNCHANGED ret
            /\ UNCHANGED <<inputs, len, next_field, header_fields, next_chunk, cur, recved>>

\* The line with the size of the next chunk, and http_chunk_parse; nothing more
\* comes after the last chunk of an incomplete body.
Chunk == rsp.chunks[next_chunk]
RecvChunkSize(ok) ==
    /\ pc = "chunk_size"
    /\ IF ~ok \/ next_chunk = Len(rsp.chunks) THEN Fail("err_recv_response")
       ELSE LET c == rsp.chunks[next_chunk + 1]
            IN  IF c.length = -1 THEN Fail("err_response_body_parse")
                ELSE /\ next_chunk' = next_chunk + 1
                     /\ IF c.length = 0 THEN len' = recved /\ pc' = "finish"
                                        ELSE pc' = "chunk_data" /\ UNCHANGED len
                     /\ UNCHANGED <<inputs, ret, next_field, header_fields, cur, recved, buf>>

\* The data of a chunk, as much as there is room for; the sum that is compared
\* is a size_t.  A recv_till for no bytes fails the CHECK of its constructor; one
\* that is given more room than the buffer has writes past its end, which is
\* undefined.  (Seeded bugs: cur is not moved, or past the CRLF too; the length
\* of a chunk is compared with the whole buffer.)
KeepCur(n) == cur
PastCrlf(n) == cur + n + 2
Advanced(n) == cur + n
SizeSum(a, b) == (a + b) % (SizeMax + 1)
RoomInWhole == IF Chunk.length > len THEN len ELSE Chunk.length
RoomForChunk == IF SizeSum(recved, Chunk.length) > len THEN len - recved ELSE Chunk.length
RecvChunkData(ok) ==
    LET n == RoomForChunk
    IN  /\ pc = "chunk_data"
        /\ IF n = 0 THEN Goto("aborted")
           ELSE IF ~ok THEN Fail("err_recv_response")
           ELSE IF n > len - recved THEN Goto("overrun")
           ELSE /\ buf' = Stored(cur, recved, n)
                /\ cur' = Advanced(n)
                /\ recved' = recved + n
                /\ IF n < Chunk.length
                     THEN len' = recved' /\ ret' = "err_response_body_too_long" /\ pc' = "done"
                     ELSE pc' = "chunk_end" /\ UNCHANGED <<len, ret>>
                /\ UNCHANGED <<inputs, next_field, header_fields, next_chunk>>

\* The CRLF after the data of a chunk.
RecvChunkEnd(ok) ==
    /\ pc = "chunk_end"
    /\ IF ~ok THEN Fail("err_recv_response")
       ELSE IF ~Chunk.crlf THEN Fail("err_response_body_parse")
       ELSE Goto("chunk_size")

\* The end of __recv: the status code is returned.
ReturnStatus ==
    /\ pc = "finish"
    /\ ret' = "status" /\ pc' = "done"
    /\ UNCHANGED <<inputs, len, next_field, header_fields, body>>

\* get::cancel and post::cancel, while an await other than send is in progress.
Cancel ==
    /\ pc \in {"dns", "connect", "head", "body", "chunk_size", "chunk_data", "chunk_end"}
    /\ len' = 0 /\ pc' = "canceled"
    /\ UNCHANGED <<inputs, ret, next_field, header_fields, body>>

-----------------------------------------------------------------------------
Step ==
    \/ UrlParse \/ ParseField \/ HeaderParsed \/ ReturnStatus
    \/ \E ok \in BOOLEAN :
        \/ DnsResolve(ok) \/ Connect(ok) \/ SendHeader(ok) \/ SendBody(ok) \/ RecvHeader(ok)
        \/ RecvBody(ok) \/ RecvChunkSize(ok) \/ RecvChunkData(ok) \/ RecvChunkEnd(ok)

HttpNext == Step \/ Cancel

\* Code that does not wait goes on, and what is awaited is answered or fails.
HttpSpec == HttpInit /\ [][HttpNext]_httpVars /\ WF_httpVars(Step)

-----------------------------------------------------------------------------
\* Type invariant.
Values == {"unfinished", "status", "err_url_parse", "err_dns_resolve", "err_tcp_connect",
           "err_send_request", "err_recv_response", "err_response_header_parse",
           "err_response_body_parse", "err_response_body_too_long"}
Places == {"url", "dns", "connect", "send", "send_body", "head", "fields", "trimming", "body",
           "chunk_size", "chunk_data", "chunk_end", "finish"} \cup Over
HttpTypeOK ==
    /\ ret \in Values /\ pc \in Places
    /\ len \in 0..size /\ recved \in 0..size /\ cur \in 1..(size + 1)
    /\ DOMAIN buf = 1..size /\ Range(buf) \subseteq Nat
    /\ next_field \in 0..Len(rsp.fields) /\ next_chunk \in 0..Len(rsp.chunks)
    /\ header_fields \subseteq Range(rsp.fields)

\* What a url means, without pointers: at most one "@", which ends the user part,
\* and at most one ":" in each part, which begins password or port.
Count(s, c) == Cardinality({i \in DOMAIN s : s[i] = c})
First(s, c) == IF Count(s, c) = 0 THEN 0 ELSE CHOOSE i \in DOMAIN s :
                  s[i] = c /\ \A j \in DOMAIN s : s[j] = c => i <= j
Before(s, c) == IF First(s, c) = 0 THEN s ELSE SubSeq(s, 1, First(s, c) - 1)
After(s, c) == IF First(s, c) = 0 THEN <<>> ELSE SubSeq(s, First(s, c) + 1, Len(s))
UserPart(a) == IF Count(a, "@") = 0 THEN <<>> ELSE Before(a, "@")
HostPart(a) == IF Count(a, "@") = 0 THEN a ELSE After(a, "@")
PortPart(a) == After(HostPart(a), ":")
WellFormed(a) ==
    /\ Count(a, "@") <= 1
    /\ Count(UserPart(a), ":") <= 1 /\ Count(HostPart(a), ":") <= 1
    /\ "!" \notin Range(Before(HostPart(a), ":"))
    /\ Range(PortPart(a)) \subseteq {"0", "1"}
GoodPort(port) == port = <<>> \/ Number(port) \in 1..MaxPort

\* url_parse, with its ten pointers and one pass over the text, accepts every
\* well-formed authority with a good port, and no other but those whose port no
\* int holds (atoi takes 4294967297 for 1), and takes each apart correctly.
UrlTakenApart ==
    LET u == url_parse(url)
        a == url.authority
        port == PortPart(a)
    IN  pc = "url" /\ url.scheme = "http" =>
            /\ WellFormed(a) /\ GoodPort(port) => u.err = 0
            /\ u.err = 0 =>
                /\ WellFormed(a) /\ (GoodPort(port) \/ Number(port) > IntMax)
                /\ u.user = Before(UserPart(a), ":") /\ u.password = After(UserPart(a), ":")
                /\ u.host = Before(HostPart(a), ":")
                /\ u.port = Number(port) \/ Number(port) > IntMax

\* A header in which every field is legal and none that matters is there twice, and
\* one that gives the length of the body.
GoodHeader ==
    /\ StatusLineLegal /\ rsp.whole
    /\ \A f \in Range(rsp.fields) : f.key # "illegal" /\ GoodValue(f)
    /\ \A i, j \in DOMAIN rsp.fields :
        rsp.fields[i].key = rsp.fields[j].key /\ Needed(rsp.fields[i]) => i = j
LengthGiven == \E f \in Range(rsp.fields) : Needed(f)

\* __recv reads a body only after a header in which every field is legal and the
\* length is given once, and rejects no such header.
HeaderJudged ==
    /\ pc \in {"body", "chunk_size", "chunk_data", "chunk_end", "finish"} =>
        GoodHeader /\ (size = 0 \/ LengthGiven)
    /\ ret = "err_response_header_parse" => ~(GoodHeader /\ (size = 0 \/ LengthGiven))

\* What the client is given, by the program and by the server, is read right.
InputsJudged == UrlTakenApart /\ HeaderJudged

\* The body the server announced: chunks up to the first that is empty or illegal.
Sums(chunks) ==
    LET sum[i \in 0..Len(chunks)] == IF i = 0 THEN 0 ELSE sum[i - 1] + chunks[i].length
    IN  sum
ChunkedLength(chunks) ==
    LET last == SelectInSeq(chunks, LAMBDA c : c.length <= 0)
    IN  Sums(chunks)[IF last = 0 THEN Len(chunks) ELSE last - 1]
Announced == IF Has("transfer-encoding") THEN ChunkedLength(rsp.chunks) ELSE BodyLen

\* The room a recv_till is given for a chunk lies in the caller's buffer, after the
\* bytes already there, as long as the sum of their number and the length of the
\* chunk is a size_t; when it is not, the room begins in the buffer and ends beyond.
RoomInBuffer ==
    pc = "chunk_data" =>
        (cur + RoomForChunk <= size + 1 <=> recved + Chunk.length <= SizeMax)

\* What the caller is told is true: a status means that the buffer holds the
\* whole body (unless none was asked for), err_response_body_too_long that it
\* is filled with the beginning of a longer one, and after any other error or
\* a cancellation no byte is claimed.  The program is aborted only when chunks
\* fill the buffer exactly and another follows, and bytes are written past the
\* buffer only when their number would not be a size_t.
ResultTruthful ==
    /\ pc = "done" /\ ret = "status" => size = 0 \/ len = Announced
    /\ ret = "err_response_body_too_long" => len = size /\ Announced > size
    /\ pc = "done" => len = 0 \/ (ret \in {"status", "err_response_body_too_long"}
                                    /\ \A i \in 1..len : buf[i] = i)
    /\ pc = "canceled" => len = 0 /\ ret = "unfinished"
    /\ pc = "aborted" => recved = size /\ Announced > size
    /\ pc = "overrun" => Announced > SizeMax

\* Every request ends with a value in ret, unless it is canceled or comes to one of
\* the two ends above.
RequestEnds == <>(pc \in Over)

=============================================================================
