--------------------------- MODULE ConnectResponse ---------------------------
(***************************************************************************)
(* internal/connectresponse: one HTTP response on its way to Connect. Do   *)
(* decides from the headers whether it is passed on, refused or            *)
(* normalized; a normalized body is decoded while Connect reads it (gzip,  *)
(* a byte order mark); what Connect makes of the body then goes through    *)
(* mapHostError. The network, net/http, gzip and Connect are external.     *)
(*                                                                         *)
(* A body is a short sequence of bytes. It ends, or fails (a connection    *)
(* cut, a gzip checksum); like those of net/http and gzip it keeps         *)
(* reporting its end. How many bytes each read yields is open.             *)
(***************************************************************************)
EXTENDS HostErrors, Naturals, Sequences

CONSTANTS Contents   \* the bodies, decompressed

Mark == <<"EF", "BB", "BF">>
Json == <<"open", "close">>  \* a Connect error, whole
Bytes == {"EF", "BB", "BF", "open", "close"}

ASSUME ContentsAssumption == Contents \subseteq Seq(Bytes)

VARIABLES request,     \* the protocol spoken, and whether it is about an effect
          response,    \* what was answered
          pc,          \* Do, Connect reading the body, or how it ended
          initialized, \* connectJSONErrorBody: the first Read has run
          err,         \* connectJSONErrorBody: the sticky error
          buffer,      \* bufio: bytes read and not yet delivered
          pending,     \* bufio: how the source ended, not yet delivered
          at,          \* bytes the source yielded
          delivered,   \* bytes Connect got
          end,         \* how the body ended for Connect
          closes,      \* times the response's body was closed
          outcome      \* what the caller of the datasource client gets

body == <<initialized, err, buffer, pending, at, delivered, end>>
vars == <<request, response, pc, body, closes, outcome>>

Ends == {"none", "eof", "fail"}

\* status: 200 or an error. media: JSON as Connect spells it, in a spelling it
\* does not know (a charset), or another type. zip: the gzip header is good.
\* coded: the error names its code; inferred: the code the HTTP status suggests.
Responses == [ok : BOOLEAN, encoding : {"absent", "identity", "gzip", "other"},
              media : {"json", "spelled", "foreign"}, content : Contents,
              ending : {"eof", "fail"}, zip : BOOLEAN, coded : BOOLEAN,
              code : {"PermissionDenied", "Precondition"},
              inferred : {"PermissionDenied", "Unavailable"}]

\* An answer worth telling apart: a body is compressed or not, and a 200 has no
\* error in it.
Sensible(r) ==
  /\ r.zip \/ r.encoding = "gzip"
  /\ r.ok => r.coded /\ r.code = "Precondition" /\ r.inferred = "Unavailable"

TypeOK ==
  /\ pc \in {"do", "reading", "done", "abandoned", "unanswered"}
  /\ initialized \in BOOLEAN
  /\ err \in {"none", "gzip"}
  /\ buffer \in Seq(Bytes)
  /\ pending \in Ends
  /\ at \in 0..Len(response.content)
  /\ delivered \in Seq(Bytes)
  /\ end \in Ends
  /\ closes \in Nat
  /\ outcome \in Definite \cup {"none", "ok", "error", "DatasourceError", "OutcomeUnknown"}

Init ==
  /\ request \in [grpc : BOOLEAN, effect : BOOLEAN]
  /\ response \in {r \in Responses : Sensible(r)}
  /\ pc = "do"
  /\ initialized = FALSE /\ err = "none" /\ buffer = <<>> /\ pending = "none"
  /\ at = 0 /\ delivered = <<>> /\ end = "none"
  /\ closes = 0
  /\ outcome = "none"

-----------------------------------------------------------------------------
(* Client.Do. *)

Finish(how, o) == pc' = how /\ outcome' = o

\* (Slip: a refused response is left open.)
RefuseOpen ==
  /\ UNCHANGED closes
  /\ Finish("done", MapHostError(FALSE, "UnsupportedEncoding", request.effect))

\* Connect receives an error, not a body: nobody else will close it.
Refuse ==
  /\ closes' = closes + 1
  /\ Finish("done", MapHostError(FALSE, "UnsupportedEncoding", request.effect))

Refused(r) == r.encoding = "other"

\* (Slip: only the spelling that Connect knows is normalized.)
NormalizedAsSpelled(r) == ~r.ok /\ r.media = "json"

Normalized(r) == ~r.ok /\ r.media \in {"json", "spelled"}

\* External: Connect reads a response that is passed on by itself. gRPC's status
\* is in the trailers; an error body that is not JSON is no Connect error.
Unaided(r) ==
  CASE r.ok -> IF r.ending = "eof" THEN "ok"
               ELSE MapHostError(FALSE, r.inferred, request.effect)
    [] request.grpc /\ ~r.ok ->
         MapHostError(r.ending = "eof", IF r.ending = "eof" THEN r.code ELSE r.inferred,
                      request.effect)
    [] ~request.grpc /\ ~r.ok -> MapHostError(FALSE, r.inferred, request.effect)

PassOn ==
  /\ closes' = closes + 1
  /\ Finish("done", Unaided(response))

\* There is no response to read or to close.
NoResponse ==
  /\ pc = "do"
  /\ Finish("unanswered", MapHostError(FALSE, "Unavailable", request.effect))
  /\ UNCHANGED <<request, response, body, closes>>

Do ==
  /\ pc = "do"
  /\ CASE ~request.grpc /\ Refused(response) -> Refuse
       [] ~request.grpc /\ ~Refused(response) /\ Normalized(response) ->
            pc' = "reading" /\ UNCHANGED <<closes, outcome>>
       [] OTHER -> PassOn
  /\ UNCHANGED <<request, response, body>>

-----------------------------------------------------------------------------
(* connectJSONErrorBody. *)

Content == response.content
Upto(k) == SubSeq(Content, 1, k)
Least(a, b) == IF a < b THEN a ELSE b

\* Peek(3), and Discard(3) if it is a byte order mark.
Strip(s) == IF SubSeq(s, 1, Least(3, Len(s))) = Mark THEN SubSeq(s, 4, Len(s)) ELSE s

\* (Slip: how the source ended comes before what it had yielded.)
ServeEndFirst(b, p, k) ==
  /\ at' = k
  /\ \/ /\ p # "none"
        /\ end' = p /\ buffer' = b /\ pending' = "none" /\ UNCHANGED delivered
     \/ /\ b # <<>> /\ p = "none"
        /\ delivered' = delivered \o b
        /\ buffer' = <<>> /\ pending' = "none" /\ UNCHANGED end
     \/ /\ b = <<>> /\ p = "none" /\ k = Len(Content)
        /\ end' = response.ending
        /\ UNCHANGED <<buffer, delivered, pending>>

\* bufio.Reader.Read with b buffered, p pending and k bytes of the source used:
\* what is buffered; else the pending end; else one more read of the source, which
\* may come with the end.
Serve(b, p, k) ==
  \/ /\ b # <<>>
     /\ \E n \in 1..Len(b) :
          /\ delivered' = delivered \o SubSeq(b, 1, n)
          /\ buffer' = SubSeq(b, n + 1, Len(b))
     /\ pending' = p /\ at' = k /\ UNCHANGED end
  \/ /\ b = <<>> /\ p # "none"
     /\ end' = p /\ pending' = "none" /\ buffer' = b /\ at' = k /\ UNCHANGED delivered
  \/ /\ b = <<>> /\ p = "none" /\ k = Len(Content)
     /\ end' = response.ending
     /\ pending' = p /\ buffer' = b /\ at' = k /\ UNCHANGED delivered
  \/ /\ b = <<>> /\ p = "none"
     /\ \E m \in (k + 1)..Len(Content), n \in 1..(Len(Content) - k),
           ended \in {"later", "buffered", "now"} :
          /\ k + n <= m /\ (ended # "later" => m = Len(Content))
          /\ ended = "now" => k + n = m
          /\ delivered' = delivered \o SubSeq(Content, k + 1, k + n)
          /\ buffer' = SubSeq(Content, k + n + 1, m)
          /\ pending' = IF ended = "buffered" THEN response.ending ELSE "none"
          /\ end' = IF ended = "now" THEN response.ending ELSE end
          /\ at' = m

\* Peek reads until it has three bytes or the source ends. It drops the end it
\* ran into when there were fewer: the source will report it again.
Peeked(k, ended) == IF ended /\ k >= 3 THEN response.ending ELSE "none"

\* The first Read opens the body.
Open ==
  /\ ~initialized /\ initialized' = TRUE
  /\ IF response.zip
     THEN /\ \E k \in Least(3, Len(Content))..Len(Content), ended \in BOOLEAN :
               /\ ended => k = Len(Content)
               /\ k < 3 => ended
               /\ Serve(Strip(Upto(k)), Peeked(k, ended), k)
          /\ UNCHANGED err
     ELSE /\ err' = "gzip" /\ end' = "fail"
          /\ UNCHANGED <<buffer, pending, at, delivered>>

\* (Slip: the failure to open is returned once and not remembered.)
ReopenUnguarded ==
  /\ initialized
  /\ IF err = "none" THEN Serve(buffer, pending, at) /\ UNCHANGED pc
     ELSE pc' = "panic" /\ UNCHANGED <<buffer, pending, at, delivered, end>>
  /\ UNCHANGED <<initialized, err>>

\* Every further Read: there is no reader to read from after a failure to open.
Reread ==
  /\ initialized
  /\ IF err = "none" THEN Serve(buffer, pending, at)
     ELSE end' = "fail" /\ UNCHANGED <<buffer, pending, at, delivered>>
  /\ UNCHANGED <<initialized, err, pc>>

\* External: Connect reads to the end, and on after it (it drains what it closes).
Read ==
  /\ pc = "reading"
  /\ \/ Open /\ UNCHANGED pc
     \/ Reread
  /\ UNCHANGED <<request, response, closes, outcome>>

\* External: what Connect decodes. A code that is missing is taken from the HTTP
\* status, and counts as decoded.
Decoded == end = "eof" /\ delivered = Json
DecodedCode == IF Decoded /\ response.coded THEN response.code ELSE response.inferred

\* External: Connect has read to the end; Close reaches the response's body.
Close ==
  /\ pc = "reading" /\ end # "none"
  /\ closes' = closes + 1
  /\ Finish("done", MapHostError(Decoded, DecodedCode, request.effect))
  /\ UNCHANGED <<request, response, body>>

\* External: Connect gives up early (a cancelled context, its limit on size).
Abandon ==
  /\ pc = "reading" /\ end = "none"
  /\ closes' = closes + 1
  /\ Finish("abandoned", MapHostError(FALSE, "DeadlineExceeded", request.effect))
  /\ UNCHANGED <<request, response, body>>

Next == NoResponse \/ Do \/ Read \/ Close \/ Abandon

Spec == Init /\ [][Next]_vars

-----------------------------------------------------------------------------
(* Properties. *)

\* "Connect retains responsibility for read failures" (connectresponse.go:66):
\* however the source cuts its bytes up, Connect gets exactly the bytes after one
\* byte order mark, all that came before a failure, and the end that the source
\* had, never a shorter body that looks complete.
BodyAsSent ==
  /\ response.zip /\ initialized => \E k \in 0..Len(Content) : delivered \o buffer = Strip(Upto(k))
  /\ end = "eof" => response.zip /\ response.ending = "eof"
  /\ end # "none" /\ response.zip =>
       end = response.ending /\ delivered = Strip(Content)

\* "Close here because Connect receives an error, not a body"
\* (connectresponse.go:44): whichever way a response takes, its body is closed
\* exactly once, and not before it was read.
ClosedOnce == closes = IF pc \in {"done", "abandoned"} THEN 1 ELSE 0

\* "Read one response the same way" (connectresponse.go:2), and "No body or HTTP
\* status can establish an RPC outcome when its encoding is unsupported"
\* (connectresponse.go:42): the caller gets the host's error with its meaning
\* whether it came compressed or not, marked or not, and whichever way its content
\* type spells JSON; and the caller of an effect concludes that it did not happen
\* from nothing but an error that was read whole and decoded.
ErrorIsTheHosts ==
  ~request.grpc =>
    /\ /\ pc = "done" /\ ~response.ok
       /\ response.coded /\ Content \in {Json, Mark \o Json}
       /\ response.encoding # "other" /\ response.media # "foreign"
       /\ response.zip /\ response.ending = "eof"
       => outcome = Meaning(response.code, request.effect)
    /\ request.effect /\ outcome \in Definite =>
         Decoded /\ response.ending = "eof" /\ response.encoding # "other"

=============================================================================
