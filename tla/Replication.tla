---------------------------- MODULE Replication ----------------------------
(***************************************************************************)
(* One GET of internal/coralogix/client.go and the text of its error,      *)
(* replicate.go: the request, the response as far as there was one, and a  *)
(* curl command that sends the request again once the API key is put in.   *)
(*                                                                         *)
(* A URL, a query and a header value are values; a body is the number of   *)
(* its bytes that arrive, and what is shown of it is its beginning.        *)
(***************************************************************************)
EXTENDS ApiCalls, Integers, Sequences, SequencesExt

CONSTANTS
  Calls,            \* what is asked for: [kind, url, query]
  Key,              \* c.apiKey
  ResponseHeaders,  \* header fields that the server may send
  BodyLimit,        \* maxDiagnosticBody
  ExcerptLimit,     \* the n of truncate (4096)
  MaxSize           \* bound of the bytes that arrive of a body

NoValue == ""

\* The value of the Authorization field begins with "Bearer ".
ASSUME KeyAssumption    == Key # NoValue
ASSUME CallsAssumption  == \A c \in Calls : c.kind \in {"metrics", "list", "dashboard"}
ASSUME LimitsAssumption == BodyLimit \in Nat /\ ExcerptLimit \in Nat /\ MaxSize \in Nat

VARIABLES
  pc,      \* where the call is
  call,    \* what it asks for
  req,     \* the http.Request of get
  answer,  \* what ApiCalls says of the answer
  size,    \* the bytes of the body that arrive
  header,  \* resp.Header
  err      \* the error it ends with

callVars == <<pc, call, req, answer, size, header, err>>

\* The header fields in alphabetical order, which stands for sort.Strings.
FieldNames == <<"Authorization", "Content-Type", "Cookie", "Date", "Set-Cookie">>
\* The same with the secrets last, as curlHeaderLines puts them.
CurlFieldNames == <<"Content-Type", "Date", "Set-Cookie", "Cookie", "Authorization">>
Secrets    == {"Authorization", "Cookie"}
Redacted   == "redacted"
None       == [is |-> "none"]

-----------------------------------------------------------------------------
(* replicate.go.                                                           *)

RedactedHeadersCopy(h) ==
  [f \in DOMAIN h |-> IF f \in Secrets /\ Head(h[f]) # NoValue THEN <<Redacted>> ELSE h[f]]

\* A line for each value of each of the fields, in their order.
Lines(h, fields) ==
  FlattenSeq([i \in DOMAIN fields |->
    IF fields[i] \in DOMAIN h
      THEN [j \in DOMAIN h[fields[i]] |-> <<fields[i], h[fields[i]][j]>>]
      ELSE <<>>])

SortedHeaderLines(h) == Lines(h, FieldNames)

CurlHeaderLines(h) ==
  Lines(RedactedHeadersCopy(h), CurlFieldNames)

\* What is shown of a body, and whether the text says that it is cut.
Nothing == [shown |-> 0, cut |-> FALSE]

\* formatHTTPReplication; every line of the command but the last is continued.
Replicate(request, response) ==
  LET lines == CurlHeaderLines(request.header)
  IN  [is       |-> "text",
       url      |-> <<request.url, request.query>>,
       request  |-> SortedHeaderLines(RedactedHeadersCopy(request.header)),
       response |-> response,
       curl     |-> [i \in DOMAIN lines |->
                       [line |-> lines[i], continued |-> i # Len(lines)]]]

\* The response part, with the error body as far as it was read.
Response(body) ==
  [is |-> "response", ok |-> answer.ok, header |-> SortedHeaderLines(header), body |-> body]

\* readResponseBodyLimited: one byte more than the limit tells a longer body.
ReadShort(n, whole) ==                       \* mutant: does not ask for that byte
  IF ~whole /\ n < BodyLimit THEN None
  ELSE [is |-> "body", shown |-> IF n > BodyLimit THEN BodyLimit ELSE n, cut |-> FALSE]
ReadResponseBodyLimited(n, whole) ==
  IF ~whole /\ n <= BodyLimit THEN None
  ELSE [is |-> "body", shown |-> IF n > BodyLimit THEN BodyLimit ELSE n, cut |-> n > BodyLimit]

Truncate(n) ==
  IF n <= ExcerptLimit THEN [shown |-> n, cut |-> FALSE]
  ELSE [shown |-> ExcerptLimit, cut |-> TRUE]

\* The request as get builds it, and as formatGETReplication builds it again.
RequestOf(c) ==
  [url |-> c.url, query |-> c.query,
   header |-> [f \in {"Authorization", "Content-Type"} |->
                 IF f = "Authorization" THEN <<Key>> ELSE <<"application/json">>]]

ReplicaBare(c) == [RequestOf(c) EXCEPT !.query = "none"]     \* mutant: no query
ReplicaOf(c) ==
  [url |-> c.url, query |-> c.query,
   header |-> [f \in {"Content-Type", "Authorization"} |->
                 IF f = "Content-Type" THEN <<"application/json">> ELSE <<Key>>]]

-----------------------------------------------------------------------------
(* client.go: get, and what its callers do with the body.                  *)

CallInit ==
  /\ pc = "build"
  /\ call \in Calls
  /\ req = None
  /\ answer \in Answer
  /\ size \in 0..MaxSize
  /\ header \in ResponseHeaders
  /\ err = None

\* The call ends with this error; excerpt is what the error shows of the body
\* outside of its replication.
Ends(step, kind, excerpt, text) ==
  /\ pc = step
  /\ pc' = "done"
  /\ err' = [is |-> kind, excerpt |-> excerpt, text |-> text]
  /\ UNCHANGED <<call, req, answer, size, header>>

Passes(step, next) ==
  /\ pc = step
  /\ pc' = next
  /\ UNCHANGED <<call, req, answer, size, header, err>>

Build ==
  /\ pc = "build"
  /\ pc' = "sent"
  /\ req' = RequestOf(call)
  /\ UNCHANGED <<call, answer, size, header, err>>

\* c.HTTP.Do fails.
TransportFails == ~answer.arrives /\ Ends("sent", "transport", Nothing, Replicate(req, None))

Arrives == answer.arrives /\ Passes("sent", "status")

\* The status is not 2xx: as much of the body as fits is put into the error.
BadStatus ==
  LET body == ReadResponseBodyLimited(size, answer.whole) IN
  /\ ~answer.ok
  /\ IF body = None
       THEN Ends("status", "read", Nothing, Replicate(req, Response(Nothing)))
       ELSE Ends("status", "status", Nothing,
                 Replicate(req, Response([shown |-> body.shown, cut |-> body.cut])))

\* io.ReadAll of the body of an answer with a good status.
BodyFails ==
  /\ answer.ok
  /\ ~answer.whole
  /\ Ends("status", "read", Nothing, Replicate(req, Response(Nothing)))

BodyReadUnchecked == answer.ok /\ Passes("status", "decode")   \* mutant: error dropped
BodyRead == answer.ok /\ answer.whole /\ Passes("status", "decode")

\* The callers of the metrics API quote the body, or only its data, of which
\* there are no more bytes than of the body.
DecodeFails ==
  \/ /\ call.kind = "metrics"
     /\ answer.body \notin {"expected", "noData"}
     /\ \E n \in (IF answer.body = "mistyped" THEN 0..size ELSE {size}) :
          Ends("decode", "decode", Truncate(n), Replicate(ReplicaOf(call), None))
  \/ /\ call.kind = "list"
     /\ answer.body \in {"mistyped", "garbage"}
     /\ Ends("decode", "decode", Nothing, None)

Decoded ==
  \/ call.kind = "metrics" /\ answer.body \in {"expected", "noData"} /\ Passes("decode", "done")
  \/ call.kind = "list" /\ answer.body \notin {"mistyped", "garbage"} /\ Passes("decode", "done")
  \/ call.kind = "dashboard" /\ Passes("decode", "done")

CallNext ==
  \/ Build \/ TransportFails \/ Arrives \/ BadStatus \/ BodyFails \/ BodyRead
  \/ DecodeFails \/ Decoded
  \/ pc = "done" /\ UNCHANGED callVars

CallSpec == CallInit /\ [][CallNext]_callVars

-----------------------------------------------------------------------------
(* Properties.                                                             *)

\* The command of a text is a request again: its URL and query, and each header
\* line once, with the key nowhere and its place on the last line, which alone
\* ends the command.
Replays(text, request) ==
  LET sent == SortedHeaderLines(request.header)
      curl == [i \in DOMAIN text.curl |-> text.curl[i].line]
      hidden(line) == IF line[1] \in Secrets THEN <<line[1], Redacted>> ELSE line
  IN  /\ text.url = <<request.url, request.query>>
      /\ Len(curl) = Len(sent)
      /\ ToSet(curl) = {hidden(line) : line \in ToSet(sent)}
      /\ ToSet(text.request) = ToSet(curl)
      /\ curl[Len(curl)][1] = "Authorization"
      /\ \A i \in DOMAIN curl : text.curl[i].continued <=> i < Len(curl)

\* The command in the text of an error is the request that was sent, wherever
\* the request was put together.
RequestReplayed == err # None /\ err.text # None => Replays(err.text, req)

\* n bytes of a body are quoted as it is, within the limit: all of them, or
\* the first ones and a note that it goes on.
QuotedWell(quote, n, limit) ==
  /\ quote.shown <= limit
  /\ IF quote.cut THEN quote.shown < n ELSE quote.shown = n

\* An error that quotes a body quotes it well: one that ends exactly at the
\* limit is not called cut, and one that breaks off is not passed off as whole.
BodyNotMisquoted ==
  err # None =>
    /\ err.is = "status" =>
         LET body == err.text.response.body
         IN  QuotedWell(body, size, BodyLimit) /\ (~body.cut => answer.whole)
    /\ err.is = "decode" /\ err.text # None =>
         \E n \in (IF answer.body = "mistyped" THEN 0..size ELSE {size}) :
           QuotedWell(err.excerpt, n, ExcerptLimit)

\* What ApiCalls makes of the answer.
Outcome == CASE call.kind = "metrics"   -> PrometheusDataOf(answer)
             [] call.kind = "list"      -> ListOf(answer)
             [] call.kind = "dashboard" -> BodyOf(answer)

\* The outcome of a call is the one that the scan is modelled with.
OutcomeIsApiCalls == pc = "done" => (err # None <=> Outcome = "error")
=============================================================================
