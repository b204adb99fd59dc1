----------------------------- MODULE HttpRequest -----------------------------
(***************************************************************************)
(* src/management.rs: from the bytes received so far on a management       *)
(* connection to a request, an error or "not yet".  Only operators; the    *)
(* connections that call parse are in ManagementPlane.                     *)
(*                                                                         *)
(* A message is what a peer sends, as a record: after how many bytes       *)
(* httparse decides on the head (head_end) and how (head), and what the    *)
(* head and the body say.  Decimal numbers are sequences of digits, 10     *)
(* standing for any byte that is not a digit.                              *)
(***************************************************************************)
EXTENDS Integers, Sequences, FiniteSets

CONSTANTS
  MAX_REQUEST_BYTES,
  WORD_MAX            \* largest value of u64 and usize

ASSUME HttpAssumption ==
  /\ MAX_REQUEST_BYTES \in Nat \ {0}
  /\ WORD_MAX \in Nat
  /\ MAX_REQUEST_BYTES <= WORD_MAX

-----------------------------------------------------------------------------
(* Decimal numbers.                                                        *)

NoNumber == -1

(* checked_mul(10), then checked_add of the digit.                         *)
AppendDigit(number, digit) ==
  IF number = NoNumber \/ number * 10 + digit > WORD_MAX THEN NoNumber
  ELSE number * 10 + digit

IsDecimal(bytes) == bytes # <<>> /\ \A i \in DOMAIN bytes : bytes[i] \in 0..9

(* The number after the first i digits, for every i.                       *)
Decimal(bytes) ==
  LET number[i \in 0..Len(bytes)] ==
        IF i = 0 THEN 0 ELSE AppendDigit(number[i - 1], bytes[i])
  IN  number

(* parse_content_length and parse_decimal_u64.                             *)
parse_decimal(bytes) ==
  IF IsDecimal(bytes) THEN Decimal(bytes)[Len(bytes)] ELSE NoNumber

IsCanonical(bytes) == IsDecimal(bytes) /\ bytes[1] # 0

parse_canonical_decimal_token(bytes) ==
  IF IsCanonical(bytes) THEN Decimal(bytes)[Len(bytes)] ELSE NoNumber

-----------------------------------------------------------------------------
(* The head of a request.                                                  *)

(* ok: the value passes the test for its name (is_valid_host after leading *)
(* blanks, is_json_content_type); digits: the value of a content-length.   *)
Header ==
  [name: {"host", "transfer-encoding", "content-length", "content-type", "other"},
   ok: BOOLEAN, digits: Seq(0..10)]

Named(headers, name) == {i \in DOMAIN headers : headers[i].name = name}

HeaderError(headers, i) ==
  LET h == headers[i]
      repeated == \E j \in Named(headers, h.name) : j < i
  IN  CASE h.name = "host" /\ ~h.ok -> "InvalidHost"
        [] h.name = "transfer-encoding" -> "UnsupportedTransferEncoding"
        [] h.name = "content-length" /\ repeated -> "DuplicateContentLength"
        [] h.name = "content-length" /\ parse_decimal(h.digits) = NoNumber
             -> "InvalidContentLength"
        [] h.name = "content-type" /\ repeated -> "DuplicateContentType"
        [] OTHER -> "None"

(* The first header with an error decides; the host is counted at the end. *)
inspect_headers(headers) ==
  LET bad == {i \in DOMAIN headers : HeaderError(headers, i) # "None"}
      hosts == Cardinality(Named(headers, "host"))
  IN  CASE bad # {} -> HeaderError(headers, CHOOSE i \in bad : \A j \in bad : i <= j)
        [] bad = {} /\ hosts = 0 -> "MissingHost"
        [] bad = {} /\ hosts > 1 -> "DuplicateHost"
        [] OTHER -> "None"

(* RequestFraming::content_length, after inspect_headers succeeded.        *)
HasLength(m) == Named(m.headers, "content-length") # {}
BodyLength(m) ==
  IF HasLength(m)
    THEN parse_decimal(m.headers[CHOOSE i \in Named(m.headers, "content-length") : TRUE].digits)
    ELSE 0

GetPaths == {"/healthz", "/readyz", "/metrics", "/v1/catalog", "/v1/state"}
PostPaths ==
  {"/v1/scenarios/prepare", "/v1/scenarios/confirm", "/v1/scenarios/clear",
   "/v1/scenarios/cancel"}

(* A query is a sequence of parameters [name, ok]; <<>> is no query.  ok:  *)
(* the value is "console-v1", respectively a well-formed cursor.  "bare"   *)
(* names a parameter without "=", or an empty query.                       *)

(* parse_console_state_route and parse_console_cursor: exactly one format, *)
(* at most one cursor, nothing else; all failures are the same error.      *)
IsConsoleQuery(query) ==
  /\ \A i \in DOMAIN query : query[i].ok /\ query[i].name \in {"format", "cursor"}
  /\ Cardinality(Named(query, "format")) = 1
  /\ Cardinality(Named(query, "cursor")) <= 1

(* two_marks: the target has a second "?".                                 *)
route_for(m) ==
  IF m.two_marks THEN "InvalidQuery"
  ELSE IF m.path \notin GetPaths \cup PostPaths THEN "UnknownPath"
  ELSE IF m.path \in GetPaths /\ m.method # "GET" THEN "MethodNotAllowed(Get)"
  ELSE IF m.path \in PostPaths /\ m.method # "POST" THEN "MethodNotAllowed(Post)"
  ELSE IF m.query # <<>> /\ ~(m.path = "/v1/state" /\ IsConsoleQuery(m.query))
    THEN "InvalidQuery"
  ELSE "None"

requires_json_body(m) == m.path \in PostPaths

-----------------------------------------------------------------------------
(* The body [valid, stream_id, token_form, token].  valid: it is a JSON    *)
(* object of the route's type without unknown fields; token_form: the JSON *)
(* type of its token, "string", "number" or "other".                       *)

TokenForms(path) ==
  IF path = "/v1/scenarios/confirm" THEN {"string", "number"} ELSE {"string"}

(* parse_prepare, parse_clear, parse_confirm and parse_cancel.             *)
BodyError(path, body) ==
  CASE ~body.valid -> "InvalidJsonBody"
    [] body.valid /\ path \in {"/v1/scenarios/prepare", "/v1/scenarios/clear"} ->
         IF body.stream_id = 0 THEN "InvalidTarget" ELSE "None"
    [] OTHER ->
         IF \/ body.token_form \notin TokenForms(path)
            \/ parse_canonical_decimal_token(body.token) = NoNumber
           THEN "InvalidToken" ELSE "None"

-----------------------------------------------------------------------------
(* parse, after n bytes of message m.                                      *)

Incomplete == [tag |-> "Incomplete", error |-> "None"]
Failed(error) == [tag |-> "Error", error |-> error]
Complete == [tag |-> "Complete", error |-> "None"]

incomplete_or_at_limit(length) ==
  IF length = MAX_REQUEST_BYTES THEN Failed("IncompleteAtLimit") ELSE Incomplete

(* What the head alone decides, in the order parse looks at it.            *)
HeadError(m) ==
  LET framing == inspect_headers(m.headers)
      route == route_for(m)
      media == requires_json_body(m)
               /\ \E i \in Named(m.headers, "content-type") : ~m.headers[i].ok
  IN  IF m.head # "ok" THEN m.head
      ELSE IF m.version # 1 THEN "UnsupportedHttpVersion"
      ELSE IF framing # "None" THEN framing
      ELSE IF route # "None" THEN route
      ELSE IF media THEN "UnsupportedMediaType"
      ELSE IF requires_json_body(m) /\ ~HasLength(m) THEN "ContentLengthRequired"
      ELSE IF BodyLength(m) > MAX_REQUEST_BYTES THEN "BodyTooLarge"
      ELSE IF ~requires_json_body(m) /\ BodyLength(m) # 0 THEN "BodyNotAllowed"
      ELSE IF m.head_end + BodyLength(m) > MAX_REQUEST_BYTES THEN "RequestTooLarge"
      ELSE "None"

RequestEnd(m) == m.head_end + BodyLength(m)

(* Fault: bytes behind the request are left alone.                         *)
parse_ignoring_trailing(m, n) ==
  IF n < m.head_end THEN incomplete_or_at_limit(n)
  ELSE IF HeadError(m) # "None" THEN Failed(HeadError(m))
  ELSE IF n < RequestEnd(m) THEN incomplete_or_at_limit(n)
  ELSE IF requires_json_body(m) /\ BodyError(m.path, m.body) # "None"
    THEN Failed(BodyError(m.path, m.body))
  ELSE Complete

parse(m, n) ==
  IF n > MAX_REQUEST_BYTES THEN Failed("RequestTooLarge")
  ELSE IF n < m.head_end THEN incomplete_or_at_limit(n)
  ELSE IF HeadError(m) # "None" THEN Failed(HeadError(m))
  ELSE IF n < RequestEnd(m) THEN incomplete_or_at_limit(n)
  ELSE IF n > RequestEnd(m) THEN Failed("TrailingData")
  ELSE IF requires_json_body(m) /\ BodyError(m.path, m.body) # "None"
    THEN Failed(BodyError(m.path, m.body))
  ELSE Complete

-----------------------------------------------------------------------------
(* What the arrival of a message in pieces may not change.                 *)

(* A request is acted on at one length only: before it the connection      *)
(* waits, whatever the pieces it arrives in.                               *)
WaitsForAll(m, n) ==
  parse(m, n) = Complete => \A k \in 0..(n - 1) : parse(m, k) = Incomplete

(* A message that was refused is never acted on with more bytes.           *)
RefusalStands(m, n) ==
  parse(m, n).tag = "Error" => \A k \in (n + 1)..MAX_REQUEST_BYTES : parse(m, k) # Complete

(* A full receive buffer, which will never be read again, is decided.      *)
FullIsDecided(m, n) == n = MAX_REQUEST_BYTES => parse(m, n) # Incomplete
=============================================================================
