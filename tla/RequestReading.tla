---------------------------- MODULE RequestReading ----------------------------
(***************************************************************************)
(* The bytes of one request arrive in a connection's buffer, and parse     *)
(* looks at what is there (HttpRequest): src/server.rs reads until parse   *)
(* decides or the buffer is full.                                          *)
(***************************************************************************)
EXTENDS HttpRequest

CONSTANTS
  Messages,            \* what the peer may send
  Texts                \* what may stand for a token

Message ==
  [head_end: Nat, head: {"ok", "TooManyHeaders", "MalformedRequest"}, version: {0, 1},
   headers: Seq(Header), method: STRING, path: STRING,
   query: Seq([name: STRING, ok: BOOLEAN]), two_marks: BOOLEAN,
   body: [valid: BOOLEAN, stream_id: Nat, token_form: STRING, token: Seq(0..10)]]

ASSUME ReadingAssumption ==
  /\ \A m \in Messages : m \in Message
  /\ \A t \in Texts : t \in Seq(0..10)

VARIABLES message, received

requestVars == <<message, received>>

ReadInit == message \in Messages /\ received = 0

(* Bytes arrive one by one: parse sees every length a read may stop at.    *)
Receive ==
  /\ received < MAX_REQUEST_BYTES
  /\ received' = received + 1
  /\ UNCHANGED message

ReadSpec == ReadInit /\ [][Receive]_requestVars

-----------------------------------------------------------------------------
(* Properties.                                                             *)

(* The number that the first i digits stand for, of any size.              *)
Value(digits) ==
  LET value[i \in 0..Len(digits)] == IF i = 0 THEN 0 ELSE 10 * value[i - 1] + digits[i]
  IN  value

(* What is known of a request that is acted on.                            *)
IsUnambiguous(m, n) ==
  LET hs == m.headers
      lengths == Named(hs, "content-length")
      digits == hs[CHOOSE i \in lengths : TRUE].digits
  IN  /\ Cardinality({i \in Named(hs, "host") : hs[i].ok}) = 1
      /\ Named(hs, "transfer-encoding") = {}
      /\ Cardinality(lengths) <= 1
      /\ n = m.head_end + (IF lengths = {} THEN 0 ELSE Value(digits)[Len(digits)])
      /\ m.path = "/v1/scenarios/confirm" =>
           \A t \in Texts :
             parse_canonical_decimal_token(t) = Value(m.body.token)[Len(m.body.token)]
               <=> t = m.body.token

(* The text of a request that is acted on has one reading.  However it is  *)
(* cut into segments it is decided when all of it has arrived and no       *)
(* prefix was; a refusal stands; a full buffer is decided, so nobody waits *)
(* for bytes it cannot take.  It has one valid host, no transfer encoding  *)
(* and at most one length, and ends where that length, a number of any     *)
(* size, says.  A token of the controller has exactly one text that names  *)
(* it.                                                                     *)
RequestsHaveOneReading ==
  /\ WaitsForAll(message, received)
  /\ RefusalStands(message, received)
  /\ FullIsDecided(message, received)
  /\ parse(message, received) = Complete => IsUnambiguous(message, received)
=============================================================================
