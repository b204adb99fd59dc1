----------------------------- MODULE MCTransport -----------------------------
(* Four parts around the sockets that share no state: the poll tokens, the   *)
(* bytes of one PDC connection, the bytes of one management request, and the *)
(* probe.  A behaviour is one of `part`; the others stay as they begin.      *)
EXTENDS EventTokens, CommandStream, RequestReading, Probe

H(name, ok, digits) == [name |-> name, ok |-> ok, digits |-> digits]
Lengths == {<<>>, <<0>>, <<2>>, <<5>>, <<0, 1>>, <<9, 9>>, <<1, 10>>, <<2, 7>>}
Headers ==
  {H("host", TRUE, <<>>), H("host", FALSE, <<>>), H("transfer-encoding", TRUE, <<>>),
   H("content-type", TRUE, <<>>), H("content-type", FALSE, <<>>), H("other", TRUE, <<>>)}
    \cup {H("content-length", TRUE, l) : l \in Lengths}

Digits == {0, 1, 2, 6, 10}
TokenTexts == UNION {[1..k -> Digits] : k \in 0..3}

Plain ==
  [head_end |-> 2, head |-> "ok", version |-> 1,
   headers |-> <<H("host", TRUE, <<>>), H("content-length", TRUE, <<2>>)>>,
   method |-> "POST", path |-> "/v1/scenarios/confirm", query |-> <<>>, two_marks |-> FALSE,
   body |-> [valid |-> TRUE, stream_id |-> 1, token_form |-> "string", token |-> <<1>>]]

HeaderMessages ==
  {[Plain EXCEPT !.headers = hs, !.method = m, !.path = IF m = "GET" THEN "/v1/state" ELSE @] :
     hs \in UNION {[1..k -> Headers] : k \in 0..3}, m \in {"GET", "POST"}}

P(name, ok) == [name |-> name, ok |-> ok]
Parameters == {P("format", TRUE), P("format", FALSE), P("cursor", TRUE), P("cursor", FALSE),
               P("bare", TRUE), P("other", TRUE)}
Queries == UNION {[1..k -> Parameters] : k \in 0..2}

LineMessages ==
  {[Plain EXCEPT !.head = h, !.version = v, !.method = m, !.path = p, !.query = q,
                 !.two_marks = t, !.head_end = e, !.headers = SubSeq(@, 1, k)] :
     h \in {"ok", "TooManyHeaders", "MalformedRequest"}, v \in {0, 1},
     m \in {"GET", "POST", "PUT"},
     p \in {"/healthz", "/v1/state", "/v1/scenarios/prepare", "/"},
     q \in {<<>>, <<P("format", TRUE), P("cursor", TRUE)>>, <<P("bare", TRUE)>>},
     t \in BOOLEAN, e \in {1, 4, 7}, k \in 1..2}

BodyMessages ==
  {[Plain EXCEPT !.path = p,
                 !.body = [valid |-> v, stream_id |-> s, token_form |-> f, token |-> t]] :
     p \in PostPaths, v \in BOOLEAN, s \in {0, 1},
     f \in {"string", "number", "other"}, t \in {<<>>, <<1>>, <<0, 1>>, <<2, 10>>}}

TokenMessages ==
  {[Plain EXCEPT !.path = p, !.body = [@ EXCEPT !.token = t]] :
     p \in {"/v1/scenarios/confirm", "/v1/scenarios/cancel"}, t \in TokenTexts}

QueryMessages ==
  {[Plain EXCEPT !.path = "/v1/state", !.method = "GET", !.query = q, !.headers = SubSeq(@, 1, 1)] :
     q \in Queries}

MCMessages ==
  HeaderMessages \cup LineMessages \cup BodyMessages \cup TokenMessages \cup QueryMessages

(* One endpoint may do everything wrong, the other is sound.                 *)
MCEndpoints == {"sound", "faulty"}
MCFaults ==
  [e \in MCEndpoints |->
     IF e = "sound" THEN {}
     ELSE {"Refuse", "Silent", "Reject", "Disagree", "Damage", "Skip", "Close"}]

F(kind, declared, bytes, id) ==
  [kind |-> kind, declared |-> declared, bytes |-> bytes, id |-> id]

(* Sizes are scaled down: 8 bytes instead of the 18 of a command, and the   *)
(* buffer takes a command and the size of the next one.                      *)
MCFrames ==
  {F("Start", 8, 8, 1), F("Request", 8, 8, 1), F("WrongStream", 8, 8, 2),
   F("Unsupported", 12, 12, 1), F("Malformed", 0, 8, 2), F("Malformed", 13, 13, 2)}

-----------------------------------------------------------------------------
VARIABLE part

transportVars == <<vars, streamVars, probeVars, requestVars, part>>

TransportInit ==
  /\ part \in {"tokens", "stream", "request", "probe"}
  /\ IF part = "request" THEN ReadInit ELSE message = Plain /\ received = 0
  /\ Init /\ StreamInit /\ ProbeInit

TokensStep ==
  part = "tokens" /\ Next /\ UNCHANGED <<streamVars, probeVars, requestVars, part>>
StreamStep ==
  part = "stream" /\ StreamNext /\ UNCHANGED <<vars, probeVars, requestVars, part>>

RequestStep ==
  part = "request" /\ Receive /\ UNCHANGED <<vars, streamVars, probeVars, part>>

ProbeStep(A) ==
  part = "probe" /\ A /\ UNCHANGED <<vars, streamVars, requestVars, part>>

TransportNext == TokensStep \/ StreamStep \/ RequestStep \/ ProbeStep(ProbeNext)

(* The probe runs; and what it waits for does not stop altogether: bytes are *)
(* delivered, time passes, and an endpoint answers or turns out to be        *)
(* silent.  Nothing says which of these comes first.                         *)
Surroundings ==
  Network \/ Tick \/ (verdict = "running" /\ \E e \in Endpoints : Answers(e))

TransportSpec ==
  /\ TransportInit /\ [][TransportNext]_transportVars
  /\ WF_probeVars(ProbeStep(Loop))
  /\ WF_probeVars(ProbeStep(Surroundings))

-----------------------------------------------------------------------------
(* Whatever the endpoints do, an acceptance run of the probe ends.           *)
ProbeEnds == part = "probe" ~> verdict # "running"
=============================================================================
