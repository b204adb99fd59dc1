-------------------------- MODULE MCManagementPlane --------------------------
(* Small instances of ManagementPlane.  One byte of head, one of body.        *)
EXTENDS ManagementPlane

Post ==
  [head_end |-> 1, head |-> "ok", version |-> 1,
   headers |-> <<[name |-> "host", ok |-> TRUE, digits |-> <<>>],
                 [name |-> "content-length", ok |-> TRUE, digits |-> <<1>>]>>,
   method |-> "POST", path |-> "/v1/scenarios/confirm", query |-> <<>>, two_marks |-> FALSE,
   body |-> [valid |-> TRUE, stream_id |-> 1, token_form |-> "string", token |-> <<1>>]]

Get == [Post EXCEPT !.method = "GET", !.path = "/healthz", !.headers = SubSeq(@, 1, 1)]
Endless == [Get EXCEPT !.head_end = 3]

(* A command with a byte too many, and a head longer than the buffer of a   *)
(* client that may stay silent and never reads.                              *)
MCClients == {"command", "endless"}
MCMessageOf == [c \in MCClients |-> IF c = "endless" THEN Endless ELSE Post]
MCSizeOf == [c \in MCClients |-> IF c = "endless" THEN 2 ELSE 3]
MCReaders == {"command"}
=============================================================================
