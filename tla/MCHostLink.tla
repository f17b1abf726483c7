----------------------------- MODULE MCHostLink -----------------------------
(***************************************************************************)
(* A link with two requests, and streams of up to seven bytes.             *)
(***************************************************************************)
EXTENDS HostLink, Framing, TLC

Value(type, id, method, error) == [type |-> type, id |-> id, method |-> method, error |-> error]

\* Bytes of two values and headers of two of them, the lower first.
MCHeader == [n \in 0 .. 3 |-> <<n % 2, n \div 2>>]

\* To the client, a payload of each kind: the three envelopes, the response with an error of
\* a code that message.rs does not have, a request without an id, a response with a null
\* error, and text that is no JSON.
MCJson ==
  (<<>> :> NotJson) @@ (<<0>> :> Value("request", TRUE, TRUE, "none"))
  @@ (<<1>> :> Value("request", FALSE, TRUE, "none"))
  @@ (<<0, 0>> :> Value("response", TRUE, FALSE, "unknown"))
  @@ (<<0, 1>> :> Value("response", TRUE, FALSE, "null"))
  @@ (<<1, 0>> :> Value("event", TRUE, TRUE, "none")) @@ (<<1, 1>> :> NotJson)

\* serde_json reads the same, but refuses the event: a string of it has a lone surrogate.
MCSerdeJson == [MCJson EXCEPT ![<<1, 0>>] = NotJson]

\* The frames of both directions are read as each side's decoder reads a payload.  Framing
\* has no state of its own beyond a call: this is checked where a behaviour starts.
FramingSound == toHost = <<Message("request", Hello)>> => FramesInOrder
=============================================================================
