-------------------------- MODULE MCBoundedChannel --------------------------
(* Two channels on one budget: a gated response channel with a synchronous  *)
(* consumer and a request channel with an asynchronous one, as the two      *)
(* channels of a SignalSession.                                             *)
EXTENDS BoundedChannel

CONSTANTS resp, req, m1, m2, m3

MCSize == [m \in Message |-> IF m = m3 THEN 2 ELSE 1]
MCDelivery ==
    [m \in Message |-> CASE m = m1 -> "Deferred"
                         [] m = m2 -> "OpenGate"
                         [] OTHER -> "Ready"]
=============================================================================
