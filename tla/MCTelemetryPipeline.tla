------------------------ MODULE MCTelemetryPipeline ------------------------
(* Small instances of TelemetryPipeline for TLC. *)
EXTENDS TelemetryPipeline

CONSTANTS p1, p2, p3, p4, p5, d1, d2, m1, m2, m3

MCDrivers  == {d1, d2}

\* A batch of two pings of d1, a live ping of d1 and one of d2.
MCPings    == {p1, p2, p3, p4}
MCMessages == {m1, m2, m3}
MCOwner    == [p \in Pings |-> IF p = p4 THEN d2 ELSE d1]
MCPayload  == [m \in Messages |-> CASE m = m1 -> <<p1, p2>>
                                      [] m = m2 -> <<p3>>
                                      [] m = m3 -> <<p4>>]

\* Two batches that mix good pings of d1 with bad ones: p2 does not parse, p4 is
\* of the unknown driver d2, and GEOADD rejects p5.
MixedPings    == MCPings \cup {p5}
MixedMessages == {m1, m2}
MixedPayload  == [m \in Messages |-> IF m = m1 THEN <<p1, p2, p3>> ELSE <<p4, p5>>]
=============================================================================
