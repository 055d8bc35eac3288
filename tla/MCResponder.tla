---------------------------- MODULE MCResponder ------------------------------
(* Values of the constants of Responder for TLC. *)
EXTENDS Responder, TLC

\* Two sets of parameters whose headers do not meet; every padding is one byte.
McAwg(h) == [s |-> [i \in MessageTypes |-> 1],
             h |-> [i \in MessageTypes |-> [min |-> h + i, max |-> h + i]]]
McStored == [awg |-> McAwg(0), port |-> 1]
McNew    == [awg |-> McAwg(10), port |-> 1]
McMoved  == [awg |-> McAwg(0), port |-> 2]

\* A handshake init of each, which may resemble a probe, and a probe.
McDatagram(len, w, shape) == [len |-> len, word |-> [o \in Offsets |-> w], shape |-> shape]
McDatagrams(headers) == {McDatagram(149, w, s) : w \in headers, s \in {"dns", "quic1"}}
    \cup {McDatagram(60, 99, s) : s \in {"dns", "quic1", "quic"}}
McKnown   == McDatagrams({1})
McChanged == McDatagrams({1, 11})

McEnv(protocol, handshake, upper, raw) ==
    [protocol |-> protocol, handshake |-> handshake, upper |-> upper, raw |-> raw]
McEnvs == {McEnv("dns", FALSE, {"protocol", "handshake"}, FALSE), McEnv("quic", TRUE, {}, TRUE),
           McEnv("none", TRUE, {"protocol"}, TRUE)}
McUpper == {McEnv("quic", TRUE, {"protocol"}, TRUE)}
McMoves == {McStored, McMoved}
McEdits == {McNew}
McLeft == {[new |-> 2, claim |-> 1]}
=============================================================================
