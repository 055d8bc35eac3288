------------------------------- MODULE Decide --------------------------------
(***************************************************************************)
(* The verdict of the probe responder on one datagram: classifyAwgPacket    *)
(* (responder/awg.go) and decide (responder/responder.go).                  *)
(*                                                                         *)
(* A datagram is [len, word, shape]: its length, the little-endian word at  *)
(* each offset, and which detector of responder/detect.go matches it:       *)
(* "dns", "stun", "quic1" (an Initial of QUIC version 1), "quic" (of any    *)
(* other version isQUICVersion knows) or "other".  Shape and words are      *)
(* independent of each other: a client that imitates a protocol fills the   *)
(* padding before the word so that the datagram resembles one.              *)
(***************************************************************************)
EXTENDS Integers

CONSTANT Offsets  \* the offsets at which a word may be looked at

MessageTypes == 1 .. 4  \* handshake init, response, cookie reply, transport

\* AwgParams: S1 to S4 and H1 to H4.
IsAwgParams(p) ==
    /\ p = [s |-> p.s, h |-> p.h]
    /\ p.s \in [MessageTypes -> Offsets]
    /\ p.h \in [MessageTypes -> [min: Nat, max: Nat]]

Shapes == {"dns", "stun", "quic1", "quic", "other"}

IsDatagram(d) ==
    /\ d = [len |-> d.len, word |-> d.word, shape |-> d.shape]
    /\ d.len \in Nat /\ d.word \in [Offsets -> Nat] /\ d.shape \in Shapes

ASSUME OffsetsAssumption == Offsets \subseteq Nat

\* The size of a message without its padding; a transport message is longer.
Size(i) == CASE i = 1 -> 148 [] i = 2 -> 92 [] i = 3 -> 64 [] i = 4 -> 32

\* Genuine under p: one of the four kinds of message fits.
ClassifyAwgPacket(data, p) ==
    \E i \in MessageTypes :
        /\ data.len >= p.s[i] + 4
        /\ IF i = 4 THEN data.len >= p.s[i] + Size(i) ELSE data.len = p.s[i] + Size(i)
        /\ data.word[p.s[i]] \in p.h[i].min .. p.h[i].max

Protocols == {"dns", "stun", "quic", "sip"}

\* Whether the detector of the configured protocol matches; there is none for sip
\* and "none".
Detected(data, protocol) ==
    IF protocol = "quic" THEN data.shape \in {"quic1", "quic"} ELSE data.shape = protocol

\* How a detected probe is served: a QUIC 1 Initial is accepted and its flow
\* claimed, if the handshake is on; any other is answered and dropped.
Serve(data, protocol, handshake) ==
    IF protocol = "quic" /\ handshake /\ data.shape = "quic1" THEN "claim" ELSE "answer"

\* Mutant: the detector comes first.
Decide_DetectFirst(data, p, protocol, handshake) ==
    IF Detected(data, protocol) THEN Serve(data, protocol, handshake) ELSE "accept"

Decide(data, p, protocol, handshake) ==
    IF ClassifyAwgPacket(data, p) THEN "accept"
    ELSE IF Detected(data, protocol) THEN Serve(data, protocol, handshake)
    ELSE "accept"
=============================================================================
