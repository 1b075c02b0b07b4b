---------------------------- MODULE MCProxyPair ----------------------------
(* ProxyPair for TLC, with downstream TLS and pause_recv_on_high_watermark *)
(* (off by default), which pauses the receiving side of a session over its *)
(* own high watermark.                                                     *)
EXTENDS ProxyPair

TlsBounds == {[tls |-> TRUE, high |-> 1, D |-> 3, U |-> 4, stop |-> FALSE]}

(* docs/docs/5.producer-consumer-backpressure.md:61, of bytes that arrived *)
(* when write pressure is passed on as a pause of the reading side:        *)
(* "이미 도착한 바이트는 순서를 유지한 채 제한된 범위에서만 살아남습니다".   *)
(* They survive within limits and in their order: with the option          *)
(* pause_recv_on_high_watermark, too, the client reads what the upstream   *)
(* sent, in its order.                                                     *)
ResponseIsExact == IsPrefix(p.wire["D"], UpTo(p.sent["U"]))
=============================================================================
