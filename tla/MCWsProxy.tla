----------------------------- MODULE MCWsProxy -----------------------------
(* WsProxy for TLC.                                                        *)
EXTENDS WsProxy, TLC
=============================================================================
