----------------------------- MODULE MCEventLoop -----------------------------
(* An instance of EventLoop for TLC.                                        *)
EXTENDS EventLoop

CONSTANTS t1, p1, p2
=============================================================================
