---------------------------- MODULE MCAuthSession ----------------------------
EXTENDS AuthSession
CONSTANTS p1, p2, p3
(* Alive objects are strings, like every WorkerThread object.              *)
MCAlive == {"alive1", "alive2"}
MCCaller == {"ui", "main"}
=============================================================================
