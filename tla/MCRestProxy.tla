---------------------------- MODULE MCRestProxy ----------------------------
(* Instances of RestProxy for TLC.                                          *)
EXTENDS RestProxyProofs

\* Two operations that may collide, and one that can take effect repeatedly.
MCWrites == {"POST", "PUT", "DELETE"}

MCAll == {"POST", "PUT", "DELETE", "GET"}
=============================================================================
