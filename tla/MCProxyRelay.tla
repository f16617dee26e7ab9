---------------------------- MODULE MCProxyRelay ----------------------------
(* Instances of ProxyRelay for TLC.                                        *)
EXTENDS ProxyRelay
=============================================================================
