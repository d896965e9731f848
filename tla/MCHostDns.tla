------------------------------ MODULE MCHostDns -----------------------------
(* One connection that connects and tears down while the forwarder fails   *)
(* and recovers; two configurations, a ladder of two delays.               *)
EXTENDS HostDns
=============================================================================
