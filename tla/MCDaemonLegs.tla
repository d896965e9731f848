---------------------------- MODULE MCDaemonLegs ----------------------------
(* One operator connection beside the supervisor and the main goroutine.   *)
EXTENDS DaemonLegs

MCFullBundle == {{"outer", "inner"}}
MCBundles == {{"outer", "inner"}, {"outer"}}
=============================================================================
