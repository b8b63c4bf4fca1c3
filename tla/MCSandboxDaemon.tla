--------------------------- MODULE MCSandboxDaemon ---------------------------
(* Two deployments that get the same process ID, one after the other, with a    *)
(* stop and a delete; which sandbox these name is left open.                   *)
EXTENDS SandboxDaemon
=============================================================================
