-------------------------- MODULE MCTelemetryLink --------------------------
(***************************************************************************)
(* One status and one position: only the age of a frame matters here.      *)
(***************************************************************************)
EXTENDS TelemetryLink

CONSTANTS active, here, nothing

\* Under outages nothing is said of the age of the position.
MCOldestFrame ==
    [losses |-> [HEARTBEAT |-> 9, LOCAL_POSITION_NED |-> 9],
     outages |-> [HEARTBEAT |-> 10, LOCAL_POSITION_NED |-> 0]]
=============================================================================
