--------------------------- MODULE MCResidentLease ---------------------------
(* Small machines for TLC. *)
EXTENDS ResidentLease

CONSTANTS lang, image, cli, server, other

\* A server with both engines, and a one-shot command beside it.
MCProcOf == [t \in Threads |-> IF t = cli THEN other ELSE server]
=============================================================================
