------------------------ MODULE MCResidentLeaseTimed ------------------------
(* A small machine for TLC: two servers, of one busy engine each. *)
EXTENDS ResidentLeaseTimed

CONSTANTS t1, t2, p1, p2

MCProcOf == [t \in Threads |-> IF t = t1 THEN p1 ELSE p2]
=============================================================================
