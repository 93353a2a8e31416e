----------------------------- MODULE MCPyatsJobs -----------------------------
(* The instances of PyatsJobs that TLC checks. *)
EXTENDS PyatsJobs

CONSTANTS s1, s2, s3, g1, d1, d2

\* Two snapshots and the golden config of one device, a snapshot of the other.
MCFirstOwner == [i \in {s1, s2, s3, g1} |-> IF i = s3 THEN d2 ELSE d1]
=============================================================================
