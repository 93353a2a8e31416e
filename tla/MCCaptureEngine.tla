---------------------------- MODULE MCCaptureEngine ----------------------------
(* The instances of CaptureEngine that TLC checks. *)
EXTENDS CaptureEngine

CONSTANTS c1, c2, f1, f2

\* No command, one, two, and one of them twice.
MCParseLists == {<<>>, <<c1>>, <<c1, c2>>, <<c1, c2, c1>>}

\* STATE_COMMANDS, and what an operator may configure for an OS.
MCStateLists == {<<>>, <<c1, c2>>, <<c1, c1>>}

MCFeatureLists == {<<>>, <<f1>>, <<f1, f2>>}
=============================================================================
