---------------------------- MODULE MCBatchCapture ----------------------------
(* The instance of BatchCapture that TLC checks. *)
EXTENDS BatchCapture
=============================================================================
