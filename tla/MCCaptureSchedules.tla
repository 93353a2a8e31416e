-------------------------- MODULE MCCaptureSchedules --------------------------
(* The instance of CaptureSchedules that TLC checks. *)
EXTENDS CaptureSchedules
=============================================================================
