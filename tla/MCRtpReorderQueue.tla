-------------------------- MODULE MCRtpReorderQueue --------------------------
(* A cycle of 12 numbers and a source whose ten packets straddle its end. *)
EXTENDS RtpReorderQueue
=============================================================================
