--------------------------- MODULE MCNackRequester ---------------------------
(* A cycle of ten sequence numbers, a list of two, one request per pass, and *)
(* round-trip times below, at and above the retry interval.                  *)
EXTENDS NackRequester
=============================================================================
