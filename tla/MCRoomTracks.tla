---------------------------- MODULE MCRoomTracks ----------------------------
(* Two participants, the first with an audio and a video track.              *)
EXTENDS RoomTracks

CONSTANTS p1, p2, t1, t2

MCOwner == [t \in Track |-> p1]
=============================================================================
